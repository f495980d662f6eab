------------------------------ MODULE ObCallback ------------------------------
(***************************************************************************)
(* The obcallback sample (examples/obcallback) with the WduObCallback      *)
(* wrapper it uses (src/callbacks/ob.rs).                                  *)
(*                                                                         *)
(* Actors: IOCTL_PROTECT_NAME / IOCTL_UNPROTECT (device_control, each one  *)
(* critical section under the PROTECT guarded mutex), the process-notify   *)
(* routine (reads PROTECT_NAME_FLAG / REJECT_NAME_FLAG without the mutex,  *)
(* then takes it), the object manager calling the registered pre-operation *)
(* callbacks when a handle is opened, and driver_unload.                   *)
(*                                                                         *)
(* Names are WduUnicodeString values built with the WduUnicode operators.  *)
(***************************************************************************)
EXTENDS Naturals, Sequences, FiniteSets
LOCAL INSTANCE SequencesExt

CONSTANTS
  Procs,        \* processes that get created
  ImageOf,      \* ImageOf[p]: the kernel's ImageFileName UNICODE_STRING
  Requests,     \* ProtectNameInput buffers: [operation, name]
  MaxProtects,  \* bound on protect requests that reach register_callback
  NoProc

U == INSTANCE WduUnicode

\* ProtectNameInput.operation: PROTECT_NAME_PROTECT = 0, _REJECT = 1.
PROTECT_NAME_PROTECT == 0
PROTECT_NAME_REJECT == 1

ObTypes == {"Process", "Thread"}

\* WduUnicodeString::const_new() / default(): no buffer.
EmptyString == [Length |-> 0, MaximumLength |-> 0, alloc |-> 0, written |-> 0,
                buf |-> << >>]

VARIABLES
  device,       \* the device object exists (IOCTLs can arrive)
  psReg,        \* PROCESS_CB is registered with the kernel
  unloaded,     \* driver_unload has run
  protectFlag,  \* callback::PROTECT_NAME_FLAG
  rejectFlag,   \* callback::REJECT_NAME_FLAG
  installed,    \* Protect.callback_installed
  name,         \* Protect.protect_data.name
  target,       \* protect_data.target_process (and target_process_id)
  ops,          \* WduObCallback.operations: the object type of each entry
  regs,         \* the registrations the kernel holds, oldest first: each
                \* the OB_OPERATION_REGISTRATION array it was given
  handle,       \* WduObCallback.handle: the index in regs, 0 when null
  protects,     \* protect requests that reached register_callback
  status,       \* the status of the last IOCTL
  npc,          \* each process's creation and its process_notify_cb
  img,          \* process_notify_cb's image_filename
  panicked      \* a Rust panic (assert) ran: the handler spins

vars == << device, psReg, unloaded, protectFlag, rejectFlag, installed, name,
           target, ops, regs, handle, protects, status, npc, img, panicked >>

ioVars == << protectFlag, rejectFlag, installed, name, target, ops,
             regs, handle, protects >>

\* Number of entries of type ty in a registration array.
CountOf(seq, ty) == Cardinality({i \in DOMAIN seq : seq[i] = ty})

\* Entries of type ty over every registration the kernel holds.
KernelCount(ty) == FoldSeq(LAMBDA r, n : n + CountOf(r, ty), 0, regs)

\* ObRegisterCallbacks(&reg, &mut self.handle): the kernel keeps a new
\* registration of the whole operations array and writes its handle.
RegisterOps(arr) ==
  /\ regs' = Append(regs, arr)
  /\ handle' = Len(regs) + 1

\* ObUnRegisterCallbacks(self.handle); self.handle = null.
UnregisterHandle ==
  /\ regs' = RemoveAt(regs, handle)
  /\ handle' = 0

\* Notify steps that are between the start and the end of
\* process_notify_cb.
InNotify == {"ProtectFlag", "ProtectLock", "RejectFlag", "RejectLock"}

\* DriverEntry / init: the device is deleted when symbolic_name fails, and
\* symbolic link and device are deleted when PROCESS_CB.register fails;
\* init returns Ok in both cases.
Init ==
  /\ \E d \in BOOLEAN, ps \in BOOLEAN :
        /\ (~ps => ~d)
        /\ device = d /\ psReg = ps
  /\ unloaded = FALSE
  /\ protectFlag = FALSE /\ rejectFlag = FALSE
  /\ installed = FALSE
  /\ name = EmptyString
  /\ target = NoProc
  /\ ops = << >>
  /\ regs = << >>
  /\ handle = 0
  /\ protects = 0
  /\ status = "none"
  /\ npc = [p \in Procs |-> "Absent"]
  /\ img = [p \in Procs |-> EmptyString]
  /\ panicked = FALSE

Serving == device /\ ~unloaded /\ ~panicked

-----------------------------------------------------------------------------
(* device_control.                                                         *)

\* Any other IOCTL: STATUS_INVALID_DEVICE_REQUEST.
DeviceControlInvalid ==
  /\ Serving
  /\ status' = "invalid_request"
  /\ UNCHANGED << device, psReg, unloaded, npc, img, panicked >>
  /\ UNCHANGED ioVars

\* protect_name fails before it changes anything: the input buffer is
\* smaller than ProtectNameInput, or (callback not installed)
\* WduUnicodeString::try_from(name) fails to allocate.
ProtectRejected ==
  /\ Serving
  /\ status' = "unsuccessful"
  /\ UNCHANGED << device, psReg, unloaded, npc, img, panicked >>
  /\ UNCHANGED ioVars

\* Mutant: protect_name without the `if !lock.is_cb_installed()` guard, so
\* protect_name_cb pushes and registers again while installed.
ProtectInstalledReregisters ==
  /\ Serving
  /\ installed
  /\ protects < MaxProtects
  /\ \E req \in Requests : name' = U!Create(req.name)
  /\ ops' = ops \o << "Process", "Thread" >>
  /\ RegisterOps(ops')
  /\ protects' = protects + 1
  /\ status' = "success"
  /\ UNCHANGED << protectFlag, rejectFlag, installed, target >>
  /\ UNCHANGED << device, psReg, unloaded, npc, img, panicked >>

\* protect_name with the callback already installed: nothing to do.
ProtectInstalled ==
  /\ Serving
  /\ installed
  /\ status' = "success"
  /\ UNCHANGED << device, psReg, unloaded, npc, img, panicked >>
  /\ UNCHANGED ioVars

\* protect_name_cb: the name is stored, register_callback pushes a process
\* and a thread registration, then WduObCallback::register fails
\* (try_reserve or ObRegisterCallbacks).
ProtectRegisterFailed ==
  /\ Serving
  /\ ~installed
  /\ protects < MaxProtects
  /\ \E req \in Requests : name' = U!Create(req.name)
  /\ ops' = ops \o << "Process", "Thread" >>
  /\ protects' = protects + 1
  /\ status' = "unsuccessful"
  /\ UNCHANGED << protectFlag, rejectFlag, installed, target, regs, handle >>
  /\ UNCHANGED << device, psReg, unloaded, npc, img, panicked >>

\* protect_name_cb: the name is stored, both registrations are pushed and
\* ObRegisterCallbacks takes the whole operations Vec; callback_installed
\* is set; only then is the requested operation looked at.
ProtectRegistered ==
  /\ Serving
  /\ ~installed
  /\ protects < MaxProtects
  /\ \E req \in Requests :
       /\ name' = U!Create(req.name)
       /\ CASE req.operation = PROTECT_NAME_PROTECT ->
                 /\ protectFlag' = TRUE /\ rejectFlag' = FALSE
                 /\ status' = "success"
            [] req.operation = PROTECT_NAME_REJECT ->
                 /\ protectFlag' = FALSE /\ rejectFlag' = TRUE
                 /\ status' = "success"
            [] OTHER ->
                 /\ UNCHANGED << protectFlag, rejectFlag >>
                 /\ status' = "unsuccessful"
  /\ ops' = ops \o << "Process", "Thread" >>
  /\ RegisterOps(ops')
  /\ installed' = TRUE
  /\ protects' = protects + 1
  /\ UNCHANGED target
  /\ UNCHANGED << device, psReg, unloaded, npc, img, panicked >>

\* unprotect with the callback installed: delete_protect_name_cb calls
\* ObUnRegisterCallbacks, nulls the handle and clears callback_installed.
Unprotect ==
  /\ Serving
  /\ installed
  /\ UnregisterHandle
  /\ installed' = FALSE
  /\ status' = "success"
  /\ UNCHANGED << protectFlag, rejectFlag, name, target, ops, protects >>
  /\ UNCHANGED << device, psReg, unloaded, npc, img, panicked >>

\* unprotect with nothing installed.
UnprotectNotInstalled ==
  /\ Serving
  /\ ~installed
  /\ status' = "success"
  /\ UNCHANGED << device, psReg, unloaded, npc, img, panicked >>
  /\ UNCHANGED ioVars

-----------------------------------------------------------------------------
(* process_notify_cb for a process being created.                          *)

\* The image name: image_filename() is WduUnicodeStr::from_ptr (the whole
\* MaximumLength), to_owned() copies it with create, unwrap_or_default()
\* gives an empty string when that fails.
NotifyCreate(p) ==
  /\ psReg /\ ~unloaded /\ ~panicked
  /\ npc[p] = "Absent"
  /\ npc' = [npc EXCEPT ![p] = "ProtectFlag"]
  /\ \E s \in {U!Create(U!FromPtr(ImageOf[p])), EmptyString} :
       img' = [img EXCEPT ![p] = s]
  /\ UNCHANGED << device, psReg, unloaded, status, panicked >>
  /\ UNCHANGED ioVars

\* A process created while no notify routine is registered.
ProcessCreateUnnotified(p) ==
  /\ ~psReg \/ unloaded
  /\ ~panicked
  /\ npc[p] = "Absent"
  /\ npc' = [npc EXCEPT ![p] = "Running"]
  /\ UNCHANGED << device, psReg, unloaded, status, img, panicked >>
  /\ UNCHANGED ioVars

\* if PROTECT_NAME_FLAG && !image_filename.is_empty(), read without the mutex.
NotifyProtectFlag(p) ==
  /\ ~panicked
  /\ npc[p] = "ProtectFlag"
  /\ npc' = [npc EXCEPT ![p] = IF protectFlag /\ ~U!IsEmpty(img[p])
                                 THEN "ProtectLock" ELSE "RejectFlag"]
  /\ UNCHANGED << device, psReg, unloaded, status, img, panicked >>
  /\ UNCHANGED ioVars

\* check_process_match under the mutex: a name that contains protect_data.name
\* (case-insensitively) becomes the target.
CheckProcessMatch(p) == U!StrContains(img[p], name, TRUE)

NotifyProtectMatch(p) ==
  /\ ~panicked
  /\ npc[p] = "ProtectLock"
  /\ npc' = [npc EXCEPT ![p] = "RejectFlag"]
  /\ target' = IF CheckProcessMatch(p) THEN p ELSE target
  /\ UNCHANGED << protectFlag, rejectFlag, installed, name, ops, regs,
                  handle, protects >>
  /\ UNCHANGED << device, psReg, unloaded, status, img, panicked >>

\* if REJECT_NAME_FLAG && !image_filename.is_empty(), read without the mutex.
NotifyRejectFlag(p) ==
  /\ ~panicked
  /\ npc[p] = "RejectFlag"
  /\ npc' = [npc EXCEPT ![p] = IF rejectFlag /\ ~U!IsEmpty(img[p])
                                 THEN "RejectLock" ELSE "Running"]
  /\ UNCHANGED << device, psReg, unloaded, status, img, panicked >>
  /\ UNCHANGED ioVars

\* check_process_match under the mutex; on a match the creation gets
\* STATUS_ACCESS_DENIED.
NotifyRejectMatch(p) ==
  /\ ~panicked
  /\ npc[p] = "RejectLock"
  /\ npc' = [npc EXCEPT ![p] = IF CheckProcessMatch(p) THEN "Denied" ELSE "Running"]
  /\ target' = IF CheckProcessMatch(p) THEN p ELSE target
  /\ UNCHANGED << protectFlag, rejectFlag, installed, name, ops, regs,
                  handle, protects >>
  /\ UNCHANGED << device, psReg, unloaded, status, img, panicked >>

-----------------------------------------------------------------------------
(* A handle to a running process (or one of its threads) is opened by      *)
(* another process. For each registered entry of that object type the      *)
(* kernel calls pre_op_internal with CallContext = NULL; pre_op_internal   *)
(* runs pre_operation_cb once per entry of the live operations Vec of that *)
(* type; for the target process each run calls ObPreOpInfo::set_context,  *)
(* which asserts CallContext is still NULL.                                *)

OpenHandle(p) ==
  /\ ~panicked
  /\ npc[p] = "Running"
  /\ \E ty \in ObTypes :
       /\ KernelCount(ty) > 0
       /\ panicked' = (target = p /\ CountOf(ops, ty) >= 2)
  /\ UNCHANGED << device, psReg, unloaded, status, npc, img >>
  /\ UNCHANGED ioVars

-----------------------------------------------------------------------------
(* driver_unload: PROCESS_CB.unregister (the kernel waits for running     *)
(* notify routines), then under the mutex delete_protect_name_cb if the   *)
(* callback is installed.                                                  *)

\* Mutant: driver_unload that only unregisters the process-notify routine.
DriverUnloadKeepsCallback ==
  /\ ~unloaded /\ ~panicked
  /\ \A p \in Procs : npc[p] \notin InNotify
  /\ unloaded' = TRUE
  /\ psReg' = FALSE
  /\ UNCHANGED << regs, handle, installed >>
  /\ UNCHANGED << protectFlag, rejectFlag, name, target, ops, protects >>
  /\ UNCHANGED << device, status, npc, img, panicked >>

DriverUnload ==
  /\ ~unloaded /\ ~panicked
  /\ \A p \in Procs : npc[p] \notin InNotify
  /\ unloaded' = TRUE
  /\ psReg' = FALSE
  /\ IF installed
       THEN /\ UnregisterHandle
            /\ installed' = FALSE
       ELSE UNCHANGED << regs, handle, installed >>
  /\ UNCHANGED << protectFlag, rejectFlag, name, target, ops, protects >>
  /\ UNCHANGED << device, status, npc, img, panicked >>

-----------------------------------------------------------------------------
Next ==
  \/ DeviceControlInvalid \/ ProtectRejected \/ ProtectInstalled
  \/ ProtectRegisterFailed \/ ProtectRegistered
  \/ Unprotect \/ UnprotectNotInstalled
  \/ \E p \in Procs :
       \/ NotifyCreate(p) \/ ProcessCreateUnnotified(p)
       \/ NotifyProtectFlag(p) \/ NotifyProtectMatch(p)
       \/ NotifyRejectFlag(p) \/ NotifyRejectMatch(p)
       \/ OpenHandle(p)
  \/ DriverUnload

Spec == Init /\ [][Next]_vars

-----------------------------------------------------------------------------
(* Properties.                                                             *)

\* The text a buffer holds up to its first NUL (what a C string names).
RECURSIVE TextOf(_)
TextOf(units) ==
  IF units = << >> \/ Head(units) = "NUL" THEN << >>
  ELSE << Head(units) >> \o TextOf(Tail(units))

\* The Length bytes of a kernel UNICODE_STRING.
KernelText(us) == SubSeq(us.buf, 1, us.Length \div 2)

\* No handle open panics: ObPreOpInfo::set_context's assert that the
\* CallContext is still NULL holds for every pre-operation call, however
\* often the name was protected, unprotected or failed to register.
NoPanic == ~panicked

\* A process is refused creation only while the protect-name callback is
\* installed: after IOCTL_UNPROTECT (or before any protect succeeded) the
\* process-notify routine lets every process start.
RejectOnlyWhileInstalled ==
  [][\A p \in Procs : npc'[p] = "Denied" /\ npc[p] # "Denied" => installed]_vars

\* An IOCTL_PROTECT_NAME that the driver completes as unsuccessful leaves
\* no object callback registered that was not registered before.
FailedProtectRegistersNothing ==
  [][status' = "unsuccessful" => regs' = regs]_vars

\* check_process_match matches a process whose image name contains the
\* name the client put in ProtectNameInput (its text up to the NUL).
ProtectNameMatches ==
  [][\A p \in Procs :
       /\ npc[p] \in {"ProtectLock", "RejectLock"}
       /\ npc'[p] # npc[p]
       /\ img[p] # EmptyString
       /\ TextOf(name.buf) # << >>
       /\ U!Occurs(U!Lowercase(KernelText(ImageOf[p])), U!Lowercase(TextOf(name.buf)))
       => target' = p]_vars

\* While the kernel holds a registration, pre_op_internal and
\* post_op_internal (which walk the live WduObCallback.operations Vec) see
\* exactly the entries that were registered: the Vec is not pushed to, and
\* so not reallocated, under a registered callback.
KernelSeesOperations == \A i \in DOMAIN regs : regs[i] = ops

\* After driver_unload no object callback of the driver is left registered
\* with the kernel: nothing can call into the unloaded image.
UnloadLeavesNoCallback == unloaded => regs = << >>

=============================================================================
