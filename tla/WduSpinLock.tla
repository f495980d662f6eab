----------------------------- MODULE WduSpinLock -----------------------------
(***************************************************************************)
(* WduSpinLock (src/sync/spinlock.rs) used by several threads at once.     *)
(* The struct keeps, next to the KSPIN_LOCK, two fields every user shares: *)
(* old_irql (written by acquire / acquire_for_dpc, read by their release)  *)
(* and lockhandle (the KLOCK_QUEUE_HANDLE of the in-stack queued variant). *)
(* Each kernel call is one step; the Rust statements around it are steps   *)
(* of their own where another thread can see the difference.               *)
(***************************************************************************)
EXTENDS Naturals

CONSTANTS
  Threads,      \* threads (on distinct CPUs) that use one WduSpinLock
  Uses,         \* the acquire/release pairs each thread calls: "Classic"
                \* (acquire), "ForDpc" (acquire_for_dpc), "AtDpc"
                \* (acquire_at_dpc), "InStack" (acquire_in_stack)
  DebugBuild,   \* TRUE when debug_assert! is compiled in
  NoThread

Modes == {"Classic", "ForDpc", "AtDpc", "InStack"}
ASSUME Uses \in [Threads -> SUBSET Modes]
ASSUME DebugBuild \in BOOLEAN

Irqls == {"Passive", "Dispatch"}
NoIrql == "None"

VARIABLES
  owner,        \* the KSPIN_LOCK: the thread that holds it, or NoThread
  oldIrql,      \* WduSpinLock.old_irql
  handle,       \* WduSpinLock.lockhandle: NoHandle or a KLOCK_QUEUE_HANDLE
  irql,         \* the IRQL of each thread's CPU
  pc,           \* where each thread is in its acquire / release pair
  mode,         \* which pair each thread is using
  entry,        \* the IRQL the thread had when it called acquire
  local         \* the old_irql value release passes to KeReleaseSpinLock

vars == << owner, oldIrql, handle, irql, pc, mode, entry, local >>

\* A KLOCK_QUEUE_HANDLE as the lock routines use it: whose acquisition it
\* describes and the OldIrql it saved. LockHandle::default() is all zeros:
\* no queue entry and OldIrql = 0 = PASSIVE_LEVEL.
NoHandle == [thread |-> NoThread, saved |-> NoIrql]
Zeroed   == [thread |-> NoThread, saved |-> "Passive"]
Handles  == [thread : Threads \cup {NoThread}, saved : Irqls \cup {NoIrql}]

\* Modes whose acquire raises to DISPATCH_LEVEL and returns the old IRQL
\* into old_irql: acquire (KeAcquireSpinLockRaiseToDpc) and acquire_for_dpc
\* (KeAcquireSpinLockForDpc, which does not raise when already there).
RaisesIrql(m) == m \in {"Classic", "ForDpc"}

Init ==
  /\ owner = NoThread
  /\ oldIrql = "Passive"                 \* WduSpinLock::new: old_irql: 0
  /\ handle = NoHandle                   \* lockhandle: None
  /\ irql \in [Threads -> Irqls]
  /\ pc = [t \in Threads |-> "Idle"]
  /\ mode = [t \in Threads |-> "Classic"]
  /\ entry = [t \in Threads |-> NoIrql]
  /\ local = [t \in Threads |-> NoIrql]

\* A bug-check stops every CPU.
BugChecked == \E u \in Threads : pc[u] = "BugCheck"

\* Thread t moves from one point of its pair to the next.
Step(t, from, to) == ~BugChecked /\ pc[t] = from /\ pc' = [pc EXCEPT ![t] = to]

\* Between two uses of the lock a thread may run at any IRQL (callers).
SetIrql(t) ==
  /\ ~BugChecked
  /\ pc[t] = "Idle"
  /\ \E l \in Irqls : irql' = [irql EXCEPT ![t] = l]
  /\ UNCHANGED << owner, oldIrql, handle, pc, mode, entry, local >>

-----------------------------------------------------------------------------
(* acquire / acquire_for_dpc and release / release_for_dpc.                *)

\* Mutant: old_irql written before the lock is held, as acquire_in_stack
\* does with lockhandle.
AcquireRaiseStoring(t) ==
  /\ \E m \in Uses[t] : RaisesIrql(m) /\ mode' = [mode EXCEPT ![t] = m]
  /\ Step(t, "Idle", "Spin")
  /\ entry' = [entry EXCEPT ![t] = irql[t]]
  /\ irql' = [irql EXCEPT ![t] = "Dispatch"]
  /\ oldIrql' = irql[t]
  /\ UNCHANGED << owner, handle, local >>

\* KeAcquireSpinLockRaiseToDpc: raise to DISPATCH_LEVEL, then spin.
AcquireRaise(t) ==
  /\ \E m \in Uses[t] : RaisesIrql(m) /\ mode' = [mode EXCEPT ![t] = m]
  /\ Step(t, "Idle", "Spin")
  /\ entry' = [entry EXCEPT ![t] = irql[t]]
  /\ irql' = [irql EXCEPT ![t] = "Dispatch"]
  /\ UNCHANGED << owner, oldIrql, handle, local >>

\* The spinning thread gets the lock (in-stack waiters too).
AcquireTake(t) ==
  /\ owner = NoThread
  /\ Step(t, "Spin", IF mode[t] = "InStack" THEN "Held" ELSE "Store")
  /\ owner' = t
  /\ UNCHANGED << oldIrql, handle, irql, mode, entry, local >>

\* self.old_irql = <the value the acquire call returned>.
AcquireStore(t) ==
  /\ Step(t, "Store", "Held")
  /\ oldIrql' = entry[t]
  /\ UNCHANGED << owner, handle, irql, mode, entry, local >>

\* release: the argument self.old_irql is read before the call.
ReleaseRead(t) ==
  /\ RaisesIrql(mode[t])
  /\ Step(t, "Held", "Releasing")
  /\ local' = [local EXCEPT ![t] = oldIrql]
  /\ UNCHANGED << owner, oldIrql, handle, irql, mode, entry >>

\* KeReleaseSpinLock(lock, old_irql): free the lock, lower the IRQL.
ReleaseDrop(t) ==
  /\ Step(t, "Releasing", "Idle")
  /\ owner' = NoThread
  /\ irql' = [irql EXCEPT ![t] = local[t]]
  /\ UNCHANGED << oldIrql, handle, mode, entry, local >>

-----------------------------------------------------------------------------
(* acquire_at_dpc / release_from_dpc: the caller is already at             *)
(* DISPATCH_LEVEL (debug_assert), the IRQL is left alone.                  *)

AcquireAtDpc(t) ==
  /\ "AtDpc" \in Uses[t]
  /\ irql[t] = "Dispatch"
  /\ owner = NoThread
  /\ Step(t, "Idle", "Held")
  /\ mode' = [mode EXCEPT ![t] = "AtDpc"]
  /\ owner' = t
  /\ entry' = [entry EXCEPT ![t] = irql[t]]
  /\ UNCHANGED << oldIrql, handle, irql, local >>

ReleaseFromDpc(t) ==
  /\ mode[t] = "AtDpc"
  /\ Step(t, "Held", "Idle")
  /\ owner' = NoThread
  /\ UNCHANGED << oldIrql, handle, irql, mode, entry, local >>

-----------------------------------------------------------------------------
(* acquire_in_stack / release_in_stack.                                    *)

\* debug_assert!(self.lockhandle.is_none()): a check, separate from the
\* store that follows it; a failed assert panics (the handler spins).
InStackAssert(t) ==
  /\ ~BugChecked
  /\ "InStack" \in Uses[t]
  /\ pc[t] = "Idle"
  /\ mode' = [mode EXCEPT ![t] = "InStack"]
  /\ pc' = [pc EXCEPT ![t] = IF DebugBuild /\ handle # NoHandle THEN "Panic"
                                                                ELSE "Init"]
  /\ UNCHANGED << owner, oldIrql, handle, irql, entry, local >>

\* self.lockhandle = Some(LockHandle::default()).
InStackInitHandle(t) ==
  /\ Step(t, "Init", "Queue")
  /\ handle' = Zeroed
  /\ UNCHANGED << owner, oldIrql, irql, mode, entry, local >>

\* KeAcquireInStackQueuedSpinLock(lock, &self.lockhandle): records the
\* caller's IRQL in the handle, raises, then waits in the lock's queue.
InStackRaise(t) ==
  /\ Step(t, "Queue", "Spin")
  /\ handle' = [thread |-> t, saved |-> irql[t]]
  /\ entry' = [entry EXCEPT ![t] = irql[t]]
  /\ irql' = [irql EXCEPT ![t] = "Dispatch"]
  /\ UNCHANGED << owner, oldIrql, mode, local >>

\* KeReleaseInStackQueuedSpinLock(self.lockhandle.as_ref().unwrap()):
\* unwrap panics on None. A handle still zeroed by LockHandle::default()
\* has LockQueue.Lock = NULL, which the routine dereferences: bug-check.
\* Otherwise the lock is freed and the IRQL set to the OldIrql the handle
\* holds now.
ReleaseInStack(t) ==
  /\ ~BugChecked
  /\ mode[t] = "InStack"
  /\ pc[t] = "Held"
  /\ CASE handle = NoHandle ->
            /\ pc' = [pc EXCEPT ![t] = "Panic"]
            /\ UNCHANGED << owner, irql >>
       [] handle = Zeroed ->
            /\ pc' = [pc EXCEPT ![t] = "BugCheck"]
            /\ UNCHANGED << owner, irql >>
       [] OTHER ->
            /\ pc' = [pc EXCEPT ![t] = "Clear"]
            /\ owner' = NoThread
            /\ irql' = [irql EXCEPT ![t] = handle.saved]
  /\ UNCHANGED << oldIrql, handle, mode, entry, local >>

\* self.lockhandle = None.
InStackClearHandle(t) ==
  /\ Step(t, "Clear", "Idle")
  /\ handle' = NoHandle
  /\ UNCHANGED << owner, oldIrql, irql, mode, entry, local >>

-----------------------------------------------------------------------------
Next ==
  \E t \in Threads :
    \/ SetIrql(t)
    \/ AcquireRaise(t) \/ AcquireTake(t) \/ AcquireStore(t)
    \/ ReleaseRead(t) \/ ReleaseDrop(t)
    \/ AcquireAtDpc(t) \/ ReleaseFromDpc(t)
    \/ InStackAssert(t) \/ InStackInitHandle(t) \/ InStackRaise(t)
    \/ ReleaseInStack(t) \/ InStackClearHandle(t)

Spec == Init /\ [][Next]_vars

-----------------------------------------------------------------------------
(* Properties.                                                             *)

\* The refinement mapping. A thread spinning after the raise has, for the
\* abstract lock, not called acquire yet: its IRQL is the one it entered
\* with. A holder will return to the IRQL it entered with.
Abs == INSTANCE AbstractSpinLock WITH
         holder <- owner,
         irql <- [t \in Threads |-> IF pc[t] = "Spin" THEN entry[t] ELSE irql[t]],
         saved <- [t \in Threads |-> IF owner = t THEN entry[t] ELSE NoIrql]

\* WduSpinLock implements a spin lock: every step is a step of
\* AbstractSpinLock (one holder at a time; release returns the CPU to the
\* IRQL it had at acquire) or leaves its state unchanged. This is what the
\* shared old_irql and lockhandle fields of the struct put at risk.
SpinLockRefinement == Abs!Spec

\* No thread using the lock correctly panics: neither the debug_assert of
\* acquire_in_stack that lockhandle is None nor the unwrap of
\* release_in_stack fires while every caller pairs its calls.
NoPanic == \A t \in Threads : pc[t] # "Panic"

=============================================================================
