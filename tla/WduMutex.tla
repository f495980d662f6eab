------------------------------- MODULE WduMutex -------------------------------
(***************************************************************************)
(* WduFastMutex / WduGuardedMutex (src/sync/mutex.rs) used by several      *)
(* threads, directly (acquire, try_acquire, release and their _unsafe     *)
(* forms) or through the lock_api wrappers WduFastMtx / WduGuardedMtx.     *)
(*                                                                         *)
(* The wrappers compute `let ptr = &self as *const _ as *mut Self` inside  *)
(* `fn lock(&self)`: the address of the local reference `self`, a stack    *)
(* slot, and not of the mutex. The kernel routine takes the slot for a     *)
(* FAST_MUTEX whose Count is the pointer stored there; that pointer is     *)
(* aligned, so FM_LOCK_BIT (1 = free) reads 0 and the mutex looks held:    *)
(* KeAcquireGuardedMutex waits on the gate it finds above the slot for     *)
(* ever, or bug-checks on it, and KeTryToAcquireGuardedMutex returns FALSE.*)
(* The FAST_MUTEX in the struct is never touched, and the guard's unlock   *)
(* is never reached.                                                       *)
(***************************************************************************)
EXTENDS Naturals, FiniteSets

CONSTANTS
  Threads,      \* threads that use one mutex
  Uses,         \* Uses[t]: "Direct" (acquire / acquire_unsafe, release),
                \* "Try" (try_acquire), "LockApi" (Mutex::lock and the
                \* guard's unlock), "LockApiTry" (Mutex::try_lock)
  InitCall,     \* what DriverEntry calls before the threads start: "init"
                \* or "init_lock" (the wrapper, as the obcallback sample)
  NoThread

ASSUME Uses \in [Threads -> SUBSET {"Direct", "Try", "LockApi", "LockApiTry"}]
ASSUME InitCall \in {"init", "init_lock"}

VARIABLES
  count,        \* the lock bit of FAST_MUTEX.Count: "Free" or "Locked"
  owner,        \* FAST_MUTEX.Owner
  pc            \* each thread: Idle, Wait (inside acquire on the mutex),
                \* Held, SlotWait (inside the kernel acquire on a stack
                \* slot), BugCheck

vars == << count, owner, pc >>

BugChecked == \E t \in Threads : pc[t] = "BugCheck"

\* new() / const_new() zero the FAST_MUTEX: Count = 0 has the lock bit
\* clear, i.e. locked. init() sets Count = FM_LOCK_BIT (KeInitializeGuarded-
\* Mutex likewise); init_lock() initializes the stack slot instead.
Init ==
  /\ count = IF InitCall = "init" THEN "Free" ELSE "Locked"
  /\ owner = NoThread
  /\ pc = [t \in Threads |-> "Idle"]

-----------------------------------------------------------------------------
(* The direct API: one kernel call on the mutex in the struct.            *)

\* acquire / acquire_unsafe: ExAcquireFastMutex(Unsafe) or KeAcquireGuarded-
\* Mutex(Unsafe); the caller waits until the lock bit is set.
Acquire(t) ==
  /\ ~BugChecked
  /\ "Direct" \in Uses[t]
  /\ pc[t] = "Idle"
  /\ pc' = [pc EXCEPT ![t] = "Wait"]
  /\ UNCHANGED << count, owner >>

\* The waiter gets the mutex: lock bit cleared, Owner set.
Grant(t) ==
  /\ ~BugChecked
  /\ pc[t] = "Wait"
  /\ count = "Free"
  /\ count' = "Locked"
  /\ owner' = t
  /\ pc' = [pc EXCEPT ![t] = "Held"]

\* try_acquire: ExTryToAcquireFastMutex / KeTryToAcquireGuardedMutex ==
\* TRUE; on FALSE the caller stays out.
TryAcquire(t) ==
  /\ ~BugChecked
  /\ "Try" \in Uses[t]
  /\ pc[t] = "Idle"
  /\ IF count = "Free"
       THEN /\ count' = "Locked" /\ owner' = t
            /\ pc' = [pc EXCEPT ![t] = "Held"]
       ELSE UNCHANGED vars

\* release / release_unsafe: sets the lock bit and clears Owner.
Release(t) ==
  /\ ~BugChecked
  /\ pc[t] = "Held"
  /\ count' = "Free"
  /\ owner' = NoThread
  /\ pc' = [pc EXCEPT ![t] = "Idle"]

-----------------------------------------------------------------------------
(* The lock_api wrappers: RawMutex::lock / try_lock call the inherent     *)
(* lock / try_lock, which call the routine on the stack slot of their own *)
(* `self`.                                                                 *)

\* WduGuardedMtx::lock(): the kernel acquire on the stack slot sees the lock
\* bit clear and waits on the slot's gate, or bug-checks on it; it never
\* returns. The struct's mutex is left alone.
LockApiLock(t) ==
  /\ ~BugChecked
  /\ "LockApi" \in Uses[t]
  /\ pc[t] = "Idle"
  /\ \E out \in {"SlotWait", "BugCheck"} : pc' = [pc EXCEPT ![t] = out]
  /\ UNCHANGED << count, owner >>

\* WduGuardedMtx::try_lock(): the try on the stack slot sees the lock bit
\* clear and returns FALSE; nothing changes.
LockApiTryLock(t) ==
  /\ ~BugChecked
  /\ "LockApiTry" \in Uses[t]
  /\ pc[t] = "Idle"
  /\ UNCHANGED vars

-----------------------------------------------------------------------------
Next ==
  \E t \in Threads :
    \/ Acquire(t) \/ Grant(t) \/ TryAcquire(t) \/ Release(t)
    \/ LockApiLock(t) \/ LockApiTryLock(t)

Spec == Init /\ [][Next]_vars

\* A critical section ends (release is called), and the kernel wakes a
\* waiter whenever the mutex is released: a waiter that finds the mutex
\* free infinitely often gets it.
FairSpec ==
  /\ Spec
  /\ \A t \in Threads : WF_vars(Release(t)) /\ SF_vars(Grant(t))

-----------------------------------------------------------------------------
(* Properties.                                                             *)

\* Every lock call returns with the mutex, whichever API the thread used:
\* a thread inside acquire or inside WduGuardedMtx::lock eventually holds
\* the mutex, unless the machine bug-checked. The obcallback sample relies
\* on it for every PROTECT.lock() of its IOCTL and notify paths.
LockReturns ==
  \A t \in Threads : pc[t] \in {"Wait", "SlotWait"} ~> (pc[t] = "Held" \/ BugChecked)

=============================================================================
