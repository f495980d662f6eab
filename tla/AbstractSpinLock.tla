-------------------------- MODULE AbstractSpinLock --------------------------
(***************************************************************************)
(* What a kernel spin lock promises its callers: one holder at a time, and *)
(* a release brings the caller's CPU back to the IRQL it had when it        *)
(* called acquire. Acquire and release are atomic here.                    *)
(***************************************************************************)
CONSTANTS
  Threads,      \* the CPUs / threads that use the lock
  Irqls,        \* the IRQLs callers run at
  NoThread,     \* nobody holds the lock
  NoIrql        \* no IRQL saved (the thread does not hold the lock)

VARIABLES
  holder,       \* the thread that holds the lock, or NoThread
  irql,         \* the current IRQL of each thread
  saved         \* the IRQL each holder will return to on release

vars == << holder, irql, saved >>

TypeOK ==
  /\ holder \in Threads \cup {NoThread}
  /\ irql \in [Threads -> Irqls]
  /\ saved \in [Threads -> Irqls \cup {NoIrql}]

Init ==
  /\ holder = NoThread
  /\ irql \in [Threads -> Irqls]
  /\ saved = [t \in Threads |-> NoIrql]

\* A thread that does not hold the lock runs at whatever IRQL its context has.
ChangeIrql(t) ==
  /\ holder # t
  /\ \E l \in Irqls : irql' = [irql EXCEPT ![t] = l]
  /\ UNCHANGED << holder, saved >>

Acquire(t) ==
  /\ holder = NoThread
  /\ holder' = t
  /\ saved' = [saved EXCEPT ![t] = irql[t]]
  /\ irql' = [irql EXCEPT ![t] = "Dispatch"]

Release(t) ==
  /\ holder = t
  /\ holder' = NoThread
  /\ irql' = [irql EXCEPT ![t] = saved[t]]
  /\ saved' = [saved EXCEPT ![t] = NoIrql]

Next == \E t \in Threads : ChangeIrql(t) \/ Acquire(t) \/ Release(t)

Spec == Init /\ [][Next]_vars

=============================================================================
