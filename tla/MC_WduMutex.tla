------------------------------ MODULE MC_WduMutex ------------------------------
(* Threads and API choices for WduMutex.                                   *)
EXTENDS WduMutex, TLC

CONSTANTS t1, t2

MC_Threads == {t1, t2}

\* The obcallback sample's use, WduGuardedMtx::lock / try_lock after
\* init_lock, and a thread that calls acquire / try_acquire directly on the
\* same mutex.
MC_Uses == (t1 :> {"LockApi", "LockApiTry"}) @@ (t2 :> {"Direct", "Try"})
=============================================================================
