--------------------------- MODULE MC_WduSpinLock ---------------------------
(* Instances of WduSpinLock for TLC: three threads on distinct CPUs.       *)
EXTENDS WduSpinLock

CONSTANTS t1, t2, t3

MC_Threads == {t1, t2, t3}
MC_Threads2 == {t1, t2}

\* t1 also uses the in-stack pair; the others use the pairs that keep
\* old_irql in the struct.
MC_MixedUses == [t \in MC_Threads |->
                   IF t = t1 THEN {"Classic", "InStack"}
                             ELSE {"Classic", "ForDpc", "AtDpc"}]

\* Two threads that both use acquire_in_stack / release_in_stack.
MC_InStackUses == [t \in MC_Threads2 |-> {"InStack"}]
====
