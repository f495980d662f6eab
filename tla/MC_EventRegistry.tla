------------------------- MODULE MC_EventRegistry -------------------------
(* Model values and bounds for EventRegistry.                              *)
EXTENDS EventRegistry, TLC

CONSTANTS r1, r2, r3, f1, f2, e1, e2

MC_Irps  == {r1, r2, r3}
MC_Irps2 == {r1, r2}
MC_Irp1  == {r1}
MC_NoIrps == {}
MC_Files == {f1, f2}
MC_File1 == {f1}
MC_Events == {e1, e2}
MC_Event1 == {e1}
AllKinds  == {"Irp", "Event", "Invalid"}
EventKinds == {"Event", "Invalid"}
IrpKinds   == {"Irp"}
EventOnly  == {"Event"}

\* Requests and files are interchangeable: no definition singles one out.
\* (Used for safety runs only; each set permutes exactly the instance's
\* own Irps.)
Symmetry  == Permutations(MC_Irps) \cup Permutations(MC_Files)
Symmetry2 == Permutations(MC_Irps2) \cup Permutations(MC_Files)
=============================================================================
