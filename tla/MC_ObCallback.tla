---------------------------- MODULE MC_ObCallback ----------------------------
(* Instances of ObCallback for TLC. ProtectNameInput.name is shrunk from   *)
(* NAME_SIZE + 1 = 201 units to 2; texts use the units a, b and NUL.       *)
EXTENDS ObCallback

CONSTANTS p1, p2

MC_Procs == {p1, p2}

\* The kernel's ImageFileName: p1's is "ab" with room for a NUL after it
\* (MaximumLength = Length + 2), p2's is "b" with no spare room.
MC_ImageOf ==
  [p \in MC_Procs |->
     IF p = p1 THEN [Length |-> 4, MaximumLength |-> 6, alloc |-> 6,
                     written |-> 6, buf |-> << "a", "b", "NUL" >>]
               ELSE [Length |-> 2, MaximumLength |-> 2, alloc |-> 2,
                     written |-> 2, buf |-> << "b" >>]]

\* Names a client sends: "ab" filling the array, and "a" followed by NUL;
\* operations PROTECT (0), REJECT (1) and an unknown one (2).
MC_Names == { << "a", "b" >>, << "a", "NUL" >> }
MC_Requests == [operation : {0, 1, 2}, name : MC_Names]
MC_FullNames == [operation : {0, 1, 2}, name : { << "a", "b" >> }]
====
