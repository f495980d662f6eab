---------------------------- MODULE MC_UnicodeCalls ----------------------------
(* Inputs for UnicodeCalls: short texts over a three-letter alphabet, the  *)
(* lengths at which the u16 byte count and the copy() block run out, and   *)
(* the values at which the decimal digit count grows past the buffer.     *)
EXTENDS UnicodeCalls

Units == {"a", "A", "b"}

\* Every text of at most n units.
Texts(n) == UNION {[1..k -> Units] : k \in 0..n}
ShortTexts == Texts(3)

\* n copies of one unit.
Text(n) == [i \in 1..n |-> "a"]

\* 12 units fill the 24-byte block of copy(); 32767 units are the longest
\* text whose byte count fits a u16.
MC_Sources == ShortTexts \cup {Text(n) : n \in {12, 13, 32767, 32768}}
MC_ShortSources == ShortTexts \cup {Text(12), Text(13)}

\* Haystacks of up to three units, needles of up to two.
MC_Pairs == ShortTexts \X Texts(2)

\* 9 and 10 decimal digits (2147483647 stands for the 10-digit values up
\* to u32::MAX, which TLC cannot write); the u64 test value 0xDEADBEEF does
\* not fit TLC either, 2147483647 has as many decimal digits.
MC_U32Values == {0, 9, 10, 999999999, 1000000000, 2147483647}
MC_U64Values == {0, 2147483647}
MC_Bases == {10, 16}
====
