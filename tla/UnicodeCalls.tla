----------------------------- MODULE UnicodeCalls -----------------------------
(***************************************************************************)
(* The WduUnicodeString constructors and queries as calls a driver makes:  *)
(* each action is one call with inputs from small sets, and records what   *)
(* the call returned, so that the properties can compare the result with  *)
(* what the call promises.                                                 *)
(***************************************************************************)
EXTENDS WduUnicode

CONSTANTS
  Sources,      \* slices handed to create / try_from(&[u16]) / from_str
  Pairs,        \* <<haystack, needle>> slices handed to contains
  U32Values,    \* values handed to try_from(u32) / try_from_u32
  U64Values,    \* values below 2^31 handed to try_from(u64) / try_from_u64
  Bases         \* the radix argument of try_from_u32 / try_from_u64

\* u64::MAX has 20 decimal and 16 hexadecimal digits.
U64MaxDigits(base) == IF base = 10 THEN 20 ELSE 16

VARIABLE last   \* the last call: its name, its inputs and what it returned

NoCall == [call |-> "none"]

Init == last = NoCall

\* create(source, POOL_TYPE), and the TryFrom<&[u16]>, <Vec<u16>>,
\* <&Utf16Str> and <&U16CStr> impls that call it.
CallCreate ==
  \E src \in Sources :
    last' = [call |-> "create", src |-> src, out |-> Create(src)]

\* try_from_str: reserve u16_size elements, extend with encode_utf16(),
\* then create from the Vec.
CallTryFromStr ==
  \E src \in Sources :
    last' = [call |-> "from_str", src |-> src, out |-> Create(src)]

\* clone() of a string create returned.
CallClone ==
  \E src \in Sources :
    last' = [call |-> "clone", src |-> src, out |-> CopyStr(Create(src))]

\* haystack.contains(needle, case_insensitive), both built by create.
CallContains ==
  \E p \in Pairs, ci \in BOOLEAN :
    last' = [call |-> "contains", src |-> p, ci |-> ci,
             out |-> StrContains(Create(p[1]), Create(p[2]), ci)]

\* try_from_u32(val, base): TryFrom<u32> passes base 10.
CallFromU32 ==
  \E v \in U32Values, b \in Bases :
    last' = [call |-> "u32", src |-> <<v, b>>,
             out |-> IntegerToUnicode(DigitCount(v, b), MAX_LEN_U32_STRING)]

\* try_from_u64(val, base): TryFrom<u64> passes base 10.
CallFromU64 ==
  \E b \in Bases :
  \E d \in {DigitCount(v, b) : v \in U64Values} \cup {U64MaxDigits(b)} :
    last' = [call |-> "u64", src |-> <<d, b>>,
             out |-> IntegerToUnicode(d, MAX_LEN_U64_STRING)]

Next ==
  \/ CallCreate \/ CallTryFromStr \/ CallClone \/ CallContains
  \/ CallFromU32 \/ CallFromU64

Spec == Init /\ [][Next]_last

-----------------------------------------------------------------------------
(* Properties.                                                             *)

\* contains(needle, ci) answers whether the needle's text occurs in the
\* haystack's text (after lower-casing both when ci): the byte-length
\* shortcut of contains never rejects a needle that occurs.
ContainsMatchesText ==
  last.call = "contains" =>
    last.out = IF last.ci THEN Occurs(Lowercase(last.src[1]), Lowercase(last.src[2]))
                          ELSE Occurs(last.src[1], last.src[2])

\* create (and every TryFrom that calls it) writes only into the pool block
\* it allocated.
CreateWritesWithinBlock ==
  last.call \in {"create", "from_str"} => last.out.written <= last.out.alloc

\* A string create returned holds the source's text: as_slice() gives back
\* every unit of the slice it was made from.
CreateKeepsText ==
  last.call = "create" => AsSlice(last.out) = last.src

\* clone() writes only into the block it allocated for the copy.
CloneWritesWithinBlock ==
  last.call = "clone" => last.out.written <= last.out.alloc

\* try_from(u32) and try_from(u64), base 10, succeed for every value and
\* write only into the MAX_LEN_* block they allocated.
IntegerStringFits ==
  last.call \in {"u32", "u64"} /\ last.src[2] = 10 =>
    last.out.ok /\ last.out.str.written <= last.out.str.alloc

=============================================================================
