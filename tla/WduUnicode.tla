------------------------------ MODULE WduUnicode ------------------------------
(***************************************************************************)
(* The arithmetic of WduUnicodeStr and WduUnicodeString                    *)
(* (src/strings/unicode.rs). A UNICODE_STRING is a record: Length and      *)
(* MaximumLength in bytes (u16), the allocation it points to (alloc, in    *)
(* bytes), the bytes the constructor wrote into it (written) and the code  *)
(* units the buffer holds (buf). Code units are a small alphabet with an   *)
(* upper- and a lower-case letter and NUL; none is a surrogate, so         *)
(* String::from_utf16_lossy maps each unit to one char.                    *)
(*                                                                         *)
(* The operators here are pure; UnicodeCalls makes each of them a call a   *)
(* driver can make, and ObCallback uses them for the names it compares.   *)
(***************************************************************************)
EXTENDS Naturals, Sequences

U16 == 65536
Min2(a, b) == IF a < b THEN a ELSE b

\* WduUnicodeString::to_unicode_len / WduUnicodeStr::to_unicode_len:
\* (len * size_of::<u16>()) as u16.
ToUnicodeLen(len) == (len * 2) % U16

\* The heap block Box::new(vec![..]) allocates in copy(): the Vec itself
\* (pointer, capacity, length), 3 * 8 bytes on x64.
VecHeaderBytes == 24

\* const MAX_LEN_U32_STRING: u16 = 0x15; const MAX_LEN_U64_STRING = 0x30.
MAX_LEN_U32_STRING == 21
MAX_LEN_U64_STRING == 48

-----------------------------------------------------------------------------
(* Accessors.                                                              *)

\* len(): Length / size_of::<u16>().
StrLen(s) == s.Length \div 2

\* is_empty(): Length == 0 || MaximumLength == 0.
IsEmpty(s) == s.Length = 0 \/ s.MaximumLength = 0

\* as_slice(): from_raw_parts(Buffer, len()).
AsSlice(s) == SubSeq(s.buf, 1, StrLen(s))

\* Display / to_string(): String::from_utf16_lossy(as_slice()); one char per
\* unit of the alphabet.
ToString(s) == AsSlice(s)

\* WduUnicodeStr::from_ptr: from_raw_parts(Buffer, MaximumLength / 2), the
\* whole buffer and not the Length bytes in use.
FromPtr(s) == SubSeq(s.buf, 1, s.MaximumLength \div 2)

\* WduUnicodeStr::as_unicode_string: a borrowed UNICODE_STRING over a slice.
AsUnicodeString(slice) ==
  [Length |-> ToUnicodeLen(Len(slice)), MaximumLength |-> ToUnicodeLen(Len(slice)),
   alloc |-> 2 * Len(slice), written |-> 0, buf |-> slice]

-----------------------------------------------------------------------------
(* Constructors.                                                           *)

\* create(source, pool): len = to_unicode_len(source.len()); a pool block of
\* len bytes; core::ptr::copy::<u16>(source, buffer, len) copies len code
\* units, i.e. 2 * len bytes; Length = MaximumLength = len.
Create(source) ==
  LET len == ToUnicodeLen(Len(source))
  IN [Length |-> len, MaximumLength |-> len, alloc |-> len,
      written |-> 2 * len,
      buf |-> SubSeq(source, 1, Min2(len \div 2, Len(source)))]

\* copy() (Clone): the Buffer is Box::into_raw(Box::new(vec![0; len()])),
\* a pointer to the boxed Vec, not to its elements; MaximumLength is the
\* source's capacity(); RtlCopyUnicodeString then writes
\* min(source Length, destination MaximumLength) bytes through Buffer.
CopyStr(s) ==
  [Length |-> s.Length, MaximumLength |-> s.MaximumLength,
   alloc |-> VecHeaderBytes,
   written |-> Min2(s.Length, s.MaximumLength),
   buf |-> AsSlice(s)]

\* RtlIntegerToChar's digit count (the kernel converts into a local buffer
\* first). TLC's integers are 32 bits wide: wider u64 values are given by
\* their digit count.
RECURSIVE DigitCount(_, _)
DigitCount(v, base) == IF v < base THEN 1 ELSE 1 + DigitCount(v \div base, base)

\* try_from_u32 / try_from_u64: Length = MaximumLength = max, a pool block of
\* max bytes, then RtlIntegerToUnicodeString / RtlInt64ToUnicodeString,
\* which convert through RtlAnsiStringToUnicodeString: the result needs
\* 2 * digits bytes plus a NUL; it is refused when 2 * digits >= max,
\* otherwise the digits and the NUL are written.
\* The conversion is given the digit count d of the value.
IntegerToUnicode(d, max) ==
  LET ok == 2 * d < max
  IN [ok |-> ok,
      str |-> [Length |-> IF ok THEN 2 * d ELSE max, MaximumLength |-> max,
               alloc |-> max, written |-> IF ok THEN 2 * d + 2 ELSE 0,
               buf |-> << >>]]

-----------------------------------------------------------------------------
(* Comparison.                                                             *)

LowerOf(c) == IF c = "A" THEN "a" ELSE c
Lowercase(seq) == [i \in DOMAIN seq |-> LowerOf(seq[i])]

\* str::contains on the Strings: some window of the haystack is the needle.
StrIncludes(hay, needle) ==
  \E i \in 0..(Len(hay) - Len(needle)) :
    SubSeq(hay, i + 1, i + Len(needle)) = needle

\* Mutant: the length shortcut also rejects a needle as long as the haystack.
StrContainsStrict(hay, needle, ci) ==
  IF hay.Length <= needle.Length THEN FALSE
  ELSE IF ci THEN StrIncludes(Lowercase(ToString(hay)), Lowercase(ToString(needle)))
             ELSE StrIncludes(ToString(hay), ToString(needle))

\* contains(needle, case_insensitive): false when the haystack has fewer
\* bytes than the needle; else compare the (lower-cased) Strings.
StrContains(hay, needle, ci) ==
  IF hay.Length < needle.Length THEN FALSE
  ELSE IF ci THEN StrIncludes(Lowercase(ToString(hay)), Lowercase(ToString(needle)))
             ELSE StrIncludes(ToString(hay), ToString(needle))

\* Reference: the needle's text occurs in the haystack's text, by
\* recursion on the haystack.
RECURSIVE Occurs(_, _)
Occurs(hay, needle) ==
  \/ Len(needle) <= Len(hay) /\ SubSeq(hay, 1, Len(needle)) = needle
  \/ hay # << >> /\ Occurs(Tail(hay), needle)

=============================================================================
