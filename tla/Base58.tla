------------------------------- MODULE Base58 -------------------------------
(***************************************************************************)
(* The two conversions of addresses of src/programid.rs.  A character of   *)
(* the alphabet is its position in it, any other character is `Radix`;     *)
(* the code's values are Radix = 58, Byte = 256, Width = 32, MaxLength =   *)
(* 44.  Numbers are written with the most significant digit first.         *)
(***************************************************************************)
EXTENDS Naturals, Sequences, SequencesExt

CONSTANTS
  Radix,       \* characters in the alphabet
  Byte,        \* values of a byte
  Width,       \* bytes in an address
  MaxLength    \* characters in the longest text that is looked at

ASSUME RadixAssumption == Radix \in 2 .. Byte /\ Byte \in Nat /\ Width \in Nat \ {0} /\ MaxLength \in Nat

\* The digits of n, no zeros in front.
Digits(n, base) ==
  LET Write[m \in 0 .. n] == IF m = 0 THEN <<>> ELSE Append(Write[m \div base], m % base)
  IN  Write[n]

\* What is carried out of the last digits times factor plus addend, of each number of them.
Carries(digits, base, factor, addend) ==
  LET Carry[i \in 0 .. Len(digits)] ==
        IF i = 0 THEN addend ELSE (digits[Len(digits) - i + 1] * factor + Carry[i - 1]) \div base
  IN  Carry

\* The digits that stay in place.
InPlace(digits, base, factor, addend) ==
  [j \in DOMAIN digits |->
     (digits[j] * factor + Carries(digits, base, factor, addend)[Len(digits) - j]) % base]

\* Mutant of TimesPlus: the carry out of the first digit is dropped.
TimesPlusInPlace(digits, base, factor, addend) ==
  IF digits = <<>> THEN Digits(addend, base) ELSE InPlace(digits, base, factor, addend)

(***************************************************************************)
(* The inner loop of both conversions: digits * factor + addend, digit by  *)
(* digit from the last with a carry; what is carried out of the first      *)
(* digit becomes digits in front.                                          *)
(***************************************************************************)
TimesPlus(digits, base, factor, addend) ==
  Digits(Carries(digits, base, factor, addend)[Len(digits)], base) \o InPlace(digits, base, factor, addend)

LeadingZeros(digits) == Min({j \in 0 .. Len(digits) : j = Len(digits) \/ digits[j + 1] # 0})

Zeros(n) == [i \in 1 .. n |-> 0]

\* The outer loop: what the first digits are in the other base, of each number of them.
Conversions(digits, from, to) ==
  LET Loop[n \in 0 .. Len(digits)] == IF n = 0 THEN <<>> ELSE TimesPlus(Loop[n - 1], to, from, digits[n])
  IN  Loop

Converted(digits, from, to) ==
  Zeros(LeadingZeros(digits)) \o Conversions(digits, from, to)[Len(digits)]

\* decode_base58: <<>> stands for None, no text decodes to no bytes.
DecodeBase58(text) ==
  IF text = <<>> \/ Len(text) > MaxLength \/ Radix \in Range(text) THEN <<>> ELSE Converted(text, Radix, Byte)

\* encode_base58
EncodeBase58(bytes) == Converted(bytes, Byte, Radix)

\* is_address
IsAddress(text) == Len(DecodeBase58(text)) = Width

----------------------------------------------------------------------------
\* The reference: the numbers that the first digits write, of each number of them.
Numbers(digits, base) ==
  LET Sum[i \in 0 .. Len(digits)] == IF i = 0 THEN 0 ELSE Sum[i - 1] * base + digits[i]
  IN  Sum

\* The number that digits write.
Value(digits, base) == Numbers(digits, base)[Len(digits)]

\* The longest text of an address is looked at, whichever of its bytes are zeros in front.
ASSUME LengthAssumption ==
  \A n \in 0 .. Width : Width - n + Len(Digits(Value([i \in 1 .. n |-> Byte - 1], Byte), Radix)) <= MaxLength

Addresses == [1 .. Width -> 0 .. Byte - 1]

\* The text of an address: the same number, a zero for each zero byte in front.
Spells(text, bytes) ==
  /\ Radix \notin Range(text)
  /\ Value(text, Radix) = Value(bytes, Byte)
  /\ LeadingZeros(text) = LeadingZeros(bytes)
============================================================================
