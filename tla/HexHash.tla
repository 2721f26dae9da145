-------------------------------- MODULE HexHash --------------------------------
(***************************************************************************)
(* detail::hex_str_to_uint32_t and uint32_t_to_hex_str: a hash as a text   *)
(* of HexLength characters (8 in the code, for 32 bits) and as a number.   *)
(* The decoder leaves the digits to std::stoull in base 16, which skips    *)
(* white space, takes a sign and the prefix 0x, stops in front of the      *)
(* first character that is no digit, and counts modulo the range of        *)
(* unsigned long long, here twice as many digits.                          *)
(*                                                                         *)
(* A text is a sequence of characters.  A conversion that may throw is the *)
(* set of its results: {} if it throws.                                    *)
(***************************************************************************)
EXTENDS Integers, Sequences
SeqExt == INSTANCE SequencesExt
FinSetExt == INSTANCE FiniteSetsExt

CONSTANT HexLength

ASSUME HexLengthAssumption == HexLength \in Nat \ {0}

\* What a digit with n digits behind it counts for: 16 to the power of n.
PlaceValue[n \in 0 .. 2 * HexLength] == IF n = 0 THEN 1 ELSE 16 * PlaceValue[n - 1]

UintMax == PlaceValue[HexLength] - 1
ULLongRange == PlaceValue[2 * HexLength]

LowerDigits == <<"0", "1", "2", "3", "4", "5", "6", "7", "8", "9", "a", "b", "c", "d", "e", "f">>
UpperDigits == <<"0", "1", "2", "3", "4", "5", "6", "7", "8", "9", "A", "B", "C", "D", "E", "F">>
HexDigits == SeqExt!ToSet(LowerDigits) \cup SeqExt!ToSet(UpperDigits)
DigitValue(c) == CHOOSE v \in 0 .. 15 : c \in {LowerDigits[v + 1], UpperDigits[v + 1]}

\* value[n] is the value of the first n digits.
Positional(s) ==
    LET value[n \in 0 .. Len(s)] == IF n = 0 THEN 0 ELSE 16 * value[n - 1] + DigitValue(s[n])
    IN  value[Len(s)]

-----------------------------------------------------------------------------
(* std::stoull.                                                            *)

\* What isspace takes for white space, the vertical tab apart, which TLA+ cannot write.
Blanks == {" ", "\t", "\n", "\f", "\r"}

\* How many of the first characters are in chars.
Leading(s, chars) == FinSetExt!Max({n \in 0 .. Len(s) : \A i \in 1 .. n : s[i] \in chars})
Without(s, n) == SubSeq(s, n + 1, Len(s))

Trimmed(s) == Without(s, Leading(s, Blanks))
IsSigned(s) == s # <<>> /\ s[1] \in {"+", "-"}
Unsigned(s) == IF IsSigned(s) THEN Tail(s) ELSE s
IsPrefixed(s) == Len(s) > 2 /\ s[1] = "0" /\ s[2] \in {"x", "X"} /\ s[3] \in HexDigits
Unprefixed(s) == IF IsPrefixed(s) THEN Without(s, 2) ELSE s
DigitsOf(s) == LET t == Unprefixed(Unsigned(Trimmed(s))) IN SubSeq(t, 1, Leading(t, HexDigits))

\* A minus sign negates an unsigned number; without a digit stoull throws.
Negated(s) == IsSigned(Trimmed(s)) /\ Trimmed(s)[1] = "-"
StoULL(s) ==
    {IF Negated(s) THEN (ULLongRange - Positional(digits)) % ULLongRange ELSE Positional(digits) :
        digits \in {DigitsOf(s)} \ {<<>>}}

-----------------------------------------------------------------------------
\* Mutant of HexStrToUint: keeps the low bits instead of refusing the number.
HexStrToUintTruncated(s) == {v % (UintMax + 1) : v \in {w \in StoULL(s) : Len(s) = HexLength}}

\* Mutant of HexStrToUint: the range of the number is not checked.
HexStrToUintUnchecked(s) == {v \in StoULL(s) : Len(s) = HexLength}

HexStrToUint(s) == {v \in StoULL(s) : Len(s) = HexLength /\ v \in 0 .. UintMax}

UintToHexStr(v) ==
    [i \in 1 .. HexLength |-> LowerDigits[((v \div PlaceValue[HexLength - i]) % 16) + 1]]
=============================================================================
