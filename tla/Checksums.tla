------------------------------ MODULE Checksums ------------------------------
(***************************************************************************)
(* guardrails/patterns.py, the validators that confirm a regex hit before  *)
(* it is reported: Luhn for cards, mod-97 for IBAN, Verhoeff for Aadhaar,  *)
(* and the structure of a US social security number. A value is the        *)
(* sequence of its digits, its separators already stripped; a letter of an *)
(* IBAN is its number in base 36.                                          *)
(***************************************************************************)
EXTENDS Integers, Sequences

Digit == 0 .. 9

\* luhn_valid: every second digit from the right is doubled, and its digits are added.
Doubled(d) == IF 2 * d > 9 THEN 2 * d - 9 ELSE 2 * d

LuhnSum(digits) ==
    LET n == Len(digits)
        sum[i \in 0 .. n] ==
          IF i = 0 THEN 0
          ELSE sum[i - 1]
               + (IF (i - 1) % 2 = n % 2 THEN Doubled(digits[i]) ELSE digits[i])
    IN  sum[n]

LuhnValid(digits) == Len(digits) \in 12 .. 19 /\ LuhnSum(digits) % 10 = 0

\* The tables of the Verhoeff checksum: the multiplication of the dihedral group of ten
\* elements, and the powers of a permutation of the digits, one row per position.
VerhoeffD == <<
    <<0, 1, 2, 3, 4, 5, 6, 7, 8, 9>>, <<1, 2, 3, 4, 0, 6, 7, 8, 9, 5>>,
    <<2, 3, 4, 0, 1, 7, 8, 9, 5, 6>>, <<3, 4, 0, 1, 2, 8, 9, 5, 6, 7>>,
    <<4, 0, 1, 2, 3, 9, 5, 6, 7, 8>>, <<5, 9, 8, 7, 6, 0, 4, 3, 2, 1>>,
    <<6, 5, 9, 8, 7, 1, 0, 4, 3, 2>>, <<7, 6, 5, 9, 8, 2, 1, 0, 4, 3>>,
    <<8, 7, 6, 5, 9, 3, 2, 1, 0, 4>>, <<9, 8, 7, 6, 5, 4, 3, 2, 1, 0>> >>

VerhoeffP == <<
    <<0, 1, 2, 3, 4, 5, 6, 7, 8, 9>>, <<1, 5, 7, 6, 2, 8, 3, 0, 9, 4>>,
    <<5, 8, 0, 3, 7, 9, 6, 1, 4, 2>>, <<8, 9, 1, 6, 0, 4, 3, 5, 2, 7>>,
    <<9, 4, 5, 3, 1, 2, 6, 8, 7, 0>>, <<4, 2, 8, 6, 5, 7, 3, 9, 0, 1>>,
    <<2, 7, 9, 3, 8, 0, 6, 4, 1, 5>>, <<7, 0, 4, 6, 9, 1, 3, 2, 5, 8>> >>

\* Mutant of Permuted: two neighbours share a row of the permutation.
SameRow(i, d) == VerhoeffP[((i \div 2) % 8) + 1][d + 1]

\* The digit d, i places from the right, permuted.
Permuted(i, d) == VerhoeffP[(i % 8) + 1][d + 1]

\* aadhaar_valid, from the last digit to the first.
VerhoeffSum(digits) ==
    LET n == Len(digits)
        sum[i \in 0 .. n] ==
          IF i = 0 THEN 0
          ELSE VerhoeffD[sum[i - 1] + 1][Permuted(i - 1, digits[n + 1 - i]) + 1]
    IN  sum[n]

AadhaarValid(digits) ==
    Len(digits) = 12 /\ digits[1] \notin {0, 1} /\ VerhoeffSum(digits) = 0

\* iban_valid: the country and its check digits go to the end, letters become two digits.
Rearranged(value) == SubSeq(value, 5, Len(value)) \o SubSeq(value, 1, 4)

Mod97(value) ==
    LET rem[i \in 0 .. Len(value)] ==
          IF i = 0 THEN 0
          ELSE (rem[i - 1] * (IF value[i] > 9 THEN 100 ELSE 10) + value[i]) % 97
    IN  rem[Len(value)]

IbanValid(value) == Len(value) \in 15 .. 34 /\ Mod97(Rearranged(value)) = 1

-------------------------------------------------------------------------------
(* What the checksums are for.                                             *)

Put(value, i, d) == [value EXCEPT ![i] = d]
Swap(value, i) == [value EXCEPT ![i] = value[i + 1], ![i + 1] = value[i]]
==============================================================================
