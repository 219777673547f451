---------------------------- MODULE DecimalToken ----------------------------
(***************************************************************************)
(* parse_decimal_token: the value of a JSON number, computed without the   *)
(* locale.  Only the first significant digits are stored; the power of ten *)
(* has to make up for those ignored and for those of the fraction.         *)
(*                                                                         *)
(* parse_number has checked the form of the token, so that what is scanned *)
(* are digits, at most one point and an exponent.  The sign is left out.   *)
(***************************************************************************)
EXTENDS Integers

CONSTANTS Digit,           \* the digits that a number may have, 0 among them
          StoredDigits,    \* kStoredDigits
          MaxDigits,       \* the limit of fraction, significand and written exponent
          MaxExponent,     \* the limit of the power of ten
          Exponents,       \* the exponents that may be written
          MaxLength        \* bound: digits in a number

ASSUME DigitAssumption == /\ 0 \in Digit /\ Digit \subseteq 0..9
                          /\ StoredDigits \in Nat \ {0} /\ MaxLength \in Nat
                          /\ Exponents \subseteq Int

VARIABLES part,         \* the part of the token that is scanned, or the outcome
          mantissa,
          stored,       \* stored_digits
          significant,  \* significant_digits
          fraction,     \* fraction_digits
          power,        \* decimal_exponent, once it is known
          written       \* the digits and the exponent written; not of the code

decimalVars == <<part, mantissa, stored, significant, fraction, power, written>>

-----------------------------------------------------------------------------
DecimalInit == /\ part = "integer"
               /\ mantissa = 0
               /\ stored = 0
               /\ significant = 0
               /\ fraction = 0
               /\ power = 0
               /\ written = [value |-> 0, digits |-> 0, exponent |-> 0]

\* Zeros before the first other digit do not count.
StoreDigit(digit) ==
    IF significant = 0 /\ digit = 0 THEN UNCHANGED <<mantissa, stored, significant>>
    ELSE /\ significant' = significant + 1
         /\ IF stored < StoredDigits
            THEN mantissa' = mantissa * 10 + digit /\ stored' = stored + 1
            ELSE UNCHANGED <<mantissa, stored>>

ScanDigit(digit) ==
    /\ part \in {"integer", "fraction"}
    /\ written.digits < MaxLength
    /\ StoreDigit(digit)
    /\ fraction' = IF part = "fraction" THEN fraction + 1 ELSE fraction
    /\ written' = [written EXCEPT !.value = @ * 10 + digit, !.digits = @ + 1]
    /\ UNCHANGED <<part, power>>

ScanPoint == /\ part = "integer"
             /\ written.digits > 0
             /\ part' = "fraction"
             /\ UNCHANGED <<mantissa, stored, significant, fraction, power, written>>

\* Variant: the digits ignored are taken for digits of the fraction.
PowerOf(exponent) == exponent - fraction

DecimalExponent(exponent) == exponent - fraction + (significant - stored)

\* Too long to be worth a look, whatever the digits are.
TooLong(exponent) == fraction > MaxDigits \/ exponent \notin -MaxDigits..MaxDigits

\* The token ends, after an exponent or without one.  Whether the product can be
\* held by a double is not modelled: it may be refused all the same.
Scale(exponent) ==
    /\ part \in {"integer", "fraction"}
    /\ written.digits > 0
    /\ written' = [written EXCEPT !.exponent = exponent]
    /\ power' = DecimalExponent(exponent)
    /\ \/ /\ significant = 0
          /\ ~TooLong(exponent)
          /\ part' = "zero"
       \/ /\ significant \in 1..MaxDigits
          /\ ~TooLong(exponent)
          /\ power' \in -MaxExponent..MaxExponent
          /\ part' = "value"
       \/ /\ significant > 0 \/ TooLong(exponent)
          /\ part' = "refused"
    /\ UNCHANGED <<mantissa, stored, significant, fraction>>

DecimalNext == \/ \E digit \in Digit : ScanDigit(digit)
               \/ ScanPoint
               \/ \E exponent \in Exponents : Scale(exponent)

DecimalSpec == DecimalInit /\ [][DecimalNext]_decimalVars

-----------------------------------------------------------------------------
DecimalTypeOK == /\ part \in {"integer", "fraction", "value", "zero", "refused"}
                 /\ stored \in 0..StoredDigits
                 /\ significant \in stored..MaxLength
                 /\ fraction \in 0..MaxLength

\* The powers of ten.
Tens[n \in Nat] == IF n = 0 THEN 1 ELSE 10 * Tens[n - 1]

(* The integer the digits are gathered in never needs more than the digits it *)
(* is made for: with 19 of them 64 bits are enough.                           *)
MantissaFits == mantissa < Tens[StoredDigits]

(* The mantissa times its power of ten is the number written, cut off after  *)
(* the digits stored: however zeros, the point, the digits beyond the stored *)
(* ones and the exponent come together.                                      *)
ValueIsWritten ==
    /\ part = "zero" => written.value = 0
    /\ part = "value" =>
          LET ignored == power - (written.exponent - fraction)
          IN  /\ ignored >= 0
              /\ mantissa * Tens[ignored] <= written.value
              /\ written.value < (mantissa + 1) * Tens[ignored]
              /\ ignored > 0 => mantissa >= Tens[StoredDigits - 1]

(* A number that is returned is the one written, without an overflow on the  *)
(* way to it.                                                                *)
NumberIsExact == DecimalTypeOK /\ MantissaFits /\ ValueIsWritten
=============================================================================
