----------------------------- MODULE SnprintfFmt ------------------------------
(***************************************************************************)
(* The conversions of the replacement snprintf() (lib/snprintf.c): what    *)
(* fmtstr(), fmtint() and fmtflt() print.  A character is a string of      *)
(* length one; flags is a set that has the flag characters and the         *)
(* PRINT_F_ flags UP, UNSIGNED, TYPE_E and TYPE_G.                          *)
(*                                                                         *)
(* A floating-point number is an exact decimal n / 10^k, [neg, n, k], so   *)
(* that rounding is that of the algorithm alone, or [neg, infnan].         *)
(***************************************************************************)
EXTENDS Integers, Sequences

CONSTANTS
  NULL,           \* the null pointer
  UINTMAX_MAX,    \* the largest value of UINTMAX_T
  MAX_PRECISION,  \* the digits of UINTMAX_MAX minus one: 9, 19 or 38
  thousands_sep,  \* of localeconv(), a sequence of characters
  decimal_point

ASSUME SnprintfFmtAssumption ==
  /\ UINTMAX_MAX \in Nat /\ MAX_PRECISION \in Nat
  /\ thousands_sep \in Seq(STRING)

MAX_CONVERT_LENGTH == 43

(* Op(x), for which TLC evaluates x once *)
With(x, Op(_)) == CHOOSE y \in {Op(v) : v \in {x}} : TRUE

Rep(ch, n) == [i \in 1 .. n |-> ch]
AtLeast0(n) == IF n < 0 THEN 0 ELSE n
MAX(x, y) == IF x >= y THEN x ELSE y

DigitChars == <<"0", "1", "2", "3", "4", "5", "6", "7", "8", "9",
                "a", "b", "c", "d", "e", "f">>
CapsChars == <<"0", "1", "2", "3", "4", "5", "6", "7", "8", "9",
               "A", "B", "C", "D", "E", "F">>

(* convert(), with the digits the other way round, most significant first; *)
(* the buffer has room for the lowest size digits                          *)
convert(value, size, base, caps) ==
  LET chars == IF caps THEN CapsChars ELSE DigitChars
      pos == CHOOSE k \in 1 .. size : /\ \A j \in 1 .. k - 1 : base ^ j <= value
                                      /\ k = size \/ value < base ^ k
  IN  [i \in 1 .. pos |-> chars[((value \div (base ^ (pos - i))) % base) + 1]]

mypow10(exponent) == 10 ^ exponent

getnumsep(digits) ==
  ((digits - (IF digits % 3 = 0 THEN 1 ELSE 0)) \div 3) * Len(thousands_sep)

(* The digits, with printsep() before every third one from the end *)
Grouped(digits, separators) ==
  LET text[i \in 0 .. Len(digits)] ==
        LET pos == Len(digits) - i
        IN  IF i = 0 THEN << >>
            ELSE text[i - 1] \o <<digits[i]>>
                 \o (IF separators > 0 /\ pos > 0 /\ pos % 3 = 0 THEN thousands_sep ELSE << >>)
  IN  text[Len(digits)]

Sign(neg, flags) ==
  IF neg THEN <<"-">>
  ELSE IF "+" \in flags THEN <<"+">>
  ELSE IF " " \in flags THEN <<" ">>
  ELSE << >>

-----------------------------------------------------------------------------
(* fmtstr(): a null pointer is "(null)"; the precision bounds what is read *)
fmtstr(value, width, precision, flags) ==
  LET string == IF value = NULL THEN <<"(", "n", "u", "l", "l", ")">> ELSE value
      strln == IF precision = -1 \/ Len(string) < precision THEN Len(string) ELSE precision
      pad == Rep(" ", AtLeast0(width - strln))
      text == SubSeq(string, 1, strln)
  IN  IF "-" \in flags THEN text \o pad ELSE pad \o text

(* fmtint().  The negation of the least INTMAX_T, which C leaves           *)
(* undefined, wraps to itself, and is right once it is in uvalue.          *)
fmtint(value, base, width, precision, flags) ==
  LET uvalue == IF "UNSIGNED" \notin flags /\ value < 0 THEN -value ELSE value
      sign == IF "UNSIGNED" \in flags THEN << >> ELSE Sign(value < 0, flags)
      digits == convert(uvalue, MAX_CONVERT_LENGTH, base, "UP" \in flags)
      pos == Len(digits)
      alternative == "#" \in flags /\ uvalue # 0
      prec == IF alternative /\ base = 8 /\ precision <= pos THEN pos + 1 ELSE precision
      prefix == IF alternative /\ base = 16
                THEN <<"0", IF "UP" \in flags THEN "X" ELSE "x">> ELSE << >>
      separators == IF "'" \in flags THEN getnumsep(pos) ELSE 0
      spadlen == AtLeast0(width - separators - MAX(prec, pos) - Len(sign) - Len(prefix))
      zeros == "-" \notin flags /\ "0" \in flags /\ precision = -1
      zpadlen == AtLeast0(prec - pos - separators) + (IF zeros THEN spadlen ELSE 0)
      text == sign \o prefix \o Rep("0", zpadlen) \o Grouped(digits, separators)
  IN  IF "-" \in flags THEN text \o Rep(" ", spadlen)
      ELSE IF zeros THEN text
      ELSE Rep(" ", spadlen) \o text

-----------------------------------------------------------------------------
(* fmtflt().  n / 10^d, with d of either sign, as a fraction *)
Num(n, d) == IF d < 0 THEN n * mypow10(-d) ELSE n
Den(d) == IF d > 0 THEN mypow10(d) ELSE 1

(* getexponent() of n / 10^k: the place of the first digit.  (The loops    *)
(* stop at 99, beyond the numbers here.)                                   *)
getexponent(f) ==
  IF f.n = 0 THEN 0 ELSE Len(convert(f.n, MAX_CONVERT_LENGTH, 10, FALSE)) - 1 - f.k

(* cast() of a fraction, and myround() *)
cast(num, den) == IF num \div den >= UINTMAX_MAX THEN UINTMAX_MAX ELSE num \div den
myround(num, den) == cast(num, den) + (IF 2 * (num % den) < den THEN 0 ELSE 1)

(* The value split at the decimal point, in e-style after division by the  *)
(* power of ten                                                            *)
Split(f, precision, exponent, estyle) ==
  LET d == IF estyle THEN f.k + exponent ELSE f.k
      num == Num(f.n, d)
      den == Den(d)
      intpart == cast(num, den)
      mask == mypow10(precision)
      rounded == myround(mask * (num % den), den)
      whole == IF rounded >= mask THEN intpart + 1 ELSE intpart
      ten == estyle /\ rounded >= mask /\ whole = 10
  IN  [overflow |-> intpart = UINTMAX_MAX,
       intpart |-> IF ten THEN 1 ELSE whole,
       fracpart |-> IF rounded >= mask THEN 0 ELSE rounded,
       exponent |-> IF ten THEN exponent + 1 ELSE exponent,
       precision |-> precision,
       estyle |-> estyle]

Capped(precision) == IF precision > MAX_PRECISION THEN MAX_PRECISION ELSE precision

(* Variant: the decision for "%g" with the exponent before rounding *)
Restyled_unrounded(f, first, flags) ==
  LET exponent == getexponent(f)
  IN  IF "TYPE_G" \in flags /\ first.precision + 1 > exponent /\ exponent >= -4
      THEN Split(f, Capped(first.precision - exponent), exponent, FALSE)
      ELSE first

(* For "%g", e-style or not, with the exponent after rounding *)
Restyled(f, first, flags) ==
  IF "TYPE_G" \in flags /\ first.precision + 1 > first.exponent /\ first.exponent >= -4
  THEN Split(f, Capped(first.precision - first.exponent), first.exponent, FALSE)
  ELSE first

(* Up to and after "again" *)
Style(f, precision, flags) ==
  LET typeG == "TYPE_G" \in flags
      estyle == typeG \/ "TYPE_E" \in flags
      exponent == IF estyle THEN getexponent(f) ELSE 0
  IN  With(Split(f, Capped(IF typeG THEN precision - 1 ELSE precision), exponent, estyle),
           LAMBDA first : Restyled(f, first, flags))

(* The exponent: at least two digits *)
Exponent(s, flags) ==
  LET e == IF s.exponent < 0 THEN -s.exponent ELSE s.exponent
      digits == convert(e, 2, 10, FALSE)
  IN  IF ~s.estyle THEN << >>
      ELSE <<IF "UP" \in flags THEN "E" ELSE "e", IF s.exponent < 0 THEN "-" ELSE "+">>
           \o Rep("0", 2 - Len(digits)) \o digits

(* The fractional digits, without trailing zeros for "%g" *)
WithoutZeros(text) ==
  LET kept == {i \in DOMAIN text : \E j \in i .. Len(text) : text[j] # "0"}
  IN  [i \in kept |-> text[i]]

Fraction(s, flags) ==
  LET digits == IF s.fracpart = 0 THEN << >>
                ELSE convert(s.fracpart, MAX_CONVERT_LENGTH, 10, FALSE)
      text == Rep("0", s.precision - Len(digits)) \o digits
  IN  IF "TYPE_G" \in flags /\ "#" \notin flags THEN With(text, WithoutZeros) ELSE text

(* The number without its sign *)
Number(s, flags) ==
  LET int == convert(s.intpart, MAX_CONVERT_LENGTH, 10, FALSE)
      separators == IF "'" \in flags THEN getnumsep(Len(int)) ELSE 0
      fraction == Fraction(s, flags)
      point == IF fraction # << >> \/ "#" \in flags THEN <<decimal_point>> ELSE << >>
  IN  Grouped(int, separators) \o point \o fraction \o Exponent(s, flags)

(* In its field *)
Padded(sign, number, width, flags) ==
  LET padlen == AtLeast0(width - Len(number) - Len(sign))
  IN  IF "-" \in flags THEN sign \o number \o Rep(" ", padlen)
      ELSE IF "0" \in flags THEN sign \o Rep("0", padlen) \o number
      ELSE Rep(" ", padlen) \o sign \o number

InfNan(f, flags) ==
  IF "UP" \in flags
  THEN IF f.infnan = "inf" THEN <<"I", "N", "F">> ELSE <<"N", "A", "N">>
  ELSE IF f.infnan = "inf" THEN <<"i", "n", "f">> ELSE <<"n", "a", "n">>

(* The text, and whether the value was too large *)
fmtflt(f, width, precision, flags) ==
  LET sign == Sign(f.neg, flags)
  IN  IF "infnan" \in DOMAIN f
      THEN [text |-> fmtstr(sign \o InfNan(f, flags), width, Len(sign) + 3, flags),
            overflow |-> FALSE]
      ELSE With(Style(f, IF precision = -1 THEN 6 ELSE precision, flags),
                LAMBDA s :
                  IF s.overflow THEN [text |-> << >>, overflow |-> TRUE]
                  ELSE [text |-> With(Number(s, flags),
                                      LAMBDA t : Padded(sign, t, width, flags)),
                        overflow |-> FALSE])
=============================================================================
