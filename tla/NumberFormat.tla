---------------------------- MODULE NumberFormat ----------------------------
(***************************************************************************)
(* The number conversions of src/lib/printf.c as operators: each returns   *)
(* the characters the function hands to out, in order.  The case of        *)
(* letters (FLAGS_UPPERCASE) is left out.  A flag is named as in the code. *)
(*                                                                         *)
(* A double is m / 2^e with a mantissa of MANTISSA_BITS; the one operation *)
(* of _ftoa that is not exact, the product, rounds as the processor does.  *)
(* The conversion of %e and %g, _etoa, is not modelled.                    *)
(***************************************************************************)
EXTENDS Integers, Sequences, SequencesExt

CONSTANTS
  PRINTF_NTOA_BUFFER_SIZE,
  PRINTF_FTOA_BUFFER_SIZE,
  PRINTF_DEFAULT_FLOAT_PRECISION,
  FTOA_MAX_PREC,    \* the precision _ftoa computes with, 9 in the code
  MANTISSA_BITS     \* 53 in a double

ASSUME NumberFormatAssumption ==
  /\ PRINTF_NTOA_BUFFER_SIZE \in Nat \ {0}
  /\ PRINTF_FTOA_BUFFER_SIZE \in Nat \ {0}
  /\ MANTISSA_BITS \in Nat \ {0}
  /\ FTOA_MAX_PREC \in Nat /\ 10^FTOA_MAX_PREC <= 2^MANTISSA_BITS
  /\ PRINTF_DEFAULT_FLOAT_PRECISION \in 0 .. FTOA_MAX_PREC

NTOA == PRINTF_NTOA_BUFFER_SIZE
FTOA == PRINTF_FTOA_BUFFER_SIZE

Repeat(c, n) == [i \in 1 .. n |-> c]

\* Characters are appended to buf, which holds max, as long as they fit.
AppendUpTo(buf, s, max) == buf \o SubSeq(s, 1, Min({Len(s), max - Len(buf)}))

ZerosTo(buf, n, max) == AppendUpTo(buf, Repeat("0", n - Len(buf)), max)

DigitChars == <<"0", "1", "2", "3", "4", "5", "6", "7", "8", "9", "a", "b", "c", "d", "e", "f">>

\* Up to the 64 binary digits of an unsigned long long.
NumberOfDigits(n, base) ==
  CHOOSE k \in 1 .. 64 : (base^k > n \/ k = 64) /\ \A j \in 1 .. k - 1 : ~ (base^j > n)

\* The digits of n, the last one first.
Digits(n, base) ==
  [k \in 1 .. NumberOfDigits(n, base) |-> DigitChars[((n \div base^(k - 1)) % base) + 1]]

Sign(negative, flags) ==
  CASE negative -> <<"-">>
    [] ~ negative /\ "PLUS" \in flags -> <<"+">>
    [] ~ negative /\ flags \intersect {"PLUS", "SPACE"} = {"SPACE"} -> <<" ">>
    [] OTHER -> <<>>

-----------------------------------------------------------------------------
\* _out_rev
OutRev(buf, width, flags) ==
  LET pad == Repeat(" ", width - Len(buf))
  IN  CASE "LEFT" \in flags -> Reverse(buf) \o pad
        [] flags \intersect {"LEFT", "ZEROPAD"} = {"ZEROPAD"} -> Reverse(buf)
        [] OTHER -> pad \o Reverse(buf)

\* A field filled with zeros keeps a place for its sign.
WidthForDigits(width, negative, flags) ==
  IF /\ width > 0
     /\ flags \intersect {"LEFT", "ZEROPAD"} = {"ZEROPAD"}
     /\ negative \/ flags \intersect {"PLUS", "SPACE"} # {}
  THEN width - 1 ELSE width

\* The prefix of "#" takes the place of digits at the front if the number is as long
\* as the precision or the width, for these should be padding.
Prefixed(buf, base, prec, width, flags) ==
  LET len  == Len(buf)
      cut  == IF "PRECISION" \in flags \/ len \notin {prec, width} \ {0} THEN 0
              ELSE IF base = 16 /\ len > 1 THEN 2 ELSE 1
      mark == CASE base = 16 -> <<"x">> [] base = 2 -> <<"b">> [] OTHER -> <<>>
  IN  AppendUpTo(AppendUpTo(SubSeq(buf, 1, len - cut), mark, NTOA), <<"0">>, NTOA)

\* _ntoa_format
NtoaFormat(buf, negative, base, prec, width, flags) ==
  LET w      == WidthForDigits(width, negative, flags)
      padded == IF "LEFT" \in flags THEN buf
                ELSE ZerosTo(ZerosTo(buf, prec, NTOA), IF "ZEROPAD" \in flags THEN w ELSE 0, NTOA)
      marked == IF "HASH" \in flags THEN Prefixed(padded, base, prec, w, flags) ELSE padded
  IN  OutRev(AppendUpTo(marked, Sign(negative, flags), NTOA), w, flags)

\* _ntoa_long and _ntoa_long_long, which differ in the type of value.
Ntoa(value, negative, base, prec, width, flags) ==
  LET buf == IF value = 0 /\ "PRECISION" \in flags THEN <<>>
             ELSE AppendUpTo(<<>>, Digits(value, base), NTOA)
  IN  NtoaFormat(buf, negative, base, prec, width, IF value = 0 THEN flags \ {"HASH"} ELSE flags)

-----------------------------------------------------------------------------
\* n with at most MANTISSA_BITS significant bits, to nearest, ties to even.
RoundProduct(n) ==
  LET bits == NumberOfDigits(n, 2)
      unit == 2^(bits - MANTISSA_BITS)
      up   == \/ 2 * (n % unit) > unit
              \/ 2 * (n % unit) = unit /\ (n \div unit) % 2 = 1
  IN  IF bits <= MANTISSA_BITS THEN n
      ELSE unit * ((n \div unit) + IF up THEN 1 ELSE 0)

\* tmp, the fraction times 10^prec, in units of 1 / 2^e.
Tmp(value, prec) == RoundProduct((value.m % 2^value.e) * 10^prec)

\* Variant: a fraction that rounds up to 1 does not carry.
RoundFractionNoCarry(value, prec) ==
  LET tmp   == Tmp(value, prec)
      whole == value.m \div 2^value.e
      frac  == tmp \div 2^value.e
      diff2 == 2 * (tmp % 2^value.e)
  IN  IF diff2 > 2^value.e \/ (diff2 = 2^value.e /\ (frac = 0 \/ frac % 2 = 1))
      THEN <<whole, frac + 1>> ELSE <<whole, frac>>

\* whole and frac, rounded; only the first way to round up knows of the carry.
RoundFraction(value, prec) ==
  LET tmp   == Tmp(value, prec)
      whole == value.m \div 2^value.e
      frac  == tmp \div 2^value.e
      diff2 == 2 * (tmp % 2^value.e)
  IN  CASE diff2 > 2^value.e /\ frac + 1 >= 10^prec -> <<whole + 1, 0>>
        [] diff2 > 2^value.e /\ frac + 1 < 10^prec -> <<whole, frac + 1>>
        [] diff2 = 2^value.e /\ (frac = 0 \/ frac % 2 = 1) -> <<whole, frac + 1>>
        [] OTHER -> <<whole, frac>>

\* whole without a fraction: half-way it goes to the even number.
RoundWhole(value, whole) ==
  IF 2 * (value.m - whole * 2^value.e) >= 2^value.e /\ whole % 2 = 1 THEN whole + 1 ELSE whole

\* The digits of frac behind the point.  count is unsigned: with more digits than
\* prec it wraps, and zeros fill the buffer.
FractionDigits(buf, frac, prec) ==
  LET digits == AppendUpTo(buf, Digits(frac, 10), FTOA)
      zeros  == IF NumberOfDigits(frac, 10) > prec THEN FTOA
                ELSE prec - NumberOfDigits(frac, 10)
  IN  AppendUpTo(AppendUpTo(digits, Repeat("0", zeros), FTOA), <<".">>, FTOA)

\* _ftoa of a number up to PRINTF_MAX_FLOAT; value.m is not negative.
FtoaNumber(value, precision, width, flags) ==
  LET asked == IF "PRECISION" \in flags THEN precision ELSE PRINTF_DEFAULT_FLOAT_PRECISION
      prec  == asked - Min({FTOA, IF asked > FTOA_MAX_PREC THEN asked - FTOA_MAX_PREC ELSE 0})
      tail  == Repeat("0", asked - prec)
      r     == RoundFraction(value, prec)
      whole == IF prec = 0 THEN RoundWhole(value, r[1]) ELSE r[1]
      point == IF prec = 0 THEN tail ELSE FractionDigits(tail, r[2], prec)
      buf   == AppendUpTo(point, Digits(whole, 10), FTOA)
      w     == WidthForDigits(width, value.negative, flags)
      full  == IF flags \intersect {"LEFT", "ZEROPAD"} = {"ZEROPAD"} THEN ZerosTo(buf, w, FTOA) ELSE buf
  IN  OutRev(AppendUpTo(full, Sign(value.negative, flags), FTOA), w, flags)

\* _ftoa; the texts of the special values are reversed, as in the code.
Ftoa(value, precision, width, flags) ==
  CASE value.kind = "nan"     -> OutRev(<<"n", "a", "n">>, width, flags)
    [] value.kind = "inf" /\ value.negative -> OutRev(<<"f", "n", "i", "-">>, width, flags)
    [] value.kind = "inf" /\ ~ value.negative ->
         OutRev(<<"f", "n", "i">> \o (IF "PLUS" \in flags THEN <<"+">> ELSE <<>>), width, flags)
    [] value.kind = "number"  -> FtoaNumber(value, precision, width, flags)
=============================================================================
