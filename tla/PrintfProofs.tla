---------------------------- MODULE PrintfProofs ----------------------------
(***************************************************************************)
(* Proofs about the printf family, for all calls, sizes of the conversion  *)
(* buffers, widths of the types and memories of the caller.                *)
(***************************************************************************)
EXTENDS Printf, SequenceTheorems, FiniteSetTheorems, TLAPS

-----------------------------------------------------------------------------
(* Induction over the naturals, for a set instead of a predicate.  The      *)
(* members of S up to n would map one to one into those above 0.            *)

LEMMA NatSetInduction ==
  ASSUME NEW S, 0 \in S, \A n \in Nat : n \in S => n + 1 \in S
  PROVE  Nat \subseteq S
<1> SUFFICES ASSUME NEW n \in Nat, n \notin S PROVE FALSE
  OBVIOUS
<1> DEFINE A == {k \in 0 .. n : k \in S}
           B == A \ {0}
           next == [k \in A |-> k + 1]
<1>1. IsFiniteSet(A)
  <2>1. IsFiniteSet(0 .. n)
    BY FS_Interval
  <2>2. A \subseteq 0 .. n
    OBVIOUS
  <2> QED
    BY <2>1, <2>2, FS_Subset
<1>2. 0 \in A
  OBVIOUS
<1>3. IsFiniteSet(B) /\ Cardinality(B) = Cardinality(A) - 1 /\ Cardinality(A) \in Nat
  BY <1>1, <1>2, FS_RemoveElement, FS_CardinalityType
<1>4. next \in [A -> B]
  <2>1. ASSUME NEW k \in A PROVE k + 1 \in B
    <3>1. k \in Nat /\ k <= n /\ k # n /\ k + 1 \in S
      OBVIOUS
    <3> QED
      BY <3>1
  <2> QED
    BY <2>1
<1>5. \A j, k \in A : next[j] = next[k] => j = k
  OBVIOUS
<1> HIDE DEF A, B, next
<1>6. \E j, k \in A : j # k /\ next[j] = next[k]
  BY <1>1, <1>3, <1>4, FS_PigeonHole
<1> QED
  BY <1>5, <1>6

\* A set of naturals that is not empty has a least member.
LEMMA LeastMember ==
  ASSUME NEW T, NEW n \in Nat, n \in T
  PROVE  \E k \in 0 .. n : k \in T /\ \A j \in 0 .. k - 1 : j \notin T
<1> SUFFICES ASSUME \A k \in 0 .. n : k \in T => \E j \in 0 .. k - 1 : j \in T
             PROVE  FALSE
  OBVIOUS
<1> DEFINE S == {k \in Nat : k <= n => \A j \in 0 .. k : j \notin T}
<1>1. 0 \in S
  OBVIOUS
<1>2. ASSUME NEW k \in Nat, k \in S
      PROVE  k + 1 \in S
  <2> SUFFICES ASSUME k + 1 <= n, NEW j \in 0 .. k + 1, j \in T PROVE FALSE
    OBVIOUS
  <2>1. \A i \in 0 .. k : i \notin T
    BY <1>2
  <2>2. j = k + 1
    BY <2>1
  <2>3. PICK i \in 0 .. j - 1 : i \in T
    BY <2>2
  <2> QED
    BY <2>1, <2>2, <2>3
<1> HIDE DEF S
<1>3. n \in S
  BY <1>1, <1>2, NatSetInduction
<1> QED
  BY <1>3 DEF S

-----------------------------------------------------------------------------
(* What the conversions return are sequences of characters. *)

IsText(s) == \E S : s \in Seq(S)

LEMMA TextConcat ==
  ASSUME NEW s, NEW t, IsText(s), IsText(t)
  PROVE  /\ IsText(s \o t)
         /\ Len(s) \in Nat /\ Len(t) \in Nat /\ Len(s \o t) = Len(s) + Len(t)
         /\ \A i \in 1 .. Len(s) + Len(t) :
              (s \o t)[i] = IF i <= Len(s) THEN s[i] ELSE t[i - Len(s)]
<1>1. PICK S : s \in Seq(S)
  BY DEF IsText
<1>2. PICK T : t \in Seq(T)
  BY DEF IsText
<1>3. s \in Seq(S \union T) /\ t \in Seq(S \union T)
  BY <1>1, <1>2
<1>4. Len(s) \in Nat /\ Len(t) \in Nat
  BY <1>1, <1>2
<1> QED
  BY <1>3, <1>4, ConcatProperties DEF IsText

LEMMA TextOfFunction ==
  ASSUME NEW n \in Nat, NEW s, s = [k \in 1 .. n |-> s[k]]
  PROVE  IsText(s) /\ Len(s) = n
<1> DEFINE S == {s[k] : k \in 1 .. n}
<1>1. \A k \in 1 .. n : s[k] \in S
  OBVIOUS
<1> HIDE DEF S
<1>2. s \in Seq(S) /\ Len(s) = n
  BY <1>1
<1> QED
  BY <1>2 DEF IsText

LEMMA TextSubSeq ==
  ASSUME NEW s, IsText(s), NEW n \in Int, n <= Len(s)
  PROVE  IsText(SubSeq(s, 1, n))
<1>1. PICK S : s \in Seq(S)
  BY DEF IsText
<1>2. \A i \in 1 .. n : s[i] \in S
  BY <1>1
<1> QED
  BY <1>2, SubSeqProperties DEF IsText

LEMMA TextReverse ==
  ASSUME NEW s, IsText(s)
  PROVE  IsText(Reverse(s))
<1>1. Len(s) \in Nat
  BY DEF IsText
<1>2. Reverse(s) = [i \in 1 .. Len(s) |-> Reverse(s)[i]]
  BY DEF Reverse
<1> QED
  BY <1>1, <1>2, TextOfFunction

LEMMA TextRepeat ==
  ASSUME NEW c, NEW n \in Int
  PROVE  IsText(Repeat(c, n))
<1>1. CASE n >= 0
  <2>1. Repeat(c, n) = [i \in 1 .. n |-> Repeat(c, n)[i]]
    BY DEF Repeat
  <2> QED
    BY <1>1, <2>1, TextOfFunction
<1>2. CASE n < 0
  <2>1. Repeat(c, n) = [i \in 1 .. 0 |-> Repeat(c, n)[i]]
    BY <1>2 DEF Repeat
  <2> QED
    BY <2>1, TextOfFunction
<1> QED
  BY <1>1, <1>2

\* A few characters written out are a text.
LEMMA TextLiteral ==
  /\ IsText(<<>>)
  /\ \A a : IsText(<<a>>)
  /\ \A a, b : IsText(<<a, b>>)
  /\ \A a, b, c : IsText(<<a, b, c>>)
  /\ \A a, b, c, e : IsText(<<a, b, c, e>>)
<1>1. <<>> \in Seq({})
  OBVIOUS
<1>2. ASSUME NEW a PROVE <<a>> \in Seq({a})
  OBVIOUS
<1>3. ASSUME NEW a, NEW b PROVE <<a, b>> \in Seq({a, b})
  OBVIOUS
<1>4. ASSUME NEW a, NEW b, NEW c PROVE <<a, b, c>> \in Seq({a, b, c})
  OBVIOUS
<1>5. ASSUME NEW a, NEW b, NEW c, NEW e PROVE <<a, b, c, e>> \in Seq({a, b, c, e})
  OBVIOUS
<1> QED
  BY <1>1, <1>2, <1>3, <1>4, <1>5 DEF IsText

LEMMA MinOfTwo ==
  ASSUME NEW a \in Int, NEW b \in Int
  PROVE  Min({a, b}) = IF a <= b THEN a ELSE b
<1> DEFINE least == IF a <= b THEN a ELSE b
<1>1. least \in {a, b} /\ \A y \in {a, b} : least <= y
  OBVIOUS
<1>2. \A x \in {a, b} : (\A y \in {a, b} : x <= y) => x = least
  OBVIOUS
<1> HIDE DEF least
<1>3. Min({a, b}) = least
  BY <1>1, <1>2 DEF Min
<1> QED
  BY <1>3 DEF least

LEMMA TextAppendUpTo ==
  ASSUME NEW buf, IsText(buf), NEW s, IsText(s), NEW max \in Int
  PROVE  IsText(AppendUpTo(buf, s, max))
<1>1. Len(s) \in Nat /\ Len(buf) \in Nat
  BY DEF IsText
<1>2. Min({Len(s), max - Len(buf)}) \in Int /\ Min({Len(s), max - Len(buf)}) <= Len(s)
  BY <1>1, MinOfTwo
<1>3. IsText(SubSeq(s, 1, Min({Len(s), max - Len(buf)})))
  BY <1>2, TextSubSeq
<1> QED
  BY <1>3, TextConcat DEF AppendUpTo

LEMMA TextZerosTo ==
  ASSUME NEW buf, IsText(buf), NEW n \in Int, NEW max \in Int
  PROVE  IsText(ZerosTo(buf, n, max))
<1>1. Len(buf) \in Nat
  BY DEF IsText
<1>2. IsText(Repeat("0", n - Len(buf)))
  BY <1>1, TextRepeat
<1> QED
  BY <1>2, TextAppendUpTo DEF ZerosTo

-----------------------------------------------------------------------------
(* The conversions. *)

LEMMA NumberOfDigitsType ==
  ASSUME NEW n, NEW base
  PROVE  NumberOfDigits(n, base) \in 1 .. 64
<1> DEFINE T == {k \in Nat : k >= 1 /\ (base^k > n \/ k = 64)}
<1>1. 64 \in T
  OBVIOUS
<1>2. PICK k \in 0 .. 64 : k \in T /\ \A j \in 0 .. k - 1 : j \notin T
  BY <1>1, LeastMember
<1> QED
  BY <1>2 DEF NumberOfDigits

LEMMA TextDigits ==
  ASSUME NEW n, NEW base
  PROVE  IsText(Digits(n, base))
<1>1. Digits(n, base) = [k \in 1 .. NumberOfDigits(n, base) |-> Digits(n, base)[k]]
  BY DEF Digits
<1>2. NumberOfDigits(n, base) \in Nat
  BY NumberOfDigitsType
<1> QED
  BY <1>1, <1>2, TextOfFunction

LEMMA TextSign ==
  ASSUME NEW negative, NEW fs
  PROVE  IsText(Sign(negative, fs))
<1>1. Sign(negative, fs) \in {<<"-">>, <<"+">>, <<" ">>, <<>>}
  BY DEF Sign
<1> QED
  BY <1>1, TextLiteral

LEMMA TextOutRev ==
  ASSUME NEW buf, IsText(buf), NEW w \in Int, NEW fs
  PROVE  IsText(OutRev(buf, w, fs))
<1> DEFINE pad == Repeat(" ", w - Len(buf))
           rev == Reverse(buf)
<1>1. Len(buf) \in Nat
  BY DEF IsText
<1>2. IsText(pad) /\ IsText(rev)
  <2>1. IsText(rev)
    BY TextReverse
  <2>2. w - Len(buf) \in Int
    BY <1>1
  <2> QED
    BY <2>1, <2>2, TextRepeat
<1>3. IsText(rev \o pad) /\ IsText(pad \o rev)
  BY <1>2, TextConcat
<1>4. OutRev(buf, w, fs) \in {rev \o pad, rev, pad \o rev}
  BY DEF OutRev
<1> QED
  BY <1>2, <1>3, <1>4

LEMMA WidthForDigitsType ==
  ASSUME NEW w \in Nat, NEW negative, NEW fs
  PROVE  WidthForDigits(w, negative, fs) \in Nat
BY DEF WidthForDigits

LEMMA TextPrefixed ==
  ASSUME NEW buf, IsText(buf), NEW base, NEW prec, NEW w, NEW fs
  PROVE  IsText(Prefixed(buf, base, prec, w, fs))
<1> DEFINE cut  == IF "PRECISION" \in fs \/ Len(buf) \notin {prec, w} \ {0} THEN 0
                   ELSE IF base = 16 /\ Len(buf) > 1 THEN 2 ELSE 1
           mark == CASE base = 16 -> <<"x">> [] base = 2 -> <<"b">> [] OTHER -> <<>>
           rest == SubSeq(buf, 1, Len(buf) - cut)
<1>1. Len(buf) \in Nat /\ NTOA \in Int
  BY NumberFormatAssumption DEF IsText, NTOA
<1>2. IsText(mark)
  <2>1. mark \in {<<"x">>, <<"b">>, <<>>}
    OBVIOUS
  <2> QED
    BY <2>1, TextLiteral
<1>3. IsText(rest)
  <2>1. cut \in 0 .. 2
    OBVIOUS
  <2> HIDE DEF cut
  <2> QED
    BY <1>1, <2>1, TextSubSeq
<1>4. Prefixed(buf, base, prec, w, fs) = AppendUpTo(AppendUpTo(rest, mark, NTOA), <<"0">>, NTOA)
  BY DEF Prefixed
<1> HIDE DEF mark, rest
<1>5. IsText(AppendUpTo(rest, mark, NTOA))
  BY <1>1, <1>2, <1>3, TextAppendUpTo
<1>6. IsText(<<"0">>)
  BY TextLiteral
<1> QED
  BY <1>1, <1>4, <1>5, <1>6, TextAppendUpTo

LEMMA TextNtoaFormat ==
  ASSUME NEW buf, IsText(buf), NEW negative, NEW base, NEW prec \in Nat, NEW w \in Nat, NEW fs
  PROVE  IsText(NtoaFormat(buf, negative, base, prec, w, fs))
<1> DEFINE v      == WidthForDigits(w, negative, fs)
           zeros  == IF "ZEROPAD" \in fs THEN v ELSE 0
           padded == IF "LEFT" \in fs THEN buf ELSE ZerosTo(ZerosTo(buf, prec, NTOA), zeros, NTOA)
           marked == IF "HASH" \in fs THEN Prefixed(padded, base, prec, v, fs) ELSE padded
<1>1. NTOA \in Int /\ v \in Nat /\ zeros \in Nat
  BY NumberFormatAssumption, WidthForDigitsType DEF NTOA
<1>2. NtoaFormat(buf, negative, base, prec, w, fs)
      = OutRev(AppendUpTo(marked, Sign(negative, fs), NTOA), v, fs)
  BY DEF NtoaFormat
<1> HIDE DEF v, zeros
<1>3. IsText(ZerosTo(buf, prec, NTOA))
  BY <1>1, TextZerosTo
<1>4. IsText(ZerosTo(ZerosTo(buf, prec, NTOA), zeros, NTOA))
  BY <1>1, <1>3, TextZerosTo
<1>5. IsText(padded)
  BY <1>4
<1> HIDE DEF padded
<1>6. IsText(marked)
  BY <1>5, TextPrefixed
<1> HIDE DEF marked
<1>7. IsText(AppendUpTo(marked, Sign(negative, fs), NTOA))
  BY <1>1, <1>6, TextSign, TextAppendUpTo
<1> QED
  BY <1>1, <1>2, <1>7, TextOutRev

LEMMA TextNtoa ==
  ASSUME NEW value, NEW negative, NEW base, NEW prec \in Nat, NEW w \in Nat, NEW fs
  PROVE  IsText(Ntoa(value, negative, base, prec, w, fs))
<1> DEFINE buf == IF value = 0 /\ "PRECISION" \in fs THEN <<>>
                  ELSE AppendUpTo(<<>>, Digits(value, base), NTOA)
           gs  == IF value = 0 THEN fs \ {"HASH"} ELSE fs
<1>1. NTOA \in Int
  BY NumberFormatAssumption DEF NTOA
<1>2. IsText(buf)
  BY <1>1, TextLiteral, TextDigits, TextAppendUpTo
<1>3. Ntoa(value, negative, base, prec, w, fs) = NtoaFormat(buf, negative, base, prec, w, gs)
  BY DEF Ntoa
<1> HIDE DEF buf, gs
<1> QED
  BY <1>2, <1>3, TextNtoaFormat

LEMMA TextFractionDigits ==
  ASSUME NEW buf, IsText(buf), NEW frac, NEW prec \in Int
  PROVE  IsText(FractionDigits(buf, frac, prec))
<1> DEFINE digits == AppendUpTo(buf, Digits(frac, 10), FTOA)
           zeros  == IF NumberOfDigits(frac, 10) > prec THEN FTOA
                     ELSE prec - NumberOfDigits(frac, 10)
<1>1. FTOA \in Int /\ NumberOfDigits(frac, 10) \in Int
  BY NumberFormatAssumption, NumberOfDigitsType DEF FTOA
<1>2. IsText(digits)
  BY <1>1, TextDigits, TextAppendUpTo
<1>3. IsText(Repeat("0", zeros))
  <2>1. zeros \in Int
    BY <1>1
  <2> HIDE DEF zeros
  <2> QED
    BY <2>1, TextRepeat
<1>4. FractionDigits(buf, frac, prec)
      = AppendUpTo(AppendUpTo(digits, Repeat("0", zeros), FTOA), <<".">>, FTOA)
  BY DEF FractionDigits
<1> HIDE DEF digits, zeros
<1>5. IsText(AppendUpTo(digits, Repeat("0", zeros), FTOA))
  BY <1>1, <1>2, <1>3, TextAppendUpTo
<1>6. IsText(<<".">>)
  BY TextLiteral
<1> QED
  BY <1>1, <1>4, <1>5, <1>6, TextAppendUpTo

LEMMA TextFtoaNumber ==
  ASSUME NEW value, NEW prec \in Nat, NEW w \in Nat, NEW fs
  PROVE  IsText(FtoaNumber(value, prec, w, fs))
<1> DEFINE asked == IF "PRECISION" \in fs THEN prec ELSE PRINTF_DEFAULT_FLOAT_PRECISION
           more  == IF asked > FTOA_MAX_PREC THEN asked - FTOA_MAX_PREC ELSE 0
           used  == asked - Min({FTOA, more})
           tail  == Repeat("0", asked - used)
           r     == RoundFraction(value, used)
           whole == IF used = 0 THEN RoundWhole(value, r[1]) ELSE r[1]
           point == IF used = 0 THEN tail ELSE FractionDigits(tail, r[2], used)
           buf   == AppendUpTo(point, Digits(whole, 10), FTOA)
           v     == WidthForDigits(w, value.negative, fs)
           full  == IF fs \intersect {"LEFT", "ZEROPAD"} = {"ZEROPAD"} THEN ZerosTo(buf, v, FTOA) ELSE buf
<1>1. FTOA \in Int /\ asked \in Int /\ FTOA_MAX_PREC \in Int
  BY NumberFormatAssumption DEF FTOA
<1>2. more \in Int
  BY <1>1
<1>3. FtoaNumber(value, prec, w, fs)
      = OutRev(AppendUpTo(full, Sign(value.negative, fs), FTOA), v, fs)
  BY DEF FtoaNumber
<1>4. v \in Int
  BY WidthForDigitsType
<1> HIDE DEF asked, more, v
<1>5. used \in Int
  <2>1. Min({FTOA, more}) \in Int
    BY <1>1, <1>2, MinOfTwo
  <2> QED
    BY <1>1, <2>1
<1> HIDE DEF used, r
<1>6. IsText(tail)
  BY <1>1, <1>5, TextRepeat
<1> HIDE DEF tail, whole
<1>7. IsText(point)
  BY <1>5, <1>6, TextFractionDigits
<1> HIDE DEF point
<1>8. IsText(buf)
  BY <1>1, <1>7, TextDigits, TextAppendUpTo
<1> HIDE DEF buf
<1>9. IsText(full)
  BY <1>1, <1>4, <1>8, TextZerosTo
<1> HIDE DEF full
<1>10. IsText(AppendUpTo(full, Sign(value.negative, fs), FTOA))
  BY <1>1, <1>9, TextSign, TextAppendUpTo
<1> QED
  BY <1>3, <1>4, <1>10, TextOutRev

LEMMA TextFtoa ==
  ASSUME NEW value, value.kind \in {"nan", "inf", "number"}, value.negative \in BOOLEAN,
         NEW prec \in Nat, NEW w \in Nat, NEW fs
  PROVE  IsText(Ftoa(value, prec, w, fs))
<1>1. CASE value.kind = "nan"
  <2>1. Ftoa(value, prec, w, fs) = OutRev(<<"n", "a", "n">>, w, fs)
    BY <1>1 DEF Ftoa
  <2> QED
    BY <2>1, TextLiteral, TextOutRev
<1>2. CASE value.kind = "inf" /\ value.negative
  <2>1. Ftoa(value, prec, w, fs) = OutRev(<<"f", "n", "i", "-">>, w, fs)
    BY <1>2 DEF Ftoa
  <2> QED
    BY <2>1, TextLiteral, TextOutRev
<1>3. CASE value.kind = "inf" /\ ~ value.negative
  <2> DEFINE sign == IF "PLUS" \in fs THEN <<"+">> ELSE <<>>
  <2>1. Ftoa(value, prec, w, fs) = OutRev(<<"f", "n", "i">> \o sign, w, fs)
    BY <1>3 DEF Ftoa
  <2>2. IsText(sign) /\ IsText(<<"f", "n", "i">>)
    BY TextLiteral
  <2> HIDE DEF sign
  <2>3. IsText(<<"f", "n", "i">> \o sign)
    BY <2>2, TextConcat
  <2> QED
    BY <2>1, <2>3, TextOutRev
<1>4. CASE value.kind = "number"
  <2>1. Ftoa(value, prec, w, fs) = FtoaNumber(value, prec, w, fs)
    BY <1>4 DEF Ftoa
  <2> QED
    BY <2>1, TextFtoaNumber
<1> QED
  BY <1>1, <1>2, <1>3, <1>4

-----------------------------------------------------------------------------
(* Reading a format. *)

LEMMA RunFacts ==
  ASSUME NEW f \in Seq(STRING), NEW p \in Nat \ {0}, NEW S, NUL \notin S
  PROVE  /\ Run(f, p, S) \in 0 .. Len(f)
         /\ CharAt(f, p + Run(f, p, S)) \notin S
         /\ \A k \in 0 .. Run(f, p, S) - 1 : CharAt(f, p + k) \in S
<1> DEFINE T == {k \in Nat : CharAt(f, p + k) \notin S}
           IsRun(n) == /\ CharAt(f, p + n) \notin S
                       /\ \A k \in 0 .. n - 1 : CharAt(f, p + k) \in S
<1>1. Len(f) \in Nat
  OBVIOUS
<1>2. \E n \in 0 .. Len(f) : IsRun(n)
  <2>1. CharAt(f, p + Len(f)) = NUL
    BY <1>1 DEF CharAt
  <2>2. Len(f) \in T
    BY <1>1, <2>1
  <2>3. PICK n \in 0 .. Len(f) : n \in T /\ \A k \in 0 .. n - 1 : k \notin T
    BY <1>1, <2>2, LeastMember
  <2>4. \A k \in 0 .. n - 1 : CharAt(f, p + k) \in S
    BY <1>1, <2>3
  <2> QED
    BY <1>1, <2>3, <2>4
<1> QED
  BY <1>2 DEF Run

LEMMA NulIsNoDigit == NUL \notin DigitSet /\ NUL \notin FlagChars
<1>1. \A k \in 1 .. 10 : DigitChars[k] # "NUL"
  BY DEF DigitChars
<1> QED
  BY <1>1 DEF DigitSet, FlagChars, NUL

LEMMA DigitValueType ==
  ASSUME NEW c \in DigitSet
  PROVE  DigitValue(c) \in 0 .. 9
<1>1. PICK k \in 1 .. 10 : c = DigitChars[k]
  BY DEF DigitSet
<1>2. k - 1 \in 0 .. 9 /\ DigitChars[(k - 1) + 1] = c
  BY <1>1
<1> QED
  BY <1>2 DEF DigitValue

\* g is what _atoi's loop computes after each of n digits.
IsDigitSum(g, f, p, n) ==
  g = [k \in 0 .. n |-> IF k = 0 THEN 0 ELSE 10 * g[k - 1] + DigitValue(CharAt(f, p + k - 1))]

LEMMA DigitSum ==
  ASSUME NEW f, NEW p, NEW n \in Nat
  PROVE  \E g : IsDigitSum(g, f, p, n)
<1> DEFINE v(k) == DigitValue(CharAt(f, p + k - 1))
           IsSum(m, g) == g = [k \in 0 .. m |-> IF k = 0 THEN 0 ELSE 10 * g[k - 1] + v(k)]
           S == {m \in Nat : \E g : IsSum(m, g)}
<1> HIDE DEF v
<1>1. 0 \in S
  <2> DEFINE g == [k \in 0 .. 0 |-> 0]
  <2>1. IsSum(0, g)
    OBVIOUS
  <2> QED
    BY <2>1
<1>2. ASSUME NEW m \in Nat, m \in S
      PROVE  m + 1 \in S
  <2>1. PICK g : IsSum(m, g)
    BY <1>2
  <2> DEFINE h == [k \in 0 .. m + 1 |-> IF k <= m THEN g[k] ELSE 10 * g[m] + v(m + 1)]
  <2>3. h = [k \in 0 .. m + 1 |-> h[k]]
    OBVIOUS
  <2>4. \A k \in 0 .. m : h[k] = g[k]
    OBVIOUS
  <2>5. \A k \in 0 .. m + 1 : h[k] = IF k = 0 THEN 0 ELSE 10 * h[k - 1] + v(k)
    <3> SUFFICES ASSUME NEW k \in 0 .. m + 1
                 PROVE  h[k] = IF k = 0 THEN 0 ELSE 10 * h[k - 1] + v(k)
      OBVIOUS
    <3>1. CASE k <= m
      <4>1. h[k] = IF k = 0 THEN 0 ELSE 10 * g[k - 1] + v(k)
        BY <2>1, <2>4, <3>1
      <4>2. k # 0 => h[k - 1] = g[k - 1]
        BY <2>4, <3>1
      <4> QED
        BY <4>1, <4>2
    <3>2. CASE k = m + 1
      <4>1. h[k] = 10 * g[m] + v(m + 1) /\ h[m] = g[m]
        BY <3>2
      <4> QED
        BY <4>1, <3>2
    <3> QED
      BY <3>1, <3>2
  <2> HIDE DEF h
  <2>6. IsSum(m + 1, h)
    BY <2>3, <2>5
  <2> QED
    BY <2>6
<1> HIDE DEF S
<1>3. n \in S
  BY <1>1, <1>2, NatSetInduction
<1> QED
  BY <1>3 DEF S, v, IsDigitSum

LEMMA AtoiType ==
  ASSUME NEW f \in Seq(STRING), NEW p \in Nat \ {0}
  PROVE  Atoi(f, p) \in Nat
<1> DEFINE n == Run(f, p, DigitSet)
           value == CHOOSE g : IsDigitSum(g, f, p, n)
<1>1. n \in Nat /\ \A k \in 0 .. n - 1 : CharAt(f, p + k) \in DigitSet
  BY RunFacts, NulIsNoDigit
<1>2. Atoi(f, p) = value[n]
  BY DEF Atoi, IsDigitSum
<1> HIDE DEF n
<1>3. \A k \in 1 .. n : DigitValue(CharAt(f, p + k - 1)) \in Nat
  <2> SUFFICES ASSUME NEW k \in 1 .. n PROVE DigitValue(CharAt(f, p + k - 1)) \in Nat
    OBVIOUS
  <2>1. k - 1 \in 0 .. n - 1 /\ p + (k - 1) = p + k - 1
    BY <1>1
  <2>2. CharAt(f, p + k - 1) \in DigitSet
    BY <1>1, <2>1
  <2> QED
    BY <2>2, DigitValueType
<1>4. \E g : IsDigitSum(g, f, p, n)
  BY <1>1, DigitSum
<1>5. IsDigitSum(value, f, p, n)
  BY <1>4
<1> DEFINE S == {k \in Nat : k <= n => value[k] \in Nat}
<1> HIDE DEF value
<1>6. 0 \in S
  BY <1>1, <1>5 DEF IsDigitSum
<1>7. ASSUME NEW k \in Nat, k \in S
      PROVE  k + 1 \in S
  <2> SUFFICES ASSUME k + 1 <= n PROVE value[k + 1] \in Nat
    OBVIOUS
  <2>1. value[k + 1] = 10 * value[k] + DigitValue(CharAt(f, p + (k + 1) - 1))
    BY <1>1, <1>5 DEF IsDigitSum
  <2>2. value[k] \in Nat
    BY <1>1, <1>7
  <2>3. DigitValue(CharAt(f, p + (k + 1) - 1)) \in Nat
    <3>1. k + 1 \in 1 .. n
      BY <1>1
    <3> QED
      BY <1>3, <3>1
  <2> QED
    BY <2>1, <2>2, <2>3
<1> HIDE DEF S
<1>8. n \in S
  BY <1>1, <1>6, <1>7, NatSetInduction
<1> QED
  BY <1>1, <1>2, <1>8 DEF S, value

-----------------------------------------------------------------------------
(* The places of a call's format. *)

LEMMA CallFacts ==
  ASSUME NEW c \in Calls
  PROVE  /\ c.format \in Seq(STRING) /\ Len(c.format) \in Nat /\ Percent(c) \in Nat \ {0}
         /\ {WidthAt(c), PrecisionAt(c), LengthAt(c), SpecifierAt(c)} \subseteq Nat \ {0}
         /\ Percent(c) < WidthAt(c) /\ WidthAt(c) <= PrecisionAt(c)
         /\ PrecisionAt(c) <= LengthAt(c) /\ LengthAt(c) <= SpecifierAt(c)
         /\ SpecifierAt(c) <= Len(c.format)
<1>1. IsCall(c)
  BY CallsAssumption
<1>2. c.format \in Seq(STRING) /\ Len(c.format) \in Nat /\ Percent(c) \in Nat \ {0}
      /\ SpecifierAt(c) <= Len(c.format)
  BY <1>1 DEF IsCall, Percent
<1>3. Run(c.format, Percent(c) + 1, FlagChars) \in Nat
  BY <1>2, RunFacts, NulIsNoDigit
<1>4. WidthAt(c) \in Nat \ {0} /\ Percent(c) < WidthAt(c)
  BY <1>2, <1>3 DEF WidthAt
<1>5. Run(c.format, WidthAt(c), DigitSet) \in Nat
  BY <1>2, <1>4, RunFacts, NulIsNoDigit
<1>6. PrecisionAt(c) \in Nat \ {0} /\ WidthAt(c) <= PrecisionAt(c)
  BY <1>4, <1>5 DEF PrecisionAt
<1>7. Run(c.format, PrecisionAt(c) + 1, DigitSet) \in Nat
  <2> DEFINE q == PrecisionAt(c) + 1
  <2>1. q \in Nat \ {0}
    BY <1>6
  <2> HIDE DEF q
  <2>2. Run(c.format, q, DigitSet) \in Nat
    BY <1>2, <2>1, RunFacts, NulIsNoDigit
  <2> QED
    BY <2>2 DEF q
<1>8. LengthAt(c) \in Nat \ {0} /\ PrecisionAt(c) <= LengthAt(c)
  BY <1>6, <1>7 DEF LengthAt
<1>9. LengthField(c.format, LengthAt(c))[2] \in {0, 1, 2}
  BY DEF LengthField
<1>10. SpecifierAt(c) \in Nat \ {0} /\ LengthAt(c) <= SpecifierAt(c)
  BY <1>8, <1>9 DEF SpecifierAt
<1> QED
  BY <1>2, <1>4, <1>6, <1>8, <1>10

\* Around its directive a format has literal characters only.
LEMMA LiteralsAround ==
  ASSUME NEW c \in Calls, NEW p \in Nat \ {0}
  PROVE  /\ p < Percent(c) => CharAt(c.format, p) \notin {NUL, "%"}
         /\ p = Percent(c) => CharAt(c.format, p) = "%"
         /\ p > SpecifierAt(c) => CharAt(c.format, p) # "%"
         /\ p > SpecifierAt(c) /\ p <= Len(c.format) => CharAt(c.format, p) # NUL
         /\ p > Len(c.format) => CharAt(c.format, p) = NUL
<1>1. IsCall(c)
  BY CallsAssumption
<1>2. /\ CharAt(c.format, Percent(c)) = "%"
      /\ \A q \in DOMAIN c.format :
           q < Percent(c) \/ q > SpecifierAt(c) => c.format[q] \notin {NUL, "%"}
  BY <1>1 DEF IsCall
<1>3. p <= Len(c.format) => p \in DOMAIN c.format
  BY CallFacts
<1>4. p < Percent(c) => p <= Len(c.format)
  BY CallFacts
<1> QED
  BY <1>2, <1>3, <1>4, CallFacts DEF CharAt, NUL

-----------------------------------------------------------------------------
(* The inductive invariant. *)

FlagSet == {"ZEROPAD", "LEFT", "PLUS", "SPACE", "HASH", "PRECISION",
            "LONG", "LONG_LONG", "SHORT", "CHAR"}

\* Where a call is in its format, and what it has taken of its arguments.
Places ==
  LET c == call
      fields == WidthArguments(c) + PrecisionArguments(c)
  IN  /\ stage \in {"format", "width", "precision", "length", "specifier", "done"}
      /\ stage = "format" => \/ pos \in 1 .. Percent(c) /\ va = 0
                             \/ pos \in SpecifierAt(c) + 1 .. Len(c.format) + 1 /\ va = Len(c.ints)
      /\ stage = "width" => pos = WidthAt(c) /\ va = 0
      /\ stage = "precision" => pos = PrecisionAt(c) /\ va = WidthArguments(c)
      /\ stage = "length" => pos = LengthAt(c) /\ va = fields
      /\ stage = "specifier" => pos = SpecifierAt(c) /\ va = fields
      /\ stage = "done" => pos = Len(c.format) + 1 /\ va = Len(c.ints)

Fields == flags \subseteq FlagSet /\ width \in Nat /\ precision \in Nat

Outputs == IsText(text) /\ idx = Len(text) /\ IsText(sent) /\ Len(sent) <= idx

\* Until the terminator is written, the cells the text has reached hold it.
Written ==
  buffer = [i \in 0 .. Cells - 1 |-> IF out = "buffer" /\ i < idx /\ i < maxlen
                                     THEN text[i + 1] ELSE Untouched]

Memory ==
  /\ DOMAIN buffer = 0 .. Cells - 1
  /\ stage # "done" => Written
  /\ BufferHoldsThePrefix

IInv == call \in Calls /\ Places /\ Fields /\ Outputs /\ Memory

LEMMA ArgumentFacts ==
  ASSUME NEW c \in Calls
  PROVE  /\ WidthArguments(c) \in {0, 1} /\ PrecisionArguments(c) \in {0, 1}
         /\ ValueArguments(c) \in {0, 1}
         /\ c.ints \in Seq(Int) /\ Len(c.ints) \in Nat
         /\ Len(c.ints) = WidthArguments(c) + PrecisionArguments(c) + ValueArguments(c)
<1>1. IsCall(c)
  BY CallsAssumption
<1> QED
  BY <1>1 DEF IsCall, WidthArguments, PrecisionArguments, ValueArguments

LEMMA TypesFollow == IInv => TypeOK
<1> SUFFICES ASSUME IInv PROVE TypeOK
  OBVIOUS
<1>1. call \in Calls
  BY DEF IInv
<1>2. /\ stage \in {"format", "width", "precision", "length", "specifier", "done"}
      /\ pos \in 1 .. Len(call.format) + 1
      /\ va \in 0 .. Len(call.ints)
      /\ stage = "done" => va = Len(call.ints)
  <2>1. Places
    BY DEF IInv
  <2>2. /\ Len(call.format) \in Nat /\ Percent(call) \in Nat \ {0}
        /\ {WidthAt(call), PrecisionAt(call), LengthAt(call), SpecifierAt(call)} \subseteq Nat \ {0}
        /\ Percent(call) <= WidthAt(call) /\ WidthAt(call) <= PrecisionAt(call)
        /\ PrecisionAt(call) <= LengthAt(call) /\ LengthAt(call) <= SpecifierAt(call)
        /\ SpecifierAt(call) <= Len(call.format)
    BY <1>1, CallFacts
  <2>3. stage \in {"format", "width", "precision", "length", "specifier", "done"}
    BY <2>1 DEF Places
  <2>4. pos \in 1 .. Len(call.format) + 1
    BY <2>1, <2>2 DEF Places
  <2>5. WidthArguments(call) \in {0, 1} /\ PrecisionArguments(call) \in {0, 1}
        /\ ValueArguments(call) \in {0, 1}
        /\ Len(call.ints) = WidthArguments(call) + PrecisionArguments(call) + ValueArguments(call)
    BY <1>1, ArgumentFacts
  <2>6. va \in 0 .. Len(call.ints) /\ (stage = "done" => va = Len(call.ints))
    BY <2>1, <2>5 DEF Places
  <2> QED
    BY <2>3, <2>4, <2>6
<1>3. flags \subseteq FlagSet /\ width \in Nat /\ precision \in Nat
  BY DEF IInv, Fields
<1>4. idx = Len(text) /\ Len(sent) <= idx /\ DOMAIN buffer = 0 .. Cells - 1
  BY DEF IInv, Outputs, Memory
<1> QED
  BY <1>2, <1>3, <1>4 DEF TypeOK, FlagSet

LEMMA InitEstablishes == Init => IInv
<1> SUFFICES ASSUME Init PROVE IInv
  OBVIOUS
<1>1. call \in Calls
  BY DEF Init
<1>2. Places
  BY <1>1, CallFacts DEF Init, Places
<1>3. Fields
  BY DEF Init, Fields
<1>4. Outputs
  BY TextLiteral DEF Init, Outputs
<1>5. Memory
  BY CallsAssumption DEF Init, Memory, Written, BufferHoldsThePrefix
<1> QED
  BY <1>1, <1>2, <1>3, <1>4, <1>5 DEF IInv

-----------------------------------------------------------------------------
(* What the output functions do. *)

LEMMA WithoutNulIsShorter ==
  ASSUME NEW s, IsText(s)
  PROVE  IsText(WithoutNul(s)) /\ Len(WithoutNul(s)) <= Len(s)
<1> DEFINE kept == {i \in DOMAIN s : s[i] # NUL}
<1>1. Len(s) \in Nat /\ DOMAIN s = 1 .. Len(s)
  BY DEF IsText
<1>2. IsFiniteSet(1 .. Len(s)) /\ Cardinality(1 .. Len(s)) = Len(s)
  <2>1. ASSUME NEW n \in Nat
        PROVE  IsFiniteSet(1 .. n) /\ Cardinality(1 .. n) = n
    BY FS_Interval
  <2> QED
    BY <1>1, <2>1
<1>3. IsFiniteSet(kept) /\ Cardinality(kept) <= Len(s)
  <2>1. kept \in SUBSET (1 .. Len(s))
    BY <1>1
  <2> HIDE DEF kept
  <2> QED
    BY <1>2, <2>1, FS_Subset
<1>4. WithoutNul(s) = [k \in 1 .. Cardinality(kept) |-> WithoutNul(s)[k]]
  BY DEF WithoutNul
<1> HIDE DEF kept
<1>5. Cardinality(kept) \in Nat
  BY <1>3, FS_CardinalityType
<1> QED
  BY <1>3, <1>4, <1>5, TextOfFunction

LEMMA MaxlenType ==
  ASSUME call \in Calls
  PROVE  maxlen \in 0 .. SIZE_MAX /\ SIZE_MAX \in Nat
<1>1. IsCall(call)
  BY CallsAssumption
<1> QED
  BY <1>1, CallsAssumption DEF IsCall, maxlen

LEMMA OutKeepsOutputs ==
  ASSUME Outputs, NEW s, IsText(s), Out(s)
  PROVE  Outputs'
<1>1. IsText(text \o s) /\ Len(text \o s) = idx + Len(s)
  BY TextConcat DEF Outputs
<1>2. IsText(sent \o WithoutNul(s)) /\ Len(sent \o WithoutNul(s)) = Len(sent) + Len(WithoutNul(s))
  BY WithoutNulIsShorter, TextConcat DEF Outputs
<1>3. idx \in Nat /\ Len(s) \in Nat /\ Len(sent) \in Nat /\ Len(WithoutNul(s)) \in Nat
      /\ Len(WithoutNul(s)) <= Len(s)
  BY WithoutNulIsShorter DEF Outputs, IsText
<1>4. IsText(text') /\ idx' = Len(text')
  BY <1>1 DEF Out
<1>5. IsText(sent') /\ Len(sent') <= idx'
  BY <1>2, <1>3 DEF Out, Outputs
<1> QED
  BY <1>4, <1>5 DEF Outputs

LEMMA OutKeepsWritten ==
  ASSUME call \in Calls, Outputs, Written, NEW s, IsText(s), Out(s), call' = call
  PROVE  Written' /\ DOMAIN buffer' = 0 .. Cells - 1
<1>1. idx \in Nat /\ Len(s) \in Nat /\ idx = Len(text) /\ IsText(text)
  BY DEF Outputs, IsText
<1>2. \A i \in 1 .. idx + Len(s) : text'[i] = IF i <= idx THEN text[i] ELSE s[i - idx]
  BY <1>1, TextConcat DEF Out
<1>3. out' = out /\ maxlen' = maxlen /\ idx' = idx + Len(s)
  BY DEF Out, out, maxlen
<1>4. maxlen \in Int /\ Cells \in Nat
  BY MaxlenType, CallsAssumption
<1>5. CASE out = "buffer"
  <2>1. buffer' = OutBuffer(s, idx)
    BY <1>5 DEF Out
  <2>2. DOMAIN buffer = 0 .. Cells - 1
    BY DEF Written
  <2>3. DOMAIN buffer' = 0 .. Cells - 1
    BY <2>1, <2>2 DEF OutBuffer
  <2>4. ASSUME NEW i \in 0 .. Cells - 1
        PROVE  buffer'[i] = IF i < idx + Len(s) /\ i < maxlen THEN text'[i + 1] ELSE Untouched
    <3>1. buffer[i] = IF i < idx /\ i < maxlen THEN text[i + 1] ELSE Untouched
      BY <1>5 DEF Written
    <3>2. buffer'[i] = IF i >= idx /\ i <= idx + Len(s) - 1 /\ i < maxlen
                       THEN s[i - idx + 1] ELSE buffer[i]
      BY <2>1, <2>2, <1>1 DEF OutBuffer
    <3>3. i < idx => text'[i + 1] = text[i + 1]
      BY <1>1, <1>2
    <3>4. i >= idx /\ i < idx + Len(s) => text'[i + 1] = s[i - idx + 1]
      <4>1. i + 1 - idx = i - idx + 1
        BY <1>1
      <4> QED
        BY <1>1, <1>2, <4>1
    <3> QED
      BY <1>1, <1>4, <3>1, <3>2, <3>3, <3>4
  <2>5. buffer' = [i \in 0 .. Cells - 1 |-> buffer'[i]]
    BY <2>1, <2>2 DEF OutBuffer
  <2> QED
    BY <1>3, <1>5, <2>3, <2>4, <2>5 DEF Written
<1>6. CASE out # "buffer"
  <2>1. buffer' = buffer
    BY <1>6 DEF Out
  <2> QED
    BY <1>3, <1>6, <2>1 DEF Written
<1> QED
  BY <1>5, <1>6

\* Where the terminator goes makes the memory what was promised.
LEMMA TerminateKeepsPromise ==
  ASSUME call \in Calls, Outputs, Written, Terminate
  PROVE  BufferHoldsThePrefix' /\ DOMAIN buffer' = 0 .. Cells - 1
<1> DEFINE n == Min({idx, maxlen - 1})
           at == IF idx < maxlen THEN idx ELSE (maxlen - 1) % (SIZE_MAX + 1)
<1>1. idx \in Nat /\ maxlen \in 0 .. SIZE_MAX /\ SIZE_MAX \in Nat
  BY MaxlenType DEF Outputs, IsText
<1>2. n = IF idx <= maxlen - 1 THEN idx ELSE maxlen - 1
  BY <1>1, MinOfTwo
<1>3. maxlen > 0 => at = n
  <2>1. CASE idx < maxlen
    BY <1>1, <1>2, <2>1
  <2>2. CASE maxlen > 0 /\ ~ (idx < maxlen)
    <3>1. maxlen - 1 \in 0 .. SIZE_MAX
      BY <1>1, <2>2
    <3>2. (maxlen - 1) % (SIZE_MAX + 1) = maxlen - 1
      BY <1>1, <3>1
    <3> QED
      BY <1>1, <1>2, <2>2, <3>2
  <2> QED
    BY <2>1, <2>2
<1>4. out' = out /\ maxlen' = maxlen /\ idx' = idx /\ text' = text
  BY DEF Terminate, out, maxlen
<1>5. DOMAIN buffer = 0 .. Cells - 1 /\ Cells \in Nat
  BY CallsAssumption DEF Written
<1>6. buffer' = IF out = "buffer" THEN OutBuffer(<<NUL>>, at) ELSE buffer
  BY DEF Terminate
<1>7. DOMAIN buffer' = 0 .. Cells - 1
  BY <1>5, <1>6 DEF OutBuffer
<1> HIDE DEF n, at
<1>8. ASSUME NEW i \in 0 .. Cells - 1
      PROVE  buffer'[i] = IF out # "buffer" \/ i > n THEN Untouched
                          ELSE IF i = n THEN NUL ELSE text[i + 1]
  <2>1. buffer[i] = IF out = "buffer" /\ i < idx /\ i < maxlen THEN text[i + 1] ELSE Untouched
    BY DEF Written
  <2>2. CASE out # "buffer"
    BY <1>6, <2>1, <2>2
  <2>3. CASE out = "buffer" /\ maxlen = 0
    <3>1. buffer'[i] = buffer[i]
      BY <1>5, <1>6, <2>3 DEF OutBuffer
    <3>2. i > n
      BY <1>1, <1>2, <2>3
    <3> QED
      BY <2>1, <2>3, <3>1, <3>2
  <2>4. CASE out = "buffer" /\ maxlen > 0
    <3>1. at = n /\ n \in Nat /\ n <= maxlen - 1 /\ n <= idx /\ (n = idx \/ n = maxlen - 1)
      BY <1>1, <1>2, <1>3, <2>4
    <3>2. Len(<<NUL>>) = 1 /\ <<NUL>>[1] = NUL
      OBVIOUS
    <3>3. buffer'[i] = IF i \in at .. at + 1 - 1 /\ i < maxlen
                       THEN <<NUL>>[i - at + 1] ELSE buffer[i]
      BY <1>5, <1>6, <2>4, <3>2 DEF OutBuffer
    <3>4. buffer'[i] = IF i = n THEN NUL ELSE buffer[i]
      BY <1>1, <3>1, <3>2, <3>3
    <3> QED
      BY <1>1, <2>1, <2>4, <3>1, <3>4
  <2> QED
    BY <1>1, <2>2, <2>3, <2>4
<1> QED
  BY <1>4, <1>7, <1>8 DEF BufferHoldsThePrefix, n

-----------------------------------------------------------------------------
(* Every step keeps the inductive invariant. *)

\* The steps that read a field print nothing.
LEMMA ReadingKeepsOutputs ==
  ASSUME IInv, UNCHANGED <<call, output>>, stage # "done", stage' # "done"
  PROVE  (call \in Calls)' /\ Outputs' /\ Memory'
<1>1. Outputs'
  BY DEF IInv, Outputs, output
<1>2. Written /\ DOMAIN buffer = 0 .. Cells - 1
  BY DEF IInv, Memory
<1>3. Written' /\ DOMAIN buffer' = 0 .. Cells - 1
  BY <1>2 DEF Written, out, maxlen, output
<1>4. Memory'
  BY <1>3 DEF Memory, BufferHoldsThePrefix
<1> QED
  BY <1>1, <1>4 DEF IInv

LEMMA PrintingKeepsOutputs ==
  ASSUME IInv, NEW s, IsText(s), Out(s), call' = call, stage # "done", stage' # "done"
  PROVE  (call \in Calls)' /\ Outputs' /\ Memory'
<1>1. call \in Calls /\ Outputs /\ Written
  BY DEF IInv, Memory
<1>2. Outputs'
  BY <1>1, OutKeepsOutputs
<1>3. Written' /\ DOMAIN buffer' = 0 .. Cells - 1
  BY <1>1, OutKeepsWritten
<1>4. Memory'
  BY <1>3 DEF Memory, BufferHoldsThePrefix
<1> QED
  BY <1>1, <1>2, <1>4

LEMMA PutLiteralKeeps ==
  ASSUME IInv, PutLiteral
  PROVE  IInv'
<1>1. call \in Calls /\ call' = call /\ stage = "format" /\ stage' = "format"
      /\ pos' = pos + 1 /\ va' = va /\ Char \notin {NUL, "%"}
  BY DEF IInv, PutLiteral
<1>2. IsText(<<Char>>) /\ Out(<<Char>>)
  BY TextLiteral DEF PutLiteral
<1>3. (call \in Calls)' /\ Outputs' /\ Memory'
  BY <1>1, <1>2, PrintingKeepsOutputs
<1>4. \/ pos \in 1 .. Percent(call) /\ va = 0
      \/ pos \in SpecifierAt(call) + 1 .. Len(call.format) + 1 /\ va = Len(call.ints)
  BY <1>1 DEF IInv, Places
<1>5. Percent(call) \in Nat \ {0} /\ SpecifierAt(call) \in Nat \ {0} /\ Len(call.format) \in Nat
  BY <1>1, CallFacts
<1>6. pos # Percent(call) /\ pos # Len(call.format) + 1
  <2>1. pos \in Nat \ {0}
    BY <1>4, <1>5
  <2>2. pos = Percent(call) => Char = "%"
    BY <1>1, <2>1, LiteralsAround DEF Char
  <2>3. pos > Len(call.format) => Char = NUL
    BY <1>1, <2>1, LiteralsAround DEF Char
  <2> QED
    BY <1>1, <1>5, <2>2, <2>3
<1>7. \/ pos' \in 1 .. Percent(call) /\ va = 0
      \/ pos' \in SpecifierAt(call) + 1 .. Len(call.format) + 1 /\ va = Len(call.ints)
  BY <1>1, <1>4, <1>5, <1>6
<1>8. Places'
  BY <1>1, <1>7 DEF Places
<1>9. Fields'
  BY DEF IInv, PutLiteral, Fields
<1> QED
  BY <1>3, <1>8, <1>9 DEF IInv

LEMMA FlagOfType ==
  ASSUME NEW c \in FlagChars
  PROVE  FlagOf(c) \in FlagSet
BY DEF FlagChars, FlagOf, FlagSet

LEMMA EvaluateFlagsKeeps ==
  ASSUME IInv, EvaluateFlags
  PROVE  IInv'
<1> DEFINE n == Run(call.format, pos + 1, FlagChars)
<1>1. call \in Calls /\ call' = call /\ stage = "format" /\ stage' = "width"
      /\ pos' = pos + 1 + n /\ va' = va /\ Char = "%"
      /\ UNCHANGED <<call, output, width, precision>>
  BY DEF IInv, EvaluateFlags
<1>2. (call \in Calls)' /\ Outputs' /\ Memory'
  BY <1>1, ReadingKeepsOutputs
<1>3. pos = Percent(call) /\ va = 0
  <2>1. \/ pos \in 1 .. Percent(call) /\ va = 0
        \/ pos \in SpecifierAt(call) + 1 .. Len(call.format) + 1 /\ va = Len(call.ints)
    BY <1>1 DEF IInv, Places
  <2> QED
    BY <1>1, <2>1, CallFacts, LiteralsAround DEF Char
<1>4. Places'
  BY <1>1, <1>3 DEF Places, WidthAt
<1>5. n \in Nat /\ \A k \in 0 .. n - 1 : CharAt(call.format, pos + 1 + k) \in FlagChars
  <2>1. pos + 1 \in Nat \ {0} /\ call.format \in Seq(STRING)
    BY <1>1, <1>3, CallFacts
  <2> DEFINE q == pos + 1
  <2> HIDE DEF q
  <2>2. q \in Nat \ {0}
    BY <2>1 DEF q
  <2>3. Run(call.format, q, FlagChars) \in 0 .. Len(call.format)
        /\ \A k \in 0 .. Run(call.format, q, FlagChars) - 1 : CharAt(call.format, q + k) \in FlagChars
    BY <2>1, <2>2, RunFacts, NulIsNoDigit
  <2> QED
    BY <2>1, <2>3 DEF q
<1>6. flags' = {FlagOf(CharAt(call.format, k)) : k \in pos + 1 .. pos + n}
  BY DEF EvaluateFlags
<1> HIDE DEF n
<1>7. ASSUME NEW k \in pos + 1 .. pos + n
      PROVE  FlagOf(CharAt(call.format, k)) \in FlagSet
  <2>1. pos \in Nat
    BY <1>1, <1>3, CallFacts
  <2>2. k - (pos + 1) \in 0 .. n - 1 /\ pos + 1 + (k - (pos + 1)) = k
    BY <1>5, <2>1
  <2>3. CharAt(call.format, k) \in FlagChars
    BY <1>5, <2>2
  <2> QED
    BY <2>3, FlagOfType
<1>8. Fields'
  <2>1. flags' \subseteq FlagSet
    BY <1>6, <1>7
  <2> QED
    BY <1>1, <2>1 DEF IInv, Fields
<1> QED
  BY <1>2, <1>4, <1>8 DEF IInv

\* A star finds its argument.
LEMMA VaIntType ==
  ASSUME call \in Calls, va \in Nat, va < Len(call.ints)
  PROVE  VaInt \in Int
<1>1. call.ints \in Seq(Int) /\ va + 1 \in 1 .. Len(call.ints)
  BY ArgumentFacts
<1> QED
  BY <1>1, ElementOfSeq DEF VaInt

LEMMA EvaluateWidthKeeps ==
  ASSUME IInv, EvaluateWidth
  PROVE  IInv'
<1> DEFINE c == call.format
<1>1. call \in Calls /\ call' = call /\ stage = "width" /\ stage' = "precision"
      /\ UNCHANGED <<call, output, precision>>
  BY DEF IInv, EvaluateWidth
<1>2. (call \in Calls)' /\ Outputs' /\ Memory'
  BY <1>1, ReadingKeepsOutputs
<1>3. pos = WidthAt(call) /\ va = 0 /\ pos \in Nat \ {0}
  BY <1>1, CallFacts DEF IInv, Places
<1>4. "LEFT" \in FlagSet /\ flags \subseteq FlagSet /\ precision \in Nat
  BY DEF IInv, Fields, FlagSet
<1>5. CASE IsDigit(Char)
  <2>1. width' = Atoi(c, pos) /\ pos' = pos + Run(c, pos, DigitSet) /\ flags' = flags /\ va' = va
    <3>1. Char # "*"
      BY <1>5 DEF IsDigit, DigitSet, DigitChars
    <3> QED
      BY <1>5, <3>1 DEF EvaluateWidth
  <2>2. width' \in Nat
    BY <1>1, <1>3, <2>1, CallFacts, AtoiType
  <2>3. pos' = PrecisionAt(call)
    BY <1>3, <1>5, <2>1 DEF PrecisionAt, Char
  <2>4. WidthArguments(call) = 0
    BY <1>3, <1>5 DEF WidthArguments, Char, IsDigit, DigitSet, DigitChars
  <2>5. Places'
    BY <1>1, <1>3, <2>1, <2>3, <2>4 DEF Places
  <2>6. Fields'
    BY <1>1, <1>4, <2>1, <2>2 DEF Fields
  <2> QED
    BY <1>2, <2>5, <2>6 DEF IInv
<1>6. CASE Char = "*"
  <2>1. ~ IsDigit(Char)
    BY <1>6 DEF IsDigit, DigitSet, DigitChars
  <2>2. /\ flags' = IF VaInt < 0 THEN flags \union {"LEFT"} ELSE flags
        /\ width' = IF VaInt < 0 THEN - VaInt ELSE VaInt
        /\ pos' = pos + 1 /\ va' = va + 1
    BY <1>6, <2>1 DEF EvaluateWidth
  <2>3. WidthArguments(call) = 1
    BY <1>3, <1>6 DEF WidthArguments, Char
  <2>4. VaInt \in Int
    BY <1>1, <1>3, <2>3, ArgumentFacts, VaIntType
  <2>5. pos' = PrecisionAt(call)
    BY <1>3, <1>6, <2>1, <2>2 DEF PrecisionAt, Char
  <2>6. Places'
    BY <1>1, <1>3, <2>2, <2>3, <2>5 DEF Places
  <2>7. flags' \subseteq FlagSet /\ width' \in Nat
    BY <1>4, <2>2, <2>4
  <2>8. Fields'
    BY <1>1, <1>4, <2>7 DEF Fields
  <2> QED
    BY <1>2, <2>6, <2>8 DEF IInv
<1>7. CASE ~ IsDigit(Char) /\ Char # "*"
  <2>1. width' = 0 /\ flags' = flags /\ pos' = pos /\ va' = va
    BY <1>7 DEF EvaluateWidth
  <2>2. pos' = PrecisionAt(call) /\ WidthArguments(call) = 0
    BY <1>3, <1>7, <2>1 DEF PrecisionAt, WidthArguments, Char
  <2>3. Places'
    BY <1>1, <1>3, <2>1, <2>2 DEF Places
  <2>4. Fields'
    BY <1>1, <1>4, <2>1 DEF Fields
  <2> QED
    BY <1>2, <2>3, <2>4 DEF IInv
<1> QED
  BY <1>5, <1>6, <1>7

LEMMA EvaluatePrecisionKeeps ==
  ASSUME IInv, EvaluatePrecision
  PROVE  IInv'
<1> DEFINE c == call.format
<1>1. call \in Calls /\ call' = call /\ stage = "precision" /\ stage' = "length"
      /\ UNCHANGED <<call, output, width>>
  BY DEF IInv, EvaluatePrecision
<1>2. (call \in Calls)' /\ Outputs' /\ Memory'
  BY <1>1, ReadingKeepsOutputs
<1>3. pos = PrecisionAt(call) /\ va = WidthArguments(call) /\ pos \in Nat \ {0}
  BY <1>1, CallFacts DEF IInv, Places
<1>4. "PRECISION" \in FlagSet /\ flags \subseteq FlagSet /\ width \in Nat
  BY DEF IInv, Fields, FlagSet
<1>5. CASE Char # "."
  <2>1. precision' = 0 /\ flags' = flags /\ pos' = pos /\ va' = va
    BY <1>5 DEF EvaluatePrecision
  <2>2. pos' = LengthAt(call) /\ PrecisionArguments(call) = 0
    BY <1>3, <1>5, <2>1 DEF LengthAt, PrecisionArguments, Char
  <2>3. va' = WidthArguments(call) + PrecisionArguments(call)
    BY <1>1, <1>3, <2>1, <2>2, ArgumentFacts
  <2>4. Places'
    BY <1>1, <2>2, <2>3 DEF Places
  <2>5. Fields'
    BY <1>1, <1>4, <2>1 DEF Fields
  <2> QED
    BY <1>2, <2>4, <2>5 DEF IInv
<1>6. CASE Char = "." /\ CharAt(c, pos + 1) # "*"
  <2>1. /\ precision' = Atoi(c, pos + 1)
        /\ pos' = pos + 1 + Run(c, pos + 1, DigitSet)
        /\ flags' = flags \union {"PRECISION"} /\ va' = va
    BY <1>6 DEF EvaluatePrecision
  <2>2. precision' \in Nat /\ Run(c, pos + 1, DigitSet) \in Nat
    <3> DEFINE q == pos + 1
    <3>1. q \in Nat \ {0} /\ c \in Seq(STRING)
      BY <1>1, <1>3, CallFacts
    <3> HIDE DEF q, c
    <3>2. Atoi(c, q) \in Nat
      BY <3>1, AtoiType
    <3>3. Run(c, q, DigitSet) \in Nat
      BY <3>1, RunFacts, NulIsNoDigit
    <3> QED
      BY <2>1, <3>2, <3>3 DEF q
  <2>3. pos' = LengthAt(call) /\ PrecisionArguments(call) = 0
    <3>1. PrecisionArguments(call) = 0
      BY <1>3, <1>6 DEF PrecisionArguments
    <3>2. LengthAt(call) = PrecisionAt(call) + (1 + Run(c, PrecisionAt(call) + 1, DigitSet))
      BY <1>3, <1>6 DEF LengthAt, Char
    <3>3. LengthAt(call) = pos + (1 + Run(c, pos + 1, DigitSet))
      BY <1>3, <3>2
    <3> HIDE DEF c
    <3> QED
      BY <1>3, <2>1, <2>2, <3>1, <3>3
  <2>4. va' = WidthArguments(call) + PrecisionArguments(call)
    BY <1>1, <1>3, <2>1, <2>3, ArgumentFacts
  <2>5. Places'
    BY <1>1, <2>3, <2>4 DEF Places
  <2>6. Fields'
    BY <1>1, <1>4, <2>1, <2>2 DEF Fields
  <2> QED
    BY <1>2, <2>5, <2>6 DEF IInv
<1>7. CASE Char = "." /\ CharAt(c, pos + 1) = "*"
  <2>1. /\ precision' = IF VaInt > 0 THEN VaInt ELSE 0
        /\ pos' = pos + 2 /\ va' = va + 1
        /\ flags' = flags \union {"PRECISION"}
    BY <1>7 DEF EvaluatePrecision
  <2>2. PrecisionArguments(call) = 1
    BY <1>3, <1>7 DEF PrecisionArguments, Char
  <2>3. VaInt \in Int
    BY <1>1, <1>3, <2>2, ArgumentFacts, VaIntType
  <2>4. pos' = LengthAt(call)
    BY <1>3, <1>7, <2>1 DEF LengthAt, Char
  <2>5. va' = WidthArguments(call) + PrecisionArguments(call)
    BY <1>1, <1>3, <2>1, <2>2, ArgumentFacts
  <2>6. Places'
    BY <1>1, <2>4, <2>5 DEF Places
  <2>7. Fields'
    BY <1>1, <1>4, <2>1, <2>3 DEF Fields
  <2> QED
    BY <1>2, <2>6, <2>7 DEF IInv
<1> QED
  BY <1>5, <1>6, <1>7

LEMMA EvaluateLengthKeeps ==
  ASSUME IInv, EvaluateLength
  PROVE  IInv'
<1>1. call \in Calls /\ call' = call /\ stage = "length" /\ stage' = "specifier"
      /\ UNCHANGED <<call, va, width, precision, output>>
  BY DEF IInv, EvaluateLength
<1>2. (call \in Calls)' /\ Outputs' /\ Memory'
  BY <1>1, ReadingKeepsOutputs
<1>3. pos = LengthAt(call) /\ va = WidthArguments(call) + PrecisionArguments(call)
  BY <1>1 DEF IInv, Places
<1>4. pos' = SpecifierAt(call)
  BY <1>3 DEF EvaluateLength, SpecifierAt
<1>5. Places'
  BY <1>1, <1>3, <1>4 DEF Places
<1>6. LengthField(call.format, pos)[1] \subseteq FlagSet
  BY DEF LengthField, FlagSet
<1>7. Fields'
  BY <1>1, <1>6 DEF IInv, Fields, EvaluateLength
<1> QED
  BY <1>2, <1>5, <1>7 DEF IInv

\* A conversion prints a text, goes on behind its specifier and leaves no argument over.
LEMMA ConvertKeeps ==
  ASSUME IInv, NEW S, NEW s, IsText(s), Convert(S, s),
         va' = IF Char \in IntegerSpecs \union {"p"} THEN va + 1 ELSE va
  PROVE  IInv'
<1>1. call \in Calls /\ call' = call /\ stage = "specifier" /\ stage' = "format"
      /\ Out(s) /\ pos' = pos + 1 /\ UNCHANGED <<flags, width, precision>>
  BY DEF IInv, Convert
<1>2. (call \in Calls)' /\ Outputs' /\ Memory'
  BY <1>1, PrintingKeepsOutputs
<1>3. pos = SpecifierAt(call) /\ va = WidthArguments(call) + PrecisionArguments(call)
  BY <1>1 DEF IInv, Places
<1>4. pos' \in SpecifierAt(call) + 1 .. Len(call.format) + 1
  BY <1>1, <1>3, CallFacts
<1>5. va' = Len(call.ints)
  <2>1. va' = va + ValueArguments(call)
    BY <1>1, <1>3, ArgumentFacts DEF ValueArguments, Char
  <2> QED
    BY <1>1, <1>3, <2>1, ArgumentFacts
<1>6. Places'
  BY <1>1, <1>4, <1>5 DEF Places
<1>7. Fields'
  BY <1>1 DEF IInv, Fields
<1> QED
  BY <1>2, <1>6, <1>7 DEF IInv

LEMMA TextJustify ==
  ASSUME IInv, NEW s, IsText(s)
  PROVE  IsText(Justify(s))
<1> DEFINE pad == Repeat(" ", width - Len(s))
<1>1. width - Len(s) \in Int
  BY DEF IInv, Fields, IsText
<1>2. IsText(pad)
  BY <1>1, TextRepeat
<1>3. IsText(s \o pad) /\ IsText(pad \o s)
  BY <1>2, TextConcat
<1>4. Justify(s) \in {s \o pad, pad \o s}
  BY DEF Justify
<1> QED
  BY <1>3, <1>4

LEMMA IntegerKeeps ==
  ASSUME IInv, Integer
  PROVE  IInv'
<1> DEFINE low      == VaInt % 2^BitsOf(flags)
           negative == Char \in {"i", "d"} /\ low >= 2^(BitsOf(flags) - 1)
           value    == IF negative THEN 2^BitsOf(flags) - low ELSE low
           s        == Ntoa(value, negative, BaseOf(Char), precision, width, IntegerFlags)
<1>1. Convert(IntegerSpecs, s) /\ va' = va + 1
  BY DEF Integer
<1> HIDE DEF value, negative
<1>2. IsText(s)
  BY TextNtoa DEF IInv, Fields
<1> HIDE DEF s
<1>3. Char \in IntegerSpecs
  BY <1>1 DEF Convert
<1> QED
  BY <1>1, <1>2, <1>3, ConvertKeeps

LEMMA FloatKeeps ==
  ASSUME IInv, Float
  PROVE  IInv'
<1> DEFINE s == Ftoa(call.double, precision, width, flags)
<1>1. Convert({"f", "F"}, s) /\ va' = va
  BY DEF Float
<1>2. call.double.kind \in {"nan", "inf", "number"} /\ call.double.negative \in BOOLEAN
  <2>1. IsCall(call)
    BY CallsAssumption DEF IInv
  <2> QED
    BY <2>1 DEF IsCall
<1>3. IsText(s)
  <2>1. width \in Nat /\ precision \in Nat
    BY DEF IInv, Fields
  <2>2. IsText(Ftoa(call.double, precision, width, flags))
    BY <1>2, <2>1, TextFtoa
  <2> QED
    BY <2>2
<1> HIDE DEF s
<1>4. Char \notin IntegerSpecs \union {"p"}
  BY <1>1 DEF Convert, IntegerSpecs
<1> QED
  BY <1>1, <1>3, <1>4, ConvertKeeps

LEMMA CharacterKeeps ==
  ASSUME IInv, Character
  PROVE  IInv'
<1>1. Convert({"c"}, Justify(<<call.char>>)) /\ va' = va
  BY DEF Character
<1>2. IsText(Justify(<<call.char>>))
  BY TextLiteral, TextJustify
<1>3. Char \notin IntegerSpecs \union {"p"}
  BY <1>1 DEF Convert, IntegerSpecs
<1> QED
  BY <1>1, <1>2, <1>3, ConvertKeeps

LEMMA StringKeeps ==
  ASSUME IInv, String
  PROVE  IInv'
<1> DEFINE shown == IF "PRECISION" \in flags
                    THEN SubSeq(call.string, 1, Min({precision, Len(call.string)}))
                    ELSE call.string
<1>1. Convert({"s"}, Justify(shown)) /\ va' = va
  BY DEF String
<1>2. IsCall(call)
  BY CallsAssumption DEF IInv
<1>3. IsText(call.string) /\ Len(call.string) \in Nat
  BY <1>2 DEF IsCall, IsText
<1>4. Min({precision, Len(call.string)}) \in Int
      /\ Min({precision, Len(call.string)}) <= Len(call.string)
  BY <1>3, MinOfTwo DEF IInv, Fields
<1>5. IsText(shown)
  BY <1>3, <1>4, TextSubSeq
<1> HIDE DEF shown
<1>6. IsText(Justify(shown))
  BY <1>5, TextJustify
<1>7. Char \notin IntegerSpecs \union {"p"}
  BY <1>1 DEF Convert, IntegerSpecs
<1> QED
  BY <1>1, <1>6, <1>7, ConvertKeeps

LEMMA PointerKeeps ==
  ASSUME IInv, Pointer
  PROVE  IInv'
<1> DEFINE value  == VaInt % 2^INT_BITS
           digits == NumberOfDigits(2^INT_BITS - 1, 16)
           s      == Ntoa(value, FALSE, 16, precision, digits, flags \union {"ZEROPAD"})
<1>1. Convert({"p"}, s) /\ va' = va + 1
  BY DEF Pointer
<1>2. digits \in Nat
  BY NumberOfDigitsType
<1> HIDE DEF value, digits
<1>3. IsText(s)
  BY <1>2, TextNtoa DEF IInv, Fields
<1> HIDE DEF s
<1>4. Char \in IntegerSpecs \union {"p"}
  BY <1>1 DEF Convert
<1> QED
  BY <1>1, <1>3, <1>4, ConvertKeeps

LEMMA OtherKeeps ==
  ASSUME IInv, Other
  PROVE  IInv'
<1>1. Convert({Char}, <<Char>>) /\ va' = va
  BY DEF Other
<1>2. IsText(<<Char>>)
  BY TextLiteral
<1>3. Char \notin IntegerSpecs \union {"p"}
  BY DEF Other, IntegerSpecs
<1> QED
  BY <1>1, <1>2, <1>3, ConvertKeeps

LEMMA TerminateKeeps ==
  ASSUME IInv, Terminate
  PROVE  IInv'
<1>1. call \in Calls /\ call' = call /\ stage = "format" /\ stage' = "done" /\ Char = NUL
      /\ UNCHANGED <<call, pos, va, flags, width, precision, idx, text, sent>>
  BY DEF IInv, Terminate
<1>2. pos = Len(call.format) + 1 /\ va = Len(call.ints)
  <2>1. \/ pos \in 1 .. Percent(call) /\ va = 0
        \/ pos \in SpecifierAt(call) + 1 .. Len(call.format) + 1 /\ va = Len(call.ints)
    BY <1>1 DEF IInv, Places
  <2>2. pos \notin 1 .. Percent(call)
    <3> SUFFICES ASSUME pos \in 1 .. Percent(call) PROVE FALSE
      OBVIOUS
    <3>1. pos \in Nat \ {0} /\ (pos < Percent(call) \/ pos = Percent(call))
      BY <1>1, CallFacts
    <3> QED
      BY <1>1, <3>1, LiteralsAround DEF Char, NUL
  <2> QED
    BY <1>1, <2>1, <2>2, CallFacts, LiteralsAround DEF Char
<1>3. Places'
  BY <1>1, <1>2 DEF Places
<1>4. Fields' /\ Outputs'
  BY <1>1 DEF IInv, Fields, Outputs
<1>5. Memory'
  <2>1. Written /\ Outputs
    BY <1>1 DEF IInv, Memory
  <2>2. BufferHoldsThePrefix' /\ DOMAIN buffer' = 0 .. Cells - 1
    BY <1>1, <2>1, TerminateKeepsPromise
  <2> QED
    BY <1>1, <2>2 DEF Memory
<1> QED
  BY <1>1, <1>3, <1>4, <1>5 DEF IInv

LEMMA StutterKeeps ==
  ASSUME IInv, UNCHANGED vars
  PROVE  IInv'
<1>1. UNCHANGED <<call, stage, pos, va, flags, width, precision, idx, text, buffer, sent>>
  BY DEF vars, input, output
<1>2. (call \in Calls)' /\ Places' /\ Fields' /\ Outputs'
  BY <1>1 DEF IInv, Places, Fields, Outputs
<1>3. Memory'
  BY <1>1 DEF IInv, Memory, Written, BufferHoldsThePrefix, out, maxlen
<1> QED
  BY <1>2, <1>3 DEF IInv

-----------------------------------------------------------------------------
\* Whatever the call, the flags, widths and precisions and the sizes of types and buffers:
\* where _vsnprintf is in the format, the arguments it has taken, the count of what it has
\* printed and the memory of the caller stay together after every field.
THEOREM InductiveInvariant == Spec => []IInv
<1>1. Init => IInv
  BY InitEstablishes
<1>2. IInv /\ [Next]_vars => IInv'
  <2> SUFFICES ASSUME IInv, [Next]_vars PROVE IInv'
    OBVIOUS
  <2>1. CASE PutLiteral
    BY <2>1, PutLiteralKeeps
  <2>2. CASE EvaluateFlags
    BY <2>2, EvaluateFlagsKeeps
  <2>3. CASE EvaluateWidth
    BY <2>3, EvaluateWidthKeeps
  <2>4. CASE EvaluatePrecision
    BY <2>4, EvaluatePrecisionKeeps
  <2>5. CASE EvaluateLength
    BY <2>5, EvaluateLengthKeeps
  <2>6. CASE Integer
    BY <2>6, IntegerKeeps
  <2>7. CASE Float
    BY <2>7, FloatKeeps
  <2>8. CASE Character
    BY <2>8, CharacterKeeps
  <2>9. CASE String
    BY <2>9, StringKeeps
  <2>10. CASE Pointer
    BY <2>10, PointerKeeps
  <2>11. CASE Other
    BY <2>11, OtherKeeps
  <2>12. CASE Terminate
    BY <2>12, TerminateKeeps
  <2>13. CASE UNCHANGED vars
    BY <2>13, StutterKeeps
  <2>14. CASE Done
    BY <2>13, <2>14 DEF Done
  <2> QED
    BY <2>1, <2>2, <2>3, <2>4, <2>5, <2>6, <2>7, <2>8, <2>9, <2>10, <2>11, <2>12, <2>13, <2>14 DEF Next
<1> QED
  BY <1>1, <1>2, PTL DEF Spec

\* A call takes the arguments its format names, no more and no fewer, and stays inside its
\* format; a caller's buffer holds as much of the text as fits and a terminator, and nothing
\* else in its memory changes: also with a count of 0, and if the text is cut.
THEOREM CallsAreSound == Spec => []CallSound
<1>1. IInv => CallSound
  BY TypesFollow DEF IInv, Memory, CallSound
<1> QED
  BY <1>1, InductiveInvariant, PTL
=============================================================================
