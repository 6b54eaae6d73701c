------------------------------- MODULE Printf -------------------------------
(***************************************************************************)
(* _vsnprintf of src/lib/printf.c with its output functions, and the calls *)
(* of the printf family that reach it.  A call prints one directive        *)
(* between two literal characters.  Each field of the directive and the    *)
(* conversion it asks for is a step.  Formats are complete: after a lone   *)
(* "%" the code would read past the end.                                   *)
(***************************************************************************)
EXTENDS NumberFormat, FiniteSets

CONSTANTS
  Calls,       \* calls of the printf family and what they are to print
  SIZE_MAX,    \* the count of the functions that have none
  CHAR_BITS, SHORT_BITS, INT_BITS, LONG_LONG_BITS,
  Cells        \* the memory at and behind the buffer is cells 0 .. Cells - 1

NUL == "NUL"
Untouched == "untouched"

-----------------------------------------------------------------------------
(* Reading a format f from position p on. *)

CharAt(f, p) == IF p <= Len(f) THEN f[p] ELSE NUL

\* How many of the characters are in S.
Run(f, p, S) == CHOOSE n \in 0 .. Len(f) :
                  CharAt(f, p + n) \notin S /\ \A k \in 0 .. n - 1 : CharAt(f, p + k) \in S

DigitSet == {DigitChars[k] : k \in 1 .. 10}
IsDigit(c) == c \in DigitSet
DigitValue(c) == CHOOSE digit \in 0 .. 9 : DigitChars[digit + 1] = c

\* The number that is read.
Atoi(f, p) ==
  LET n == Run(f, p, DigitSet)
      value[k \in 0 .. n] == IF k = 0 THEN 0 ELSE 10 * value[k - 1] + DigitValue(CharAt(f, p + k - 1))
  IN  value[n]

FlagOf(c) == CASE c = "0" -> "ZEROPAD" [] c = "-" -> "LEFT" [] c = "+" -> "PLUS"
               [] c = " " -> "SPACE" [] c = "#" -> "HASH"
FlagChars == {"0", "-", "+", " ", "#"}

\* The flags of the length field, and how long it is.  ptrdiff_t and size_t are as
\* long as a long, intmax_t as a long long.
LengthField(f, p) ==
  LET c == CharAt(f, p)
  IN  CASE c = "l" /\ CharAt(f, p + 1) # "l" -> <<{"LONG"}, 1>>
        [] c = "l" /\ CharAt(f, p + 1) = "l" -> <<{"LONG", "LONG_LONG"}, 2>>
        [] c = "h" /\ CharAt(f, p + 1) # "h" -> <<{"SHORT"}, 1>>
        [] c = "h" /\ CharAt(f, p + 1) = "h" -> <<{"SHORT", "CHAR"}, 2>>
        [] c \in {"t", "z"} -> <<{"LONG"}, 1>>
        [] c = "j" -> <<{"LONG_LONG"}, 1>>
        [] OTHER -> <<{}, 0>>

IntegerSpecs == {"d", "i", "u", "x", "X", "o", "b"}

-----------------------------------------------------------------------------
(* What is assumed of a call c: its format is that of one directive, other  *)
(* than %e and %g, and it has the arguments that the format names.  Its     *)
(* text is shorter than 2^32 characters, so that idx does not wrap.         *)

Percent(c) == Len(c.before) + 1
WidthAt(c) == Percent(c) + 1 + Run(c.format, Percent(c) + 1, FlagChars)
PrecisionAt(c) ==
  WidthAt(c) + IF IsDigit(CharAt(c.format, WidthAt(c))) THEN Run(c.format, WidthAt(c), DigitSet)
               ELSE IF CharAt(c.format, WidthAt(c)) = "*" THEN 1 ELSE 0
LengthAt(c) ==
  PrecisionAt(c) + IF CharAt(c.format, PrecisionAt(c)) # "." THEN 0
                   ELSE IF CharAt(c.format, PrecisionAt(c) + 1) = "*" THEN 2
                   ELSE 1 + Run(c.format, PrecisionAt(c) + 1, DigitSet)
SpecifierAt(c) == LengthAt(c) + LengthField(c.format, LengthAt(c))[2]

WidthArguments(c) == IF CharAt(c.format, WidthAt(c)) = "*" THEN 1 ELSE 0
PrecisionArguments(c) ==
  IF CharAt(c.format, PrecisionAt(c)) = "." /\ CharAt(c.format, PrecisionAt(c) + 1) = "*" THEN 1 ELSE 0
ValueArguments(c) == IF CharAt(c.format, SpecifierAt(c)) \in IntegerSpecs \union {"p"} THEN 1 ELSE 0

IsCall(c) ==
  /\ {c.before, c.format, c.string} \subseteq Seq(STRING)
  /\ CharAt(c.format, Percent(c)) = "%" /\ SpecifierAt(c) <= Len(c.format)
  /\ c.format[SpecifierAt(c)] \notin {"e", "E", "g", "G"}
  /\ \A p \in DOMAIN c.format : p < Percent(c) \/ p > SpecifierAt(c) => c.format[p] \notin {NUL, "%"}
  /\ c.ints \in Seq(Int)
  /\ Len(c.ints) = WidthArguments(c) + PrecisionArguments(c) + ValueArguments(c)
  /\ c.count \in 0 .. SIZE_MAX /\ c.null \in BOOLEAN
  /\ c.double.kind \in {"nan", "inf", "number"} /\ c.double.negative \in BOOLEAN

ASSUME CallsAssumption ==
  /\ SIZE_MAX \in Nat /\ Cells \in Nat
  /\ \A c \in Calls : IsCall(c)

VARIABLES
  call,       \* the call, constant
  stage,      \* the field of the directive that is next, or "format", "done"
  pos,        \* where format points
  va,         \* how many int arguments va_arg has taken
  flags, width, precision,
  idx,
  text,       \* history: every character given to out
  buffer,     \* the memory of the caller
  sent        \* what _putchar, or the function given to fctprintf, got

input == <<call, stage, pos, va, flags, width, precision>>
output == <<idx, text, buffer, sent>>
vars == <<input, output>>

Init ==
  /\ call \in Calls
  /\ stage = "format" /\ pos = 1 /\ va = 0
  /\ flags = {} /\ width = 0 /\ precision = 0
  /\ idx = 0 /\ text = <<>> /\ sent = <<>>
  /\ buffer = [i \in 0 .. Cells - 1 |-> Untouched]

-----------------------------------------------------------------------------
\* What the functions of the family pass to _vsnprintf: the output function, which is
\* _out_null without a buffer, and maxlen.
out == CASE call.fn \in {"printf_", "vprintf_", "fctprintf"} -> "char"
         [] call.fn \in {"sprintf_", "snprintf_", "vsnprintf_"} /\ call.null -> "null"
         [] OTHER -> "buffer"
maxlen == IF call.fn \in {"snprintf_", "vsnprintf_"} THEN call.count ELSE SIZE_MAX

\* _out_buffer, for each character of s from index at on.
OutBuffer(s, at) ==
  [i \in DOMAIN buffer |->
     IF i \in at .. at + Len(s) - 1 /\ i < maxlen THEN s[i - at + 1] ELSE buffer[i]]

\* _out_char and _out_fct pass on what is not NUL.
WithoutNul(s) ==
  LET kept == {i \in DOMAIN s : s[i] # NUL}
  IN  [k \in 1 .. Cardinality(kept) |-> s[CHOOSE i \in kept : Cardinality({j \in kept : j <= i}) = k]]

\* The characters of s go to the output function, with idx++ each.
Out(s) ==
  /\ text' = text \o s
  /\ idx' = idx + Len(s)
  /\ buffer' = IF out = "buffer" THEN OutBuffer(s, idx) ELSE buffer
  /\ sent' = IF out = "char" THEN sent \o WithoutNul(s) ELSE sent

Char == CharAt(call.format, pos)

\* va_arg for an int.
VaInt == call.ints[va + 1]

PutLiteral ==
  /\ stage = "format"
  /\ Char \notin {NUL, "%"}
  /\ Out(<<Char>>)
  /\ pos' = pos + 1
  /\ UNCHANGED <<call, stage, va, flags, width, precision>>

EvaluateFlags ==
  /\ stage = "format"
  /\ Char = "%"
  /\ LET n == Run(call.format, pos + 1, FlagChars)
     IN  /\ flags' = {FlagOf(CharAt(call.format, k)) : k \in pos + 1 .. pos + n}
         /\ pos' = pos + 1 + n
  /\ stage' = "width"
  /\ UNCHANGED <<call, va, width, precision, output>>

\* A negative argument asks for padding on the right.
EvaluateWidth ==
  /\ stage = "width"
  /\ \/ /\ IsDigit(Char)
        /\ width' = Atoi(call.format, pos) /\ pos' = pos + Run(call.format, pos, DigitSet)
        /\ UNCHANGED <<flags, va>>
     \/ /\ Char = "*"
        /\ flags' = IF VaInt < 0 THEN flags \union {"LEFT"} ELSE flags
        /\ width' = IF VaInt < 0 THEN - VaInt ELSE VaInt
        /\ pos' = pos + 1 /\ va' = va + 1
     \/ /\ ~ IsDigit(Char) /\ Char # "*"
        /\ width' = 0
        /\ UNCHANGED <<flags, pos, va>>
  /\ stage' = "precision"
  /\ UNCHANGED <<call, precision, output>>

\* After a point without a number the precision is 0, and so it is for a negative one.
EvaluatePrecision ==
  /\ stage = "precision"
  /\ \/ /\ Char # "."
        /\ precision' = 0
        /\ UNCHANGED <<flags, pos, va>>
     \/ /\ Char = "." /\ CharAt(call.format, pos + 1) # "*"
        /\ precision' = Atoi(call.format, pos + 1)
        /\ pos' = pos + 1 + Run(call.format, pos + 1, DigitSet)
        /\ flags' = flags \union {"PRECISION"}
        /\ UNCHANGED va
     \/ /\ Char = "." /\ CharAt(call.format, pos + 1) = "*"
        /\ precision' = IF VaInt > 0 THEN VaInt ELSE 0
        /\ pos' = pos + 2 /\ va' = va + 1
        /\ flags' = flags \union {"PRECISION"}
  /\ stage' = "length"
  /\ UNCHANGED <<call, width, output>>

EvaluateLength ==
  /\ stage = "length"
  /\ flags' = flags \union LengthField(call.format, pos)[1]
  /\ pos' = pos + LengthField(call.format, pos)[2]
  /\ stage' = "specifier"
  /\ UNCHANGED <<call, va, width, precision, output>>

-----------------------------------------------------------------------------
\* A specifier in S is converted to the characters s.
Convert(S, s) ==
  /\ stage = "specifier"
  /\ Char \in S
  /\ Out(s)
  /\ pos' = pos + 1
  /\ stage' = "format"
  /\ UNCHANGED <<call, flags, width, precision>>

BitsOf(f) == CASE "LONG_LONG" \in f -> LONG_LONG_BITS
               [] "CHAR" \in f -> CHAR_BITS
               [] "SHORT" \in f /\ "CHAR" \notin f -> SHORT_BITS
               [] OTHER -> INT_BITS

BaseOf(c) == CASE c \in {"x", "X"} -> 16 [] c = "o" -> 8 [] c = "b" -> 2 [] OTHER -> 10

\* The flags an integer conversion goes by.
IntegerFlags ==
  flags \ ((IF BaseOf(Char) = 10 THEN {"HASH"} ELSE {})
           \union (IF Char \in {"i", "d"} THEN {} ELSE {"PLUS", "SPACE"})
           \union (IF "PRECISION" \in flags THEN {"ZEROPAD"} ELSE {}))

\* The argument cut to its type, and its sign taken off.  The negation of the
\* smallest value, which C leaves undefined, wraps in this build.
Integer ==
  /\ LET low      == VaInt % 2^BitsOf(flags)
         negative == Char \in {"i", "d"} /\ low >= 2^(BitsOf(flags) - 1)
     IN  Convert(IntegerSpecs,
                 Ntoa(IF negative THEN 2^BitsOf(flags) - low ELSE low, negative,
                      BaseOf(Char), precision, width, IntegerFlags))
  /\ va' = va + 1

Float ==
  /\ Convert({"f", "F"}, Ftoa(call.double, precision, width, flags))
  /\ UNCHANGED va

Justify(s) ==
  LET pad == Repeat(" ", width - Len(s)) IN IF "LEFT" \in flags THEN s \o pad ELSE pad \o s

Character ==
  /\ Convert({"c"}, Justify(<<call.char>>))
  /\ UNCHANGED va

\* Variant: the padding is that of the whole string.
StringPadWhole ==
  /\ LET shown == IF "PRECISION" \in flags
                  THEN SubSeq(call.string, 1, Min({precision, Len(call.string)})) ELSE call.string
         pad   == Repeat(" ", width - Len(call.string))
     IN  Convert({"s"}, IF "LEFT" \in flags THEN shown \o pad ELSE pad \o shown)
  /\ UNCHANGED va

String ==
  /\ Convert({"s"}, Justify(IF "PRECISION" \in flags
                            THEN SubSeq(call.string, 1, Min({precision, Len(call.string)}))
                            ELSE call.string))
  /\ UNCHANGED va

\* The width is that of all digits of a pointer, two for a byte.
Pointer ==
  /\ Convert({"p"}, Ntoa(VaInt % 2^INT_BITS, FALSE, 16, precision, NumberOfDigits(2^INT_BITS - 1, 16),
                         flags \union {"ZEROPAD"}))
  /\ va' = va + 1

\* "%%", and characters that are no specifier, stand for themselves.
Other ==
  /\ Char \notin {"d", "i", "u", "x", "X", "o", "b", "f", "F", "e", "E", "g", "G", "c", "s", "p", NUL}
  /\ Convert({Char}, <<Char>>)
  /\ UNCHANGED va

\* Variant: the last character is not given up for the terminator.
TerminateBehind ==
  /\ stage = "format" /\ Char = NUL
  /\ buffer' = IF out = "buffer" THEN OutBuffer(<<NUL>>, idx) ELSE buffer
  /\ stage' = "done"
  /\ UNCHANGED <<call, pos, va, flags, width, precision, idx, text, sent>>

\* The terminator goes behind the text or into the last cell.  It has no effect on
\* _putchar; with a count of 0 the index wraps and is out of range.
Terminate ==
  /\ stage = "format" /\ Char = NUL
  /\ buffer' = IF out = "buffer"
               THEN OutBuffer(<<NUL>>, IF idx < maxlen THEN idx
                                       ELSE (maxlen - 1) % (SIZE_MAX + 1)) ELSE buffer
  /\ stage' = "done"
  /\ UNCHANGED <<call, pos, va, flags, width, precision, idx, text, sent>>

Done == stage = "done" /\ UNCHANGED vars

Next ==
  \/ PutLiteral
  \/ EvaluateFlags
  \/ EvaluateWidth
  \/ EvaluatePrecision
  \/ EvaluateLength
  \/ Integer
  \/ Float
  \/ Character
  \/ String
  \/ Pointer
  \/ Other
  \/ Terminate
  \/ Done

Spec == Init /\ [][Next]_vars

-----------------------------------------------------------------------------
(* What a call asks for.  Its directive d has what the caller wrote; a width or  *)
(* a precision given by "*" is the first or the next of the int arguments.       *)

d == call.d

AskedFlags ==
  d.flags \union (IF d.width < 0 THEN {"LEFT"} ELSE {})
    \union (IF d.dot = "none" THEN {} ELSE {"PRECISION"})
AskedWidth == IF d.width < 0 THEN - d.width ELSE d.width
AskedPrecision == IF d.prec > 0 THEN d.prec ELSE 0
AskedBits == CASE d.length = "hh" -> CHAR_BITS [] d.length = "h" -> SHORT_BITS
               [] d.length \in {"ll", "j"} -> LONG_LONG_BITS [] OTHER -> INT_BITS

Asks(f) == f \in AskedFlags

\* n in the given number of digits.
Numeral(n, base, digits) ==
  [k \in 1 .. digits |-> DigitChars[((n \div base^(digits - k)) % base) + 1]]

InField(s) ==
  LET pad == Repeat(" ", AskedWidth - Len(s)) IN IF Asks("LEFT") THEN s \o pad ELSE pad \o s

SignFor(negative) == IF negative THEN <<"-">> ELSE IF Asks("PLUS") THEN <<"+">>
                     ELSE IF Asks("SPACE") THEN <<" ">> ELSE <<>>

\* How many digits to print where n are needed: zeros fill the field if it is asked for.
FillWithZeros(n, more) ==
  IF Asks("ZEROPAD") /\ ~ Asks("LEFT") THEN Max({n, AskedWidth - more}) ELSE n

IntegerArgument == call.ints[Len(call.ints)] % 2^AskedBits
IsNegative == d.spec \in {"d", "i"} /\ IntegerArgument >= 2^(AskedBits - 1)
Magnitude == IF IsNegative THEN 2^AskedBits - IntegerArgument ELSE IntegerArgument

IntegerDigits ==
  LET needed == IF Magnitude = 0 /\ Asks("PRECISION") THEN 0 ELSE NumberOfDigits(Magnitude, BaseOf(d.spec))
  IN  IF Asks("PRECISION") THEN Max({needed, AskedPrecision}) ELSE needed

IntegerSign == IF d.spec \in {"d", "i"} THEN SignFor(IsNegative) ELSE <<>>

IntegerField ==
  LET digits == IF Asks("PRECISION") THEN IntegerDigits
                ELSE FillWithZeros(IntegerDigits, Len(IntegerSign))
  IN  InField(IntegerSign \o Numeral(Magnitude, BaseOf(d.spec), digits))

\* Not promised: the form of "#", whose prefix may replace digits, zeros for the precision of a
\* number on the left, and numbers longer than the conversion buffer.
IntegerPromised ==
  /\ Asks("HASH") => BaseOf(d.spec) = 10
  /\ Asks("LEFT") => AskedPrecision <= NumberOfDigits(Magnitude, BaseOf(d.spec))
  /\ Len(IntegerSign) + Max({IntegerDigits, IF Asks("ZEROPAD") THEN AskedWidth ELSE 0}) <= NTOA

\* A call prints what its format asks for, character by character, between what
\* surrounds the directive: integers in every base with sign, precision and padding, cut
\* to their type and back from two's complement; strings, characters and pointers.
DirectiveIsFormatted ==
  LET shown(s) == text = call.before \o s \o call.after
  IN  stage = "done" =>
        /\ d.spec \in IntegerSpecs /\ IntegerPromised => shown(IntegerField)
        /\ d.spec = "s" => shown(InField(IF Asks("PRECISION")
                                         THEN SubSeq(call.string, 1, Min({AskedPrecision, Len(call.string)}))
                                         ELSE call.string))
        /\ d.spec = "c" => shown(InField(<<call.char>>))
        /\ d.spec = "p" /\ AskedFlags = {} =>
             shown(Numeral(IntegerArgument, 16, NumberOfDigits(2^INT_BITS - 1, 16)))
        /\ d.spec = "%" => shown(<<"%">>)

\* The number n / 10^p in the form of %f.
FixedField(n, p) ==
  LET sign  == SignFor(call.double.negative)
      point == IF p = 0 THEN <<>> ELSE <<".">> \o Numeral(n % 10^p, 10, p)
      whole == FillWithZeros(NumberOfDigits(n \div 10^p, 10), Len(sign) + Len(point))
  IN  InField(sign \o Numeral(n \div 10^p, 10, whole) \o point)

FixedPrecision == IF Asks("PRECISION") THEN AskedPrecision ELSE PRINTF_DEFAULT_FLOAT_PRECISION

\* %f is about numbers that fit the conversion buffer.
FixedFits ==
  /\ d.spec = "f" /\ call.double.kind = "number"
  /\ FixedPrecision <= FTOA_MAX_PREC
  /\ Max({AskedWidth, 3 + FixedPrecision + NumberOfDigits(call.double.m, 10)}) <= FTOA

\* value * 10^p and n, in units of 1 / 2^e, differ by no more than the given amount.
Within(n, p, amount) ==
  LET diff == n * 2^call.double.e - call.double.m * 10^p IN - amount <= 2 * diff /\ 2 * diff <= amount

\* The numbers with p digits around the value.
Around(p) == LET n == (call.double.m * 10^p) \div 2^call.double.e IN {n, n + 1}

\* The fraction times the power of ten, in units of 1 / 2^e, and what its rounding changes.
Product == (call.double.m % 2^call.double.e) * 10^FixedPrecision
RoundingError ==
  LET change == RoundProduct(Product) - Product IN IF change < 0 THEN - change ELSE change

\* The product is rounded to half-way between the last number of the precision below
\* the next whole number and that whole number: 0.95 with one digit.
HalfwayToWhole ==
  /\ FixedPrecision > 0
  /\ 2 * RoundProduct(Product) = (2 * 10^FixedPrecision - 1) * 2^call.double.e

\* %f prints the nearest number of the precision asked for, as near as the product is to the
\* value, with all its digits; a fraction that rounds up to 1 goes into the whole part, and
\* half-way either way is fine.  (Not where a half-way fraction would have to carry.)
FixedIsNearest ==
  stage = "done" /\ FixedFits /\ ~ HalfwayToWhole =>
    \E n \in Around(FixedPrecision) :
      /\ Within(n, FixedPrecision, 2^call.double.e + 2 * RoundingError)
      /\ text = call.before \o FixedField(n, FixedPrecision) \o call.after

\* A caller's buffer holds as much of the text as fits, then a terminator, and nothing
\* else in its memory changes: with truncation, with a count of 0, and without a buffer.
BufferHoldsThePrefix ==
  stage = "done" =>
    LET n == Min({idx, maxlen - 1})
    IN  \A i \in DOMAIN buffer :
          buffer[i] = IF out # "buffer" \/ i > n THEN Untouched
                      ELSE IF i = n THEN NUL ELSE text[i + 1]

\* Every field is at least as wide as asked for, also with signs, prefixes and zeros,
\* unless the zeros do not fit the conversion buffer or the value is no number.
FieldIsWideEnough ==
  stage = "done" /\ d.spec \in IntegerSpecs \union {"f", "s", "c"}
    /\ (Asks("ZEROPAD") => AskedWidth <= Min({NTOA, FTOA}) /\ (d.spec = "f" => call.double.kind = "number")) =>
    Len(text) >= Len(call.before) + AskedWidth + Len(call.after)

\* Every variable has its type, and no more arguments are taken than the format names.
TypeOK ==
  /\ stage \in {"format", "width", "precision", "length", "specifier", "done"}
  /\ pos \in 1 .. Len(call.format) + 1
  /\ va \in 0 .. Len(call.ints)
  /\ stage = "done" => va = Len(call.ints)
  /\ flags \subseteq {"ZEROPAD", "LEFT", "PLUS", "SPACE", "HASH", "PRECISION",
                      "LONG", "LONG_LONG", "SHORT", "CHAR"}
  /\ width \in Nat /\ precision \in Nat
  /\ idx = Len(text)
  /\ DOMAIN buffer = 0 .. Cells - 1
  /\ Len(sent) <= idx
\* Every directive has its text, and every field its width.
FieldsSound == DirectiveIsFormatted /\ FieldIsWideEnough

\* A call takes the arguments its format names and writes where it may.
CallSound == TypeOK /\ BufferHoldsThePrefix
=============================================================================
