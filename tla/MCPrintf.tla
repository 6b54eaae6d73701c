------------------------------ MODULE MCPrintf ------------------------------
(***************************************************************************)
(* Calls of the printf family for TLC: directives written out as formats,  *)
(* over widths and precisions on both sides of the scaled conversion       *)
(* buffers and values at the limits of the scaled types.                   *)
(***************************************************************************)
EXTENDS Printf

FlagSets == SUBSET {"ZEROPAD", "LEFT", "PLUS", "HASH"} \union {{"SPACE"}, {"SPACE", "PLUS"}, {"SPACE", "ZEROPAD"}}
CharOf(f) == CHOOSE c \in FlagChars : FlagOf(c) = f
Written(n) == Reverse(Digits(n, 10))

Directive(fs, star, w, dot, p, l, spec) ==
  [flags |-> fs, star |-> star, width |-> w, dot |-> dot, prec |-> p, length |-> l, spec |-> spec]

LengthChars(l) == CASE l = "hh" -> <<"h", "h">> [] l = "ll" -> <<"l", "l">> [] l = "" -> <<>> [] OTHER -> <<l>>

\* The format of a directive, and the int arguments of its stars.
Format(f) ==
  <<"%">> \o SetToSeq({CharOf(c) : c \in f.flags})
    \o (IF f.star THEN <<"*">> ELSE IF f.width = 0 THEN <<>> ELSE Written(f.width))
    \o (CASE f.dot = "none" -> <<>> [] f.dot = "empty" -> <<".">> [] f.dot = "star" -> <<".", "*">>
          [] f.dot = "digits" -> <<".">> \o Written(f.prec))
    \o LengthChars(f.length) \o <<f.spec>>
Stars(f) == (IF f.star THEN <<f.width>> ELSE <<>>) \o (IF f.dot = "star" THEN <<f.prec>> ELSE <<>>)

One == [kind |-> "number", m |-> 1, e |-> 0, negative |-> FALSE]

Call(f, fn, null, count, ints, string, char, double) ==
  [d |-> f, before |-> <<"<">>, after |-> <<">">>, format |-> <<"<">> \o Format(f) \o <<">">>,
   fn |-> fn, null |-> null, count |-> count, ints |-> Stars(f) \o ints, string |-> string, char |-> char, double |-> double]

Widths == {<<FALSE, 0>>, <<FALSE, 3>>, <<FALSE, 6>>, <<FALSE, 7>>, <<TRUE, -3>>}
WideWidths == {<<FALSE, 0>>, <<FALSE, 10>>, <<TRUE, -10>>, <<TRUE, 7>>}
Precisions == {<<"none", 0>>, <<"empty", 0>>, <<"digits", 3>>, <<"star", -1>>}

IntegerCall(fs, w, p, l, spec, v) ==
  Call(Directive(fs, w[1], w[2], p[1], p[2], l, spec), "sprintf_", FALSE, 0, <<v>>, <<>>, "c", One)

IntegerCalls ==
  {IntegerCall(fs, w, p, l, spec, v) : fs \in FlagSets, w \in Widths, p \in Precisions, l \in {"", "hh"},
     spec \in {"d", "u", "x", "b"}, v \in {0, 10, 42, 63}}
  \union
  {IntegerCall(fs, <<FALSE, 3>>, <<"none", 0>>, l, spec, v) : fs \in SUBSET {"LEFT", "ZEROPAD"},
     l \in {"h", "l", "ll", "z", "j"}, spec \in {"i", "o", "X"}, v \in {8, 32, 200, 255}}

StringCalls ==
  {Call(Directive(fs, w[1], w[2], p[1], p[2], "", spec), "sprintf_", FALSE, 0, IF spec = "p" THEN <<42>> ELSE <<>>,
        s, "c", One) : fs \in SUBSET {"LEFT", "ZEROPAD"}, w \in Widths, p \in Precisions,
     s \in {<<>>, <<"a", "b">>, <<"a", "b", "c", "d">>}, spec \in {"s", "c", "p", "%"}}

\* 31 / 32 with one digit is the carry into the whole part; 243 / 256 is half-way below it.
Doubles == {[kind |-> "number", m |-> m, e |-> e, negative |-> n] :
              m \in {3, 5, 25, 127, 243, 255}, e \in {0, 1, 4, 8}, n \in BOOLEAN}
           \union {[kind |-> "number", m |-> 31, e |-> 5, negative |-> n] : n \in BOOLEAN}
           \union {[kind |-> k, m |-> 1, e |-> 0, negative |-> n] : k \in {"nan", "inf"}, n \in BOOLEAN}

FloatCalls ==
  {Call(Directive(fs, w[1], w[2], p[1], p[2], "", "f"), "sprintf_", FALSE, 0, <<>>, <<>>, "c", x) :
     fs \in SUBSET {"LEFT", "ZEROPAD", "PLUS"}, w \in WideWidths,
     p \in {<<"none", 0>>, <<"empty", 0>>, <<"digits", 1>>, <<"digits", 2>>, <<"digits", 4>>}, x \in Doubles}

OutputCalls ==
  {Call(Directive({}, FALSE, 3, "none", 0, "", spec), fn, null, count, <<>>, <<"a", "b">>, c, One) :
     spec \in {"s", "c"}, c \in {"c", NUL}, null \in BOOLEAN,
     fn \in {"printf_", "vprintf_", "fctprintf", "snprintf_", "vsnprintf_"}, count \in {0, 1, 2, 4, 5, 6}}

MCCalls == IntegerCalls \union StringCalls \union FloatCalls \union OutputCalls
=============================================================================
