------------------------------- MODULE Printf -------------------------------
(***************************************************************************)
(* The formatting of printf, of which the kernel and the C library keep a  *)
(* copy each.  The copies differ in where a character goes: the kernel     *)
(* prints it, the library hands it to a gadget that stores or forwards it. *)
(*                                                                         *)
(* A format is a sequence of items: a character that stands for itself, or *)
(* a directive, of which the flags, width, precision, length and specifier *)
(* are already told apart.  The code builds a number backwards in a buffer *)
(* and prints it in reverse; here the text grows to the left instead.      *)
(* Widths of integers and the size of the buffer are constants.  A         *)
(* floating point number is a sign and a count of fractions 1/Unit, small  *)
(* enough for the code's arithmetic to be exact on it.                     *)
(***************************************************************************)
EXTENDS Integers, SequencesExt

CONSTANTS BufferSize,     \* PRINTF_INTEGER_BUFFER_SIZE, PRINTF_DECIMAL_BUFFER_SIZE
          CharBits, ShortBits, IntBits, LongBits,
          PointerDigits,  \* hexadecimal digits of a pointer
          Unit,           \* fractions in a one
          MaxPrecision,   \* PRINTF_MAX_SUPPORTED_PRECISION
          DefaultPrecision, \* PRINTF_DEFAULT_FLOAT_PRECISION
          MaxDecimal      \* PRINTF_FLOAT_NOTATION_THRESHOLD

ASSUME PrintfAssumption ==
    /\ {BufferSize, PointerDigits, Unit, MaxPrecision, MaxDecimal} \subseteq Nat \ {0}
    /\ CharBits < ShortBits /\ ShortBits < IntBits /\ IntBits < LongBits
    /\ Unit % 2 = 0

Rep(c, n) == [i \in 1..(IF n < 0 THEN 0 ELSE n) |-> c]
Lower(a, b) == IF a < b THEN a ELSE b
Abs(n) == IF n < 0 THEN -n ELSE n

DigitText == <<"0", "1", "2", "3", "4", "5", "6", "7", "8", "9", "a", "b", "c", "d", "e", "f">>
UpperText == <<"0", "1", "2", "3", "4", "5", "6", "7", "8", "9", "A", "B", "C", "D", "E", "F">>

\* The digits of a number, most significant first; none for zero.
RECURSIVE Digits(_, _, _)
Digits(v, base, text) ==
    IF v = 0 THEN << >> ELSE Append(Digits(v \div base, base, text), text[(v % base) + 1])

\* buf[len++] = c for each character of s, from its last, while there is room.
Push(s, text) == LET all == s \o text
                 IN  SubSeq(all, Len(all) - Lower(BufferSize, Len(all)) + 1, Len(all))

\* Zeros in front of a text until it is n long.
Zeros(text, n) == Push(Rep("0", n - Len(text)), text)

PadLeft(text, width) == Rep(" ", width - Len(text)) \o text
PadRight(text, width) == text \o Rep(" ", width - Len(text))
out_rev_(text, width, flags) ==
    CASE "-" \in flags -> PadRight(text, width)
      [] "-" \notin flags /\ "0" \in flags -> text
      [] OTHER -> PadLeft(text, width)

SignText(negative, flags) ==
    CASE negative -> <<"-">>
      [] ~negative /\ "+" \in flags -> <<"+">>
      [] ~negative /\ "+" \notin flags /\ " " \in flags -> <<" ">>
      [] OTHER -> << >>

\* A field padded with zeros leaves one place for its sign.
WidthBesideSign(negative, width, flags) ==
    IF "-" \notin flags /\ "0" \in flags /\ width > 0 /\ (negative \/ flags \cap {"+", " "} # {})
    THEN width - 1 ELSE width

\* The base's prefix, in front of digits that give back the padding it needs.
WithPrefix(digits, unpadded, base, precision, width, flags) ==
    LET len == Len(digits)
        back == IF "precision" \notin flags /\ len # 0 /\ len \in {precision, width}
                THEN Lower(len - unpadded, IF base \in {2, 16} THEN 2 ELSE 1) ELSE 0
        kept == SubSeq(digits, back + 1, len)
        letter == CASE base = 16 -> <<IF "upper" \in flags THEN "X" ELSE "x">>
                    [] base = 2 -> <<"b">>
                    [] OTHER -> << >>
    IN  Push(<<"0">>, Push(letter, kept))

print_integer_finalization(text, negative, base, precision, width0, flags0) ==
    LET width == WidthBesideSign(negative, width0, flags0)
        padded == IF "-" \notin flags0 /\ "0" \in flags0 THEN Zeros(text, width) ELSE text
        digits == Zeros(padded, precision)
        flags == IF base = 8 /\ Len(digits) > Len(text) THEN flags0 \ {"#"} ELSE flags0
        whole == IF flags \cap {"#", "pointer"} # {}
                 THEN WithPrefix(digits, Len(text), base, precision, width, flags) ELSE digits
    IN  out_rev_(Push(SignText(negative, flags), whole), width, flags)

\* Zero has no prefix, and no digits if a precision is given.
ZeroText(flags) == IF "precision" \in flags THEN << >> ELSE <<"0">>
ZeroFlags(base, flags) == IF "precision" \notin flags \/ base = 16 THEN flags \ {"#"} ELSE flags

print_integer(value, negative, base, precision, width, flags) ==
    LET text == IF value = 0 THEN ZeroText(flags)
                ELSE Push(Digits(value, base, IF "upper" \in flags THEN UpperText ELSE DigitText), << >>)
    IN  print_integer_finalization(text, negative, base, precision, width,
                                   IF value = 0 THEN ZeroFlags(base, flags) ELSE flags)

(***************************************************************************)
(* Floating point numbers.                                                 *)
(***************************************************************************)
\* num/den to the nearest integer, ties to even.
Nearest(num, den) == LET whole == num \div den
                         rest == 2 * (num % den)
                     IN  IF rest > den \/ (rest = den /\ whole % 2 = 1) THEN whole + 1 ELSE whole

\* A fraction that rounds up to a whole one is carried.
Carried(negative, integral, fractional, precision) ==
    LET carry == fractional >= 10^precision
    IN  [integral |-> integral + (IF carry THEN 1 ELSE 0),
         fractional |-> IF carry THEN 0 ELSE fractional, negative |-> negative]

\* A fraction num/den cut to an integral part and precision decimals.
Components(negative, num, den, precision) ==
    Carried(negative, num \div den, Nearest((num % den) * 10^precision, den), precision)

\* Without decimals a tie is looked at again: the fraction above is 0, which is even.
get_components(x, precision) ==
    LET c == Components(x.negative, x.mag, Unit, precision)
        tie == precision = 0 /\ 2 * (x.mag - c.integral * Unit) = Unit /\ c.integral % 2 = 1
    IN  [c EXCEPT !.integral = IF tie THEN @ + 1 ELSE @]

\* The number divided by ten to its exponent, as a fraction.
apply_scaling(x, exp10) == IF exp10 < 0 THEN [num |-> x.mag * 10^(-exp10), den |-> Unit]
                           ELSE [num |-> x.mag, den |-> Unit * 10^exp10]

get_normalized_components(x, precision, exp10) ==
    LET scaled == apply_scaling(x, exp10)
    IN  Components(x.negative, scaled.num, scaled.den, precision)

\* The decimal exponent: a truncated series for the logarithm, which is never below it,
\* and a correction when the power of ten it gives is above the number.
log10_of_positive(x) == CHOOSE e \in -3..5 : LET n == apply_scaling(x, e) IN n.num >= n.den /\ n.num < 10 * n.den
FlooredExp10(x) == IF x.mag = 0 THEN 0 ELSE log10_of_positive(x)

RECURSIVE Stripped(_)
Stripped(n) == IF n > 0 /\ n % 10 = 0 THEN Stripped(n \div 10) ELSE n
DigitsOf(n) == IF n = 0 THEN <<"0">> ELSE Digits(n, 10, DigitText)

\* The point and the decimals, in front of text: %g leaves out trailing zeros and a bare point.
WithFraction(c, precision, flags, text) ==
    LET strip == "adapt" \in flags /\ "#" \notin flags /\ c.fractional > 0
        frac == IF strip THEN Stripped(c.fractional) ELSE c.fractional
        count == precision - (IF strip THEN Len(DigitsOf(c.fractional)) - Len(DigitsOf(frac)) ELSE 0)
        digits == DigitsOf(frac)
        decimals == Rep("0", count - Len(digits)) \o digits
    IN  IF precision # 0
        THEN IF frac > 0 \/ "adapt" \notin flags \/ "#" \in flags
             THEN Push(<<".">> \o decimals, text) ELSE text
        ELSE IF "#" \in flags THEN Push(<<".">>, text) ELSE text

\* A number as it stands, with leading zeros and its sign.
DecimalField(number, negative, width0, flags) ==
    LET width == WidthBesideSign(negative, width0, flags)
        padded == IF "-" \notin flags /\ "0" \in flags THEN Zeros(number, width) ELSE number
    IN  out_rev_(Push(SignText(negative, flags), padded), width, flags)

print_broken_up_decimal(c, precision, width, flags, text) ==
    DecimalField(Push(DigitsOf(c.integral), WithFraction(c, precision, flags, text)), c.negative, width, flags)

print_decimal_number(x, precision, width, flags, text) ==
    print_broken_up_decimal(get_components(x, precision), precision, width, flags, text)

\* The decimal digits and the exponent; rounding 9.99 up gives 1 and the next exponent.
Normalized(x, precision) ==
    LET exp == FlooredExp10(x)
        c == IF exp = 0 THEN get_components(x, precision) ELSE get_normalized_components(x, precision, exp)
    IN  IF c.integral >= 10 THEN [parts |-> [c EXCEPT !.integral = 1, !.fractional = 0], exp |-> exp + 1]
        ELSE [parts |-> c, exp |-> exp]

\* %g without an exponent: the digits are counted from the first significant one, and rounding
\* up to the next power of ten takes one decimal away.
DecimalOnly(x, precision, exp10, width, flags, text) ==
    LET exp0 == FlooredExp10(x)
        shown == IF precision > exp10 THEN precision - exp10 ELSE 0
        redone == get_components(x, shown)
        shorter == exp0 >= -1 /\ shown > 0 /\ redone.integral = 10^(exp0 + 1)
    IN  print_broken_up_decimal(redone, IF shorter THEN shown - 1 ELSE shown, width, flags, text)

ExponentWidth(exp) == IF Abs(exp) < 100 THEN 4 ELSE 5
ExponentText(exp, flags) == <<IF "upper" \in flags THEN "E" ELSE "e">>
                            \o print_integer(Abs(exp), exp < 0, 10, 0, ExponentWidth(exp) - 1, {"0", "+"})
\* What is left of the field for the decimal part; on the right it is padded once whole.
DecimalWidth(width, exp, flags) ==
    IF "-" \in flags \/ width <= ExponentWidth(exp) THEN 0 ELSE width - ExponentWidth(exp)

print_exponential_number(x, precision0, width, flags, text) ==
    LET precision == IF "adapt" \in flags THEN (IF precision0 > 1 THEN precision0 - 1 ELSE 0)
                     ELSE precision0
        n == Normalized(x, precision)
        field == print_broken_up_decimal(n.parts, precision, DecimalWidth(width, n.exp, flags), flags, text)
                 \o ExponentText(n.exp, flags)
    IN  IF "adapt" \in flags /\ n.exp >= -4 /\ n.exp < precision + 1
        THEN DecimalOnly(x, precision, n.exp, width, flags, text)
        ELSE IF "-" \in flags THEN PadRight(field, width) ELSE field

SpecialText(x, flags) ==
    IF x.kind = "nan" THEN <<"n", "a", "n">>
    ELSE (IF x.negative THEN <<"-">> ELSE IF "+" \in flags THEN <<"+">> ELSE << >>) \o <<"i", "n", "f">>
TooLarge(x, exponential) == ~exponential /\ x.mag > MaxDecimal * Unit
\* Decimals beyond what the code can compute are zeros, which it writes first.
GivenPrecision(precision, flags) == IF "precision" \in flags THEN precision ELSE DefaultPrecision

print_floating_point(x, precision0, width, flags, exponential) ==
    LET given == GivenPrecision(precision0, flags)
        precision == Lower(given, MaxPrecision)
        text == Push(Rep("0", given - precision), << >>)
    IN  CASE x.kind \in {"nan", "inf"} -> out_rev_(SpecialText(x, flags), width, flags)
          [] x.kind = "number" /\ TooLarge(x, exponential) -> print_exponential_number(x, precision0, width, flags, << >>)
          [] x.kind = "number" /\ exponential -> print_exponential_number(x, precision, width, flags, text)
          [] OTHER -> print_decimal_number(x, precision, width, flags, text)

(***************************************************************************)
(* The directives.                                                         *)
(***************************************************************************)
\* An argument as va_arg and the cast to the length's type deliver it.
LengthFlag(length) == CASE length = "hh" -> "CHAR" [] length = "h" -> "SHORT"
                        [] length \in {"l", "ll", "t", "j", "z"} -> "LONG"
                        [] OTHER -> "INT"    \* also "L", which is for floating point only
Bits(length) == [CHAR |-> CharBits, SHORT |-> ShortBits, INT |-> IntBits, LONG |-> LongBits][LengthFlag(length)]
AsUnsigned(v, bits) == v % 2^bits
AsSigned(v, bits) == LET u == v % 2^bits IN IF u >= 2^(bits - 1) THEN u - 2^bits ELSE u

IntegerDirective(d, arg, precision, width, flags0) ==
    LET signed == d.spec \in {"d", "i"}
        base == CASE d.spec \in {"x", "X"} -> 16 [] d.spec = "o" -> 8
                  [] d.spec = "b" -> 2 [] OTHER -> 10
        drop == (IF base = 10 THEN {"#"} ELSE {})
                \cup (IF "precision" \in flags0 THEN {"0"} ELSE {})
                \cup (IF signed THEN {} ELSE {"+", " "})
        flags == (flags0 \ drop) \cup (IF d.spec = "X" THEN {"upper"} ELSE {})
        v == AsSigned(arg, Bits(d.length))
    IN  IF signed THEN print_integer(Abs(v), v < 0, base, precision, width, flags)
        ELSE print_integer(AsUnsigned(arg, Bits(d.length)), FALSE, base, precision, width, flags)

FloatDirective(d, arg, precision, width, flags) ==
    print_floating_point(arg, precision, width,
        flags \cup (IF d.spec \in {"g", "G"} THEN {"adapt"} ELSE {})
              \cup (IF d.spec \in {"F", "E", "G"} THEN {"upper"} ELSE {}),
        d.spec \notin {"f", "F"})

Null == "NULL"
\* %c and %s: at most precision characters, padded with spaces whatever the flags.
TextDirective(s, width, flags) == IF "-" \in flags THEN PadRight(s, width) ELSE PadLeft(s, width)
strnlen_s(s, max) == Lower(max, Len(s))
StringDirective(arg, precision, width, flags) ==
    IF arg = <<Null>> THEN out_rev_(<<"(", "n", "u", "l", "l", ")">>, width, flags)
    ELSE TextDirective(IF "precision" \in flags THEN SubSeq(arg, 1, strnlen_s(arg, precision)) ELSE arg,
                       width, flags)

PointerFlags(flags) == flags \cup {"0", "pointer"}
PointerDirective(arg, precision, flags) ==
    LET width == PointerDigits + 2
    IN  IF arg = 0 THEN out_rev_(<<"(", "n", "i", "l", ")">>, width, PointerFlags(flags))
        ELSE print_integer(arg, FALSE, 16, precision, width, PointerFlags(flags))

\* The width and precision given with a directive, either of which may be an argument: a
\* negative width pads on the right, a negative precision counts as none.
ParsedWidth(d, args) == IF d.width = "*" THEN Head(args).int ELSE d.num
ParsedPrecision(d, args) == IF d.precision = "*" THEN Head(args).int ELSE d.decimals

\* %n stores the count, cut to the length's type.
CountDirective(s, d) == [s EXCEPT !.count = AsSigned(Len(s.out), Bits(d.length))]
\* A character that stands for itself, also after a % that is no directive.
Literally(s, c) == [s EXCEPT !.out = Append(@, c)]

\* The flags of a directive: those it has, and what the arguments for width and precision add.
ParsedFlags(d, width, precision) ==
    d.flags \cup (IF width < 0 THEN {"-"} ELSE {})
            \cup (IF d.precision # "none" /\ precision >= 0 THEN {"precision"} ELSE {})

UsedPrecision(d, precision) == IF d.precision = "none" \/ precision < 0 THEN 0 ELSE precision

\* The text of a directive that converts an argument.
Converted(d, arg, precision, width, flags) ==
    CASE d.spec \in {"d", "i", "u", "x", "X", "o", "b"} -> IntegerDirective(d, arg.int, precision, width, flags)
      [] d.spec \in {"f", "F", "e", "E", "g", "G"} -> FloatDirective(d, arg.float, precision, width, flags)
      [] d.spec = "c" -> TextDirective(<<arg.char>>, width, flags)
      [] d.spec = "s" -> StringDirective(arg.str, precision, width, flags)
      [] OTHER -> PointerDirective(arg.int, precision, flags)
Conversions == {"d", "i", "u", "x", "X", "o", "b", "f", "F", "e", "E", "g", "G", "c", "s", "p"}

\* A directive whose width and precision are taken; args are the arguments left.
Directed(s, d, args, width, precision) ==
    CASE d.spec \in Conversions ->
            [s EXCEPT !.out = @ \o Converted(d, Head(args), UsedPrecision(d, precision), Abs(width),
                                             ParsedFlags(d, width, precision)),
                      !.args = Tail(args)]
      [] d.spec = "n" -> CountDirective([s EXCEPT !.args = Tail(args)], d)
      [] OTHER -> Literally([s EXCEPT !.args = args], d.char)

AfterWidth(d, args) == IF d.width = "*" THEN Tail(args) ELSE args
AfterPrecision(d, args) == IF d.precision = "*" THEN Tail(args) ELSE args
Sized(s, d, args, width) == Directed(s, d, AfterPrecision(d, args), width, ParsedPrecision(d, args))

\* One item of the format.  s.out is the text so far, s.args the arguments left, s.count what
\* %n stored.  A format that ends within a directive prints no more.
format_item(s, d) ==
    CASE s.ended -> s
      [] ~s.ended /\ d.spec = "literal" -> Literally(s, d.char)
      [] ~s.ended /\ d.spec = "" -> [s EXCEPT !.ended = TRUE]
      [] OTHER -> Sized(s, d, AfterWidth(d, s.args), ParsedWidth(d, s.args))

format_string_loop(format, args) ==
    FoldLeft(format_item, [out |-> << >>, args |-> args, count |-> -1, ended |-> FALSE], format)

\* The kernel's printf prints every character and counts it.
Printed(s) == [out |-> s.out, ret |-> Len(s.out), count |-> s.count]
vprintf(format, args) == Printed(format_string_loop(format, args))

(***************************************************************************)
(* The library's gadgets: a character past max_chars is counted but not    *)
(* stored, and the terminator takes the last place that is left.           *)
(***************************************************************************)
NUL == "NUL"
discarding_gadget == [buffer |-> << >>, max_chars |-> 0]
buffer_gadget(buffer, n) == [discarding_gadget EXCEPT !.buffer = buffer, !.max_chars = n]

putchar_via_gadget(gadget, text) ==
    [gadget EXCEPT !.buffer = [i \in DOMAIN @ |-> IF i <= Len(text) /\ i <= gadget.max_chars THEN text[i] ELSE @[i]]]
\* Mutant: the terminator goes behind a full buffer.
MutTerminates(gadget, pos) ==
    IF gadget.max_chars = 0 THEN gadget ELSE [gadget EXCEPT !.buffer[Lower(pos, gadget.max_chars) + 1] = NUL]
append_termination_with_gadget(gadget, pos) ==
    IF gadget.max_chars = 0 THEN gadget ELSE [gadget EXCEPT !.buffer[Lower(pos, gadget.max_chars - 1) + 1] = NUL]

StoredBy(gadget, text) ==
    [out |-> append_termination_with_gadget(putchar_via_gadget(gadget, text), Len(text)).buffer, ret |-> Len(text)]
vsnprintf_impl(gadget, format, args) == StoredBy(gadget, format_string_loop(format, args).out)
vsnprintf(buffer, n, format, args) == vsnprintf_impl(buffer_gadget(buffer, n), format, args)
\* The largest size there is: nothing is cut.
vsprintf(buffer, format, args) == vsnprintf(buffer, Len(buffer), format, args)

(***************************************************************************)
(* Variable arguments (va_list.c): where the next argument is, by the kind *)
(* of register it was passed in.  Offsets are in registers and in slots of *)
(* 8 bytes of the stack.                                                   *)
(***************************************************************************)
CONSTANTS GenRegs, FloatRegs  \* 6 and 8

va_start == [gp_offset |-> 0, fp_offset |-> 0, overflow |-> 0]

At(area, i) == [area |-> area, i |-> i]
Aligned(n, align) == n + ((align - (n % align)) % align)

\* The end of the argument is aligned, then its start is counted back.
use_overflow_area(ap, size, align) ==
    LET end == Aligned(ap.overflow + size, align)
    IN  [ap |-> [ap EXCEPT !.overflow = end], at |-> At("stack", end - size)]

\* A pair of doubles is put together in the first of two registers; with one left it is passed on the
\* stack, and that one is counted as used.
FloatArg(ap, size, align) ==
    CASE ap.fp_offset >= FloatRegs -> use_overflow_area(ap, size, align)
      [] ap.fp_offset < FloatRegs /\ (size = 1 \/ ap.fp_offset + 1 < FloatRegs) ->
            [ap |-> [ap EXCEPT !.fp_offset = @ + size], at |-> At("float", ap.fp_offset)]
      [] OTHER -> use_overflow_area([ap EXCEPT !.fp_offset = @ + 1], size, align)

__va_arg(ap, arg) ==
    CASE arg.type = "gen" /\ ap.gp_offset + arg.size <= GenRegs ->
            [ap |-> [ap EXCEPT !.gp_offset = @ + arg.size], at |-> At("gen", ap.gp_offset)]
      [] arg.type = "float" -> FloatArg(ap, arg.size, arg.align)
      [] OTHER -> use_overflow_area(ap, arg.size, arg.align)

\* What a function that takes one argument after the other finds.
Places(args) == FoldLeft(LAMBDA s, arg : LET r == __va_arg(s.ap, arg) IN [ap |-> r.ap, at |-> Append(s.at, r.at)],
                         [ap |-> va_start, at |-> << >>], args).at

\* Where the caller put them: registers of the kind while there are enough, else the next place on
\* the stack that is aligned.
Passed(args) ==
    LET put(s, arg) ==
          CASE arg.type = "gen" /\ s.gen + arg.size <= GenRegs ->
                  [s EXCEPT !.gen = @ + arg.size, !.at = Append(@, At("gen", s.gen))]
            [] arg.type = "float" /\ s.float + arg.size <= FloatRegs ->
                  [s EXCEPT !.float = @ + arg.size, !.at = Append(@, At("float", s.float))]
            [] OTHER -> LET i == Aligned(s.stack, arg.align)
                        IN  [s EXCEPT !.stack = i + arg.size, !.at = Append(@, At("stack", i))]
    IN  FoldLeft(put, [gen |-> 0, float |-> 0, stack |-> 0, at |-> << >>], args).at
=============================================================================
