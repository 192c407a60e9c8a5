------------------------------ MODULE CLibrary ------------------------------
(***************************************************************************)
(* A program that uses one family of the C library's functions: it makes a *)
(* call and looks at the answer, or carries a conversation with a function *)
(* that keeps state between calls (strtok's pointer, a conversion state, a *)
(* descriptor's offset).                                                   *)
(***************************************************************************)
EXTENDS Caller, Printf, FiniteSets

CONSTANTS Directives, Numbers, Floats,    \* what printf is given
          TextDirectives, Strings,
          BufferLengths,                  \* the n of snprintf
          ArgLists,                       \* variable arguments
          Memory, Words,                  \* memories and strings for string.c
          Characters,                     \* for ctype.c and wchar.c
          alpha_table, punct_table, RuleOf, exceptions, TableEnd,
          Numerals, Decimals, Bases,      \* strings for strtol and strtod
          Texts, Delims,                  \* strings for strtok
          ByteStrings, Chars,             \* input for mbrtowc, and characters some of it encodes
          Files, MaxFile, LineSize, NL, DirentBytes    \* files for the streams

S == INSTANCE CString
K == INSTANCE KernString
T == INSTANCE CType
N == INSTANCE CNumber
IO == INSTANCE Stdio

LibraryFamilies == {"print", "number", "string", "token", "wide", "stream"}

Return == family \in {"print", "number", "string"} /\ Forget

(***************************************************************************)
(* Single calls.                                                           *)
(***************************************************************************)
PrintOne == Ready("print") /\ \E d \in Directives :
    \E a \in IF d.spec \in {"f", "e", "g", "G"} THEN [float : Floats] ELSE [int : Numbers] :
        Ask([op |-> "printf", d |-> d, arg |-> a], vprintf(<<d>>, <<a>>).out)

\* %s, %c, %n and %p, with a width that may be an argument; a character of the text is printed as it is.
PrintText == Ready("print") /\ \E d \in TextDirectives, str \in Strings, w \in Numbers :
    LET args == <<[int |-> w], [str |-> str, char |-> "c", int |-> Abs(w)], [int |-> 0]>>
        count == [d EXCEPT !.spec = "n", !.width = "num", !.precision = "none"]
        given == IF d.width = "*" THEN args ELSE Tail(args)
    IN  Ask([op |-> "text", d |-> d, str |-> str, w |-> w], vprintf(<<d, count>>, given))

\* Two directives with literal text between them, into a buffer of n characters.
Plainly(d) == d.spec = "d" /\ "#" \notin d.flags
PrintInto == Ready("print") /\ \E d \in {x \in Directives : Plainly(x)}, n \in BufferLengths, v \in Numbers :
    LET format == <<d, [d EXCEPT !.spec = "literal", !.char = ":"], d>>
        args == <<[int |-> v], [int |-> v]>>
    IN  Ask([op |-> "snprintf", n |-> n, text |-> vprintf(format, args).out],
            vsnprintf([i \in 1..(n + 1) |-> "old"], n, format, args))
PrintAll == Ready("print") /\ \E d \in {x \in Directives : Plainly(x)}, v \in Numbers :
    Ask([op |-> "sprintf", text |-> vprintf(<<d>>, <<[int |-> v]>>).out],
        vsprintf([i \in 1..20 |-> "old"], <<d>>, <<[int |-> v]>>))

TakeArguments == Ready("print") /\ \E args \in ArgLists : Ask([op |-> "va_arg", args |-> args], Places(args))

Scan == /\ Ready("number")
        /\ \/ \E s \in Numerals, b \in Bases : Ask([op |-> "strtol", s |-> s, base |-> b], N!strtol(s, b))
           \/ \E s \in Numerals, b \in Bases : Ask([op |-> "strtoul", s |-> s, base |-> b], N!strtoul(s, b))
           \/ \E s \in Decimals : Ask([op |-> "strtod", s |-> s], N!strtod(s))

UseMemory == Ready("string") /\ \E m \in Memory : \E n \in 0..(Len(m) - 1) : \E dest, src \in 1..(Len(m) - n + 1) :
    \/ Ask([op |-> "memmove", m |-> m, dest |-> dest, src |-> src, n |-> n], S!memmove(m, dest, src, n))
    \/ /\ src + n <= dest \/ dest + n <= src  \* restrict: they do not overlap
       /\ Ask([op |-> "memmove", m |-> m, dest |-> dest, src |-> src, n |-> n], S!memcpy(m, dest, src, n))
    \/ Ask([op |-> "memset", m |-> m, dest |-> dest, c |-> src, n |-> n], S!memset(m, dest, src, n))
\* The kernel's functions, which are its own.
UseKernelMemory == Ready("string") /\ \E m \in Memory : \E n \in 0..(Len(m) - 1) : \E dest, src \in 1..(Len(m) - n + 1) :
    \/ Ask([op |-> "memmove", m |-> m, dest |-> dest, src |-> src, n |-> n], K!memmove(m, dest, src, n))
    \/ /\ src + n <= dest \/ dest + n <= src
       /\ Ask([op |-> "memmove", m |-> m, dest |-> dest, src |-> src, n |-> n], K!memcpy(m, dest, src, n))
    \/ Ask([op |-> "memset", m |-> m, dest |-> dest, c |-> src, n |-> n], K!memset(m, dest, src, n))
    \/ Ask([op |-> "memset", m |-> m, dest |-> dest, c |-> src, n |-> n], K!volatile_memset(m, dest, src, n))
UseKernelStrings == Ready("string") /\ \E s, t \in Words :
    LET m == Append(s, 0) \o Append(t, 0) \o Rep(9, 4)
        b == Len(s) + 2
    IN  \/ Ask([op |-> "strcmp", s |-> s, t |-> t], K!strcmp(m, 1, b))
        \/ \E n \in 0..3 : Ask([op |-> "strncmp", s |-> s, t |-> t, n |-> n], K!strncmp(m, 1, b, n))
        \/ /\ Len(s) = Len(t)
           /\ Ask([op |-> "memcmp", s |-> s, t |-> t], K!bcmp(m, 1, b, Len(s)))
        \/ Ask([op |-> "strcpy", s |-> << >>, t |-> s], K!strcpy(m, b, 1))
        \/ Ask([op |-> "strlen", s |-> s], K!strlen(m, 1))

ClassNames == {"alnum", "alpha", "blank", "cntrl", "digit", "graph", "lower", "print", "punct", "space", "upper", "xdigit"}
Classes(c) == {n \in ClassNames :
    CASE n = "alnum" -> T!isalnum(c) [] n = "alpha" -> T!isalpha(c) [] n = "blank" -> T!isblank(c)
      [] n = "cntrl" -> T!iscntrl(c) [] n = "digit" -> T!isdigit(c) [] n = "graph" -> T!isgraph(c)
      [] n = "lower" -> T!islower(c) [] n = "print" -> T!isprint(c) [] n = "punct" -> T!ispunct(c)
      [] n = "space" -> T!isspace(c) [] n = "upper" -> T!isupper(c) [] OTHER -> T!isxdigit(c)}
UseCharacters == Ready("string") /\ \E c \in Characters :
    \/ /\ T!isascii(c)
       /\ Ask([op |-> "class", c |-> c], <<Classes(c), K!toupper(c), K!tolower(c)>>)
    \/ Ask([op |-> "wclass", c |-> c], {n \in ClassNames : T!iswctype(c, T!wctype(n))})
    \/ Ask([op |-> "case", c |-> c], <<T!towlower(c), T!towupper(c)>>)

\* A block of 9s as malloc left it, and sizes whose product may not fit.
UseStdlib == Ready("string") /\ \E nmemb, size \in 0..8 :
    \/ Ask([op |-> "calloc", size |-> nmemb * size], S!calloc(Rep(9, 2^LongBits), nmemb, size, LongBits))
    \/ Ask([op |-> "abs", n |-> nmemb - size], S!abs(nmemb - size))

\* In the words 1 is the lower case of 2.
LowerCase == [c \in 1..255 |-> IF c = 2 THEN 1 ELSE c]

UseStrings == Ready("string") /\ \E s, t \in Words :
    \/ Ask([op |-> "strcmp", s |-> s, t |-> t], S!strcmp(s, t))
    \/ \E n \in 0..3 : Ask([op |-> "strncmp", s |-> s, t |-> t, n |-> n], S!strncmp(s, t, n))
    \/ /\ Len(s) = Len(t)
       /\ Ask([op |-> "memcmp", s |-> s, t |-> t], S!memcmp(s, t, Len(s)))
    \/ \E n \in 0..3 : Ask([op |-> "strncpy", s |-> s, n |-> n], S!strncpy(Rep(9, 4), 1, s, n))
    \/ \E n \in 0..3 : Ask([op |-> "stpncpy", s |-> s, n |-> n], S!stpncpy(Rep(9, 4), 1, s, n))
    \/ Ask([op |-> "strcpy", s |-> s, t |-> t], S!strcpy(S!strcpy(Rep(9, 8), 1, s), Len(s) + 1, t))
    \/ Ask([op |-> "strcasecmp", s |-> s, t |-> t], S!strcasecmp(s, t, LowerCase))
    \/ Ask([op |-> "strstr", s |-> s, t |-> t], S!strstr(s, t))
    \/ Ask([op |-> "spans", s |-> s, t |-> t],
           <<S!strspn(s, t), S!strcspn(s, t), S!strpbrk(s, t), S!strchrnul(s, S!At(t, 1))>>)
    \/ /\ 2 \notin Range(s)  \* asserted: no "=" in a name
       /\ Ask([op |-> "getenv", s |-> s, t |-> t], S!getenv(<<t, Append(s, 2)>>, s, 2))
    \/ Ask([op |-> "qsort", s |-> s \o t], S!qsort([i \in 1..Len(s \o t) |-> i], s \o t))

(***************************************************************************)
(* Conversations.                                                          *)
(***************************************************************************)
\* strtok with a string: the one before, if any, is given up.
BeginTokens == family = "token" /\ \E t \in Texts :
    Ask([op |-> "token", given |-> t, text |-> t, next |-> 1, ended |-> FALSE], << >>)

NextToken == /\ family = "token"
             /\ call # Idle
             /\ ~call.ended
             /\ LET r == S!strtok(call.text, call.next, Delims)
                IN  Ask([call EXCEPT !.text = r.text, !.next = r.next, !.ended = r.token = << >>],
                         IF r.token = << >> THEN answer ELSE Append(answer, r.token))

\* mbsrtowcs takes the whole string at once.
DecodeAll == Ready("wide") /\ \E b \in ByteStrings :
    LET s == S!StrAt(Append(b, 0), 1)
        r == T!mbsrtowcs(s, Len(s), T!InitialShift)
    IN  Ask([op |-> "whole", given |-> s, ret |-> r.ret], r.chars)

\* The bytes come in pieces: each call sees the first k of those that are left.
BeginDecoding == Ready("wide") /\ \E b \in ByteStrings :
    Ask([op |-> "wide", given |-> b, left |-> b, state |-> T!InitialShift, failed |-> FALSE], << >>)

Decode(k) == LET r == T!mbrtowc(SubSeq(call.left, 1, k), call.state)
                 used == CASE r.ret = T!Incomplete -> k
                           [] r.ret = T!EILSEQ -> 0
                           [] OTHER -> IF r.ret = 0 THEN 1 ELSE r.ret
             IN  Ask([call EXCEPT !.left = SubSeq(@, used + 1, Len(@)), !.state = r.state,
                                           !.failed = r.ret = T!EILSEQ],
                      IF r.output = T!NoChar THEN answer ELSE Append(answer, r.output))
DecodePiece == /\ call.op = "wide"
               /\ ~call.failed
               /\ \E k \in 1..Len(call.left) : Decode(k)
\* mbrtowc with no input asks for the initial state; in mid-character that is refused.
ResetDecoding == /\ call.op = "wide"
                 /\ ~call.failed
                 /\ Ask([call EXCEPT !.state = T!mbrtowc_reset(@).state], answer)

\* A stream on a file of lines; answer is what the program read since from, where it began,
\* sought or wrote last; put is what it wrote there.
OpenStream == Ready("stream") /\ \E d \in Files, mode \in {<<"r">>, <<"w", "b">>, <<"a">>} :
    Ask([op |-> "stream", file |-> IO!open(d, IO!fopen_flags(mode)), from |-> 0, put |-> << >>], << >>)
\* A directory is opened as one, or wrongly read like a file.
OpenDir == Ready("stream") /\ \E d \in {f \in Files : Len(f) % DirentBytes = 0} :
    Ask([op |-> "stream", file |-> IO!opendir(d), from |-> 0, put |-> << >>], << >>)
ReadDir == LET r == IO!readdir(call.file) IN Ask([call EXCEPT !.file = r.file], answer \o r.ret)

Getc == LET r == IO!fgetc(call.file)
        IN  Ask([call EXCEPT !.file = r.file],
                 IF r.ret = IO!EOF THEN answer ELSE Append(answer, r.ret))
\* A line that ends within the buffer: of any other fgets makes no string.
Gets == LET s0 == [i \in 1..(LineSize + 1) |-> 7]
            r == IO!fgets(call.file, LineSize, s0)
        IN  /\ \E i \in 1..(LineSize - 1) : i <= IO!Left(call.file) /\ call.file.data[call.file.offset + i] = NL
            /\ Ask([call EXCEPT !.file = r.file], answer \o S!StrAt(r.s, 1))
Read(size, nmemb) ==
        LET r == IO!fread(call.file, size, nmemb)
        IN  Ask(IF r.ret = IO!Abort THEN [op |-> "aborted"] ELSE [call EXCEPT !.file = r.file],
                 answer \o r.bytes)
\* Any whence but SEEK_SET halts.
Seek(offset, whence) ==
    Ask([call EXCEPT !.file = IO!fseek(@, offset, whence), !.from = offset, !.put = << >>], << >>)
\* fprintf hands the stream one character at a time.
vfprintf(file, format, args) == FoldLeft(LAMBDA f, c : IO!fputc(f, c).file, file, vprintf(format, args).out)
Literal(c) == [flags |-> {}, width |-> "num", num |-> 0, precision |-> "none", decimals |-> 0,
               length |-> "", spec |-> "literal", char |-> c]
\* A write at the offset covers as much of the last one there as it is long.
Over(old, new) == new \o SubSeq(old, Len(new) + 1, Len(old))
Wrote(file, bytes) ==
    Ask([call EXCEPT !.file = file, !.from = call.file.offset,
                     !.put = Over(IF answer = << >> THEN @ ELSE << >>, bytes)], << >>)
\* fputs traps on the empty string: it divides by its length.
Put == \/ Wrote(IO!fputc(call.file, 1).file, <<1>>)
       \/ Wrote(vfprintf(call.file, <<Literal(1), Literal(2)>>, << >>), <<2>>)
       \/ \E line \in Files \cup {<< >>} :
             LET r == IO!fputs(call.file, line)
             IN  IF r.ret = IO!Trap THEN Ask([op |-> "aborted"], << >>) ELSE Wrote(r.file, line)

UseStream == /\ call.op = "stream" /\ call.file.offset # IO!Halted
             /\ \/ call.file.dir /\ ReadDir
                \/ Getc
                \/ ~call.file.dir /\ Gets
                \/ ~call.file.dir /\ Len(call.file.data) < MaxFile /\ Put
                \/ \E size \in 1..2, n \in 1..2 : Read(size, n)
                \/ \E offset \in 0..Len(call.file.data), whence \in 0..1 : Seek(offset, whence)

UseLibrary == PrintOne \/ PrintText \/ PrintInto \/ PrintAll \/ TakeArguments \/ Scan \/ UseMemory \/ UseStrings
              \/ UseKernelMemory \/ UseKernelStrings \/ UseCharacters \/ UseStdlib \/ Return
              \/ BeginTokens \/ NextToken \/ BeginDecoding \/ DecodePiece \/ ResetDecoding \/ DecodeAll
              \/ OpenStream \/ OpenDir \/ UseStream

(***************************************************************************)
(* What the C standard asks of a conversion, as the fields it is made of:  *)
(* a sign, a prefix, digits, and padding that is spaces on one side of the *)
(* whole or zeros between prefix and digits.  The reference Printf is      *)
(* checked against.                                                        *)
(***************************************************************************)
Field(d, width, sign, prefix, digits, zeroPadded) ==
    LET missing == width - Len(sign \o prefix \o digits)
    IN  CASE "-" \in d.flags -> sign \o prefix \o digits \o Rep(" ", missing)
          [] "-" \notin d.flags /\ zeroPadded -> sign \o prefix \o Rep("0", missing) \o digits
          [] OTHER -> Rep(" ", missing) \o sign \o prefix \o digits

Sign(d, negative) == IF negative THEN <<"-">> ELSE IF "+" \in d.flags THEN <<"+">>
                     ELSE IF " " \in d.flags THEN <<" ">> ELSE << >>
AtLeast(digits, n) == Rep("0", n - Len(digits)) \o digits

CInteger(d, arg) ==
    LET signed == d.spec \in {"d", "i"}
        bits == Bits(d.length)
        v == IF signed THEN AsSigned(arg, bits) ELSE AsUnsigned(arg, bits)
        base == CASE d.spec \in {"x", "X"} -> 16 [] d.spec = "o" -> 8 [] d.spec = "b" -> 2 [] OTHER -> 10
        least == IF d.precision = "none" THEN 1 ELSE d.decimals
        plain == AtLeast(Digits(Abs(v), base, IF d.spec = "X" THEN UpperText ELSE DigitText), least)
        digits == IF base = 8 /\ "#" \in d.flags /\ (plain = << >> \/ Head(plain) # "0")
                  THEN <<"0">> \o plain ELSE plain
        prefix == IF "#" \in d.flags /\ base = 16 /\ v # 0 THEN <<"0", IF d.spec = "X" THEN "X" ELSE "x">>
                  ELSE << >>
    IN  Field(d, d.num, IF signed THEN Sign(d, v < 0) ELSE << >>, prefix, digits,
              "0" \in d.flags /\ d.precision = "none")

\* num/den with p decimals, rounded to the nearest and to even when halfway.
Rounded(num, den, p) ==
    LET q == (num * 10^p) \div den
        r == 2 * ((num * 10^p) % den)
    IN  IF r > den \/ (r = den /\ q % 2 = 1) THEN q + 1 ELSE q
WithPoint(d, q, p) ==
    LET all == AtLeast(Digits(q, 10, DigitText), p + 1)
        cut == Len(all) - p
    IN  SubSeq(all, 1, cut) \o (IF p > 0 \/ "#" \in d.flags THEN <<".">> ELSE << >>) \o SubSeq(all, cut + 1, Len(all))
RECURSIVE Trimmed(_)
Trimmed(t) == IF Last(t) = "0" THEN Trimmed(Front(t)) ELSE IF Last(t) = "." THEN Front(t) ELSE t

\* The exponent of the number once it is rounded to p decimals.
CExponent(x, p) ==
    LET e == FlooredExp10(x)
        q == IF e < 0 THEN Rounded(x.mag * 10^(-e), Unit, p) ELSE Rounded(x.mag, Unit * 10^e, p)
    IN  IF q = 10^(p + 1) THEN [exp |-> e + 1, digits |-> 10^p] ELSE [exp |-> e, digits |-> q]
ExpText(d, e) == <<IF d.spec \in {"E", "G"} THEN "E" ELSE "e", IF e < 0 THEN "-" ELSE "+">>
                 \o AtLeast(Digits(Abs(e), 10, DigitText), 2)

CFloat(d, x) ==
    LET given == IF d.precision = "none" THEN DefaultPrecision ELSE d.decimals
        p == IF given = 0 THEN 1 ELSE given
        ce == CExponent(x, given)
        cg == CExponent(x, p - 1)
        Trim(t) == IF "#" \in d.flags \/ p - 1 - cg.exp = 0 THEN t ELSE Trimmed(t)
        body == CASE d.spec \in {"f", "F"} -> WithPoint(d, Rounded(x.mag, Unit, given), given)
                  [] d.spec \in {"e", "E"} -> WithPoint(d, ce.digits, given) \o ExpText(d, ce.exp)
                  [] d.spec \in {"g", "G"} /\ cg.exp >= -4 /\ cg.exp < p ->
                         Trim(WithPoint(d, Rounded(x.mag, Unit, p - 1 - cg.exp), p - 1 - cg.exp))
                  [] OTHER -> (IF "#" \in d.flags \/ p = 1 THEN WithPoint(d, cg.digits, p - 1)
                               ELSE Trimmed(WithPoint(d, cg.digits, p - 1))) \o ExpText(d, cg.exp)
    IN  Field(d, d.num, Sign(d, x.negative), << >>, body, "0" \in d.flags)

(***************************************************************************)
(* Properties.                                                             *)
(***************************************************************************)
Fits(t) == Len(t) <= BufferSize
PairSplit(args) == \E i \in 1..Len(args) :
    /\ args[i].type = "float" /\ args[i].size = 2
    /\ Passed(args)[i].area = "stack"

\* printf.c: a conversion yields the text the C standard asks for, whatever combination of
\* flags, width and precision it has, as long as the text fits the conversion buffer; snprintf
\* stores what fits, terminates it, writes nothing beyond and counts the whole; va_list.c: each
\* argument is found where the caller put it, unless a pair of doubles met a single register.
PrintfMeetsC ==
    /\ call.op = "printf" =>
          LET meant == IF "float" \in DOMAIN call.arg THEN CFloat(call.d, call.arg.float)
                       ELSE CInteger(call.d, call.arg.int)
          IN  Fits(meant) => answer = meant
    /\ call.op = "text" =>
          LET width == IF call.d.width = "*" THEN Abs(call.w) ELSE call.d.num
              left == "-" \in call.d.flags \/ (call.d.width = "*" /\ call.w < 0)
              shown == IF call.d.precision = "none" THEN call.str
                       ELSE SubSeq(call.str, 1, Lower(call.d.decimals, Len(call.str)))
              meant == CASE call.d.spec = "s" -> shown
                         [] call.d.spec = "c" -> <<"c">>
                         [] OTHER -> IF call.w = 0 THEN <<"(", "n", "i", "l", ")">>
                                     ELSE <<"0", "x">> \o AtLeast(Digits(Abs(call.w), 16, DigitText), PointerDigits)
              pad == Rep(" ", width - Len(meant))
          IN  /\ call.d.spec # "p" => answer.out = IF left THEN meant \o pad ELSE pad \o meant
              /\ call.d.spec = "p" => answer.out = meant
              /\ answer.ret = Len(answer.out) /\ answer.count = AsSigned(answer.ret, IntBits)
    /\ call.op = "snprintf" =>
          LET kept == Lower(call.n - 1, Len(call.text))
          IN  /\ answer.ret = Len(call.text)
              /\ \A i \in 1..(call.n + 1) :
                    answer.out[i] = IF i <= kept THEN call.text[i]
                                    ELSE IF i = kept + 1 /\ call.n > 0 THEN NUL ELSE answer.out[i]
              /\ answer.out[call.n + 1] = "old"
    /\ call.op = "sprintf" => answer.ret = Len(call.text) /\ SubSeq(answer.out, 1, answer.ret + 1) = Append(call.text, NUL)
    /\ (call.op = "va_arg" /\ ~PairSplit(call.args)) => answer = Passed(call.args)

\* The value of the longest run of digits in a string that is nothing but an optional sign,
\* an optional prefix and digits.
Plain(s, base) == /\ s # << >>
                  /\ LET i == IF s[1] \in {43, 45} THEN 2 ELSE 1
                     IN  i <= Len(s) /\ \A k \in i..Len(s) : N!digit_value(s[k]) \in 0..(base - 1)
Value(s, base) == LET i == IF s[1] \in {43, 45} THEN 2 ELSE 1
                      m == FoldLeft(LAMBDA n, c : n * base + N!digit_value(c), 0, SubSeq(s, i, Len(s)))
                  IN  IF s[1] = 45 THEN -m ELSE m

\* strtol.c, strto.c: a string that is a numeral of the base is converted to its value, or to
\* the nearest long with ERANGE exactly when the value is none, and is consumed to its end;
\* strtoul wraps a negative value and strtod gives the exact decimal.
NumbersParse ==
    /\ (call.op = "strtol" /\ call.base \in 2..36 /\ Plain(call.s, call.base)) =>
          LET v == Value(call.s, call.base)
          IN  /\ answer.end = Len(call.s) + 1
              /\ answer.errno = IF v \in N!LONG_MIN..N!LONG_MAX THEN "" ELSE "ERANGE"
              /\ answer.value = IF v > N!LONG_MAX THEN N!LONG_MAX
                                ELSE IF v < N!LONG_MIN THEN N!LONG_MIN ELSE v
    /\ (call.op = "strtoul" /\ call.base \in 2..36 /\ Plain(call.s, call.base)) =>
          LET v == Value(call.s, call.base)
          IN  answer.value = IF Abs(v) > N!ULONG_MAX THEN N!ULONG_MAX ELSE v % (N!ULONG_MAX + 1)
    /\ call.op = "strtod" =>
          LET whole == {i \in 1..Len(call.s) : call.s[i] = 46}
              exps == {i \in 1..Len(call.s) : call.s[i] = 101}
              e == IF exps = {} THEN Len(call.s) + 1 ELSE CHOOSE i \in exps : TRUE
              p == IF whole = {} THEN e ELSE CHOOSE i \in whole : TRUE
              digits == SubSeq(call.s, 1, p - 1) \o SubSeq(call.s, p + 1, e - 1)
              expo == SubSeq(call.s, e + 1, Len(call.s))
          IN  ((\A i \in whole : i < e - 1) /\ 45 \notin {call.s[i] : i \in 2..(e - 1)} /\ Plain(digits, 10) /\ (exps = {} \/ Plain(expo, 10))) =>
                  /\ answer.end = Len(call.s) + 1
                  /\ answer.mant = Value(digits, 10)
                  /\ answer.exp = (IF exps = {} THEN 0 ELSE Value(expo, 10))
                                  - (IF whole = {} THEN 0 ELSE e - 1 - p)

IsPrefixAt(t, s, i) == i + Len(t) - 1 <= Len(s) /\ SubSeq(s, i, i + Len(t) - 1) = t
Before(s, t) == \E k \in 1..(Len(t)) : /\ \A i \in 1..(k - 1) : S!At(s, i) = t[i]
                                       /\ k <= Len(s) + 1
                                       /\ S!At(s, k) < t[k]
Low(s) == \A i \in 1..Len(s) : s[i] < 128
Cut(s, n) == SubSeq(s, 1, Lower(n, Len(s)))

\* string.c strtok: the tokens handed out so far are, in order, the first of the longest runs
\* without a delimiter, and when it says there are no more they are all of them.
RunStarts(t) == {i \in 1..Len(t) : t[i] \notin Range(Delims) /\ (i = 1 \/ t[i - 1] \in Range(Delims))}
RunFrom(t, i) == LET ends == {j \in i..Len(t) : t[j] \in Range(Delims)}
                 IN  SubSeq(t, i, IF ends = {} THEN Len(t) ELSE (CHOOSE j \in ends : \A k \in ends : j <= k) - 1)
TokensPartition ==
        LET starts == SetToSortSeq(RunStarts(call.given), LAMBDA a, b : a < b)
        IN  /\ Len(answer) <= Len(starts)
            /\ \A k \in 1..Len(answer) : answer[k] = RunFrom(call.given, starts[k])
            /\ call.ended => Len(answer) = Len(starts)

\* ctype.c, wchar.c: the classes of a character are related as the C standard asks, the wide
\* functions agree with them on ASCII, and the binary search for a letter's other case finds
\* what the table holds.
ClassesMeetC ==
    LET ascii == call.c \in 0..127
        rule == RuleOf[call.c]
        listed == {i \in 1..Len(exceptions) : exceptions[i][1] = call.c % 256}
        used == IF rule.type < 2 THEN rule ELSE exceptions[CHOOSE i \in listed : TRUE][2]
    IN  CASE call.op = "class" ->
               LET cl == answer[1] IN
               /\ Cardinality(cl \cap {"cntrl", "punct", "digit", "upper", "lower"}) = IF call.c = 32 THEN 0 ELSE 1
               /\ ("print" \in cl) = ("cntrl" \notin cl) /\ ("graph" \in cl) = ("print" \in cl /\ call.c # 32)
               /\ ("alpha" \in cl) = (cl \cap {"upper", "lower"} # {}) /\ ("alnum" \in cl) = (cl \cap {"alpha", "digit"} # {})
               /\ ("blank" \in cl) => ("space" \in cl)
               /\ ("xdigit" \in cl) => ("alnum" \in cl)
               /\ answer[2] = (IF "lower" \in cl THEN call.c - 32 ELSE call.c)
               /\ answer[3] = (IF "upper" \in cl THEN call.c + 32 ELSE call.c)
          [] call.op = "wclass" -> ascii => answer = Classes(call.c)
          [] OTHER -> call.c < TableEnd =>
               /\ (used.type = 0) => answer = <<call.c, call.c + used.delta>>
               /\ (used.type = 1) => answer = <<call.c + used.delta, call.c>>
               /\ (used.type = 2) => answer = <<call.c + 1, call.c - 1>>

\* string.c, qsort.c, stdlib.c: memmove copies as if through a second buffer, whichever way
\* source and destination overlap; comparisons order strings by their bytes, strcmp and strncmp
\* those with bytes below 0x80 only (they subtract signed chars); strncpy
\* writes n bytes, no more; searches find the first occurrence; sorting is a stable permutation;
\* the calls of strtok hand out the tokens of the string, each once.
StringsMeetC ==
    CASE call.op = "memmove" ->
           \A a \in 1..Len(call.m) :
               answer[a] = call.m[IF a \in call.dest..(call.dest + call.n - 1) THEN call.src + a - call.dest ELSE a]
      [] call.op = "memset" ->
           \A a \in 1..Len(call.m) :
               answer[a] = IF a \in call.dest..(call.dest + call.n - 1) THEN call.c ELSE call.m[a]
      [] call.op = "memcmp" -> (answer = 0) = (call.s = call.t) /\ (answer < 0) = Before(call.s, call.t)
      [] call.op = "strcmp" ->
           /\ (answer = 0) = (call.s = call.t)
           /\ (Low(call.s) /\ Low(call.t)) => (answer < 0) = Before(call.s, call.t)
      [] call.op = "strncmp" ->
           /\ (answer = 0) = (Cut(call.s, call.n) = Cut(call.t, call.n))
           /\ (Low(call.s) /\ Low(call.t)) => (answer < 0) = Before(Cut(call.s, call.n), Cut(call.t, call.n))
      [] call.op = "strncpy" -> \A i \in 1..4 : answer[i] = IF i > call.n THEN 9 ELSE S!At(call.s, i)
      [] call.op = "stpncpy" -> Len(call.s) < call.n =>
           \A i \in 1..4 : answer[i] = IF i > call.n THEN 9 ELSE S!At(call.s, i)
      [] call.op = "strcpy" -> S!StrAt(answer, 1) = call.s \o call.t
      [] call.op = "strcasecmp" ->
           LET lower(s) == [i \in 1..Len(s) |-> LowerCase[s[i]]]
           IN  (answer = 0) = (lower(call.s) = lower(call.t)) /\ (answer < 0) = Before(lower(call.s), lower(call.t))
      [] call.op = "strstr" -> call.s # << >> =>
           IF answer = S!Nowhere THEN \A i \in 1..Len(call.s) : ~IsPrefixAt(call.t, call.s, i)
           ELSE IsPrefixAt(call.t, call.s, answer) /\ \A i \in 1..(answer - 1) : ~IsPrefixAt(call.t, call.s, i)
      [] call.op = "spans" ->
           LET in == {i \in 1..Len(call.s) : call.s[i] \in Range(call.t)}
               out == (1..Len(call.s)) \ in
           IN  /\ out # {} => (answer[1] + 1 \in out /\ 1..answer[1] \subseteq in)
               /\ 1..answer[2] \subseteq out /\ answer[2] + 1 \in in \cup {Len(call.s) + 1}
               /\ answer[3] = (IF in = {} THEN S!Nowhere ELSE answer[2] + 1)
               /\ \A i \in 1..(answer[4] - 1) : call.s[i] # S!At(call.t, 1)
               /\ S!At(call.s, answer[4]) \in {S!At(call.t, 1), 0}
      [] call.op = "getenv" -> answer = <<IF IsPrefixAt(Append(call.s, 2), call.t, 1) THEN 1 ELSE 2, Len(call.s) + 2>>
      [] call.op = "qsort" ->
           \A i, j \in 1..Len(call.s) : i < j =>
               \/ call.s[answer[i]] < call.s[answer[j]]
               \/ call.s[answer[i]] = call.s[answer[j]] /\ answer[i] < answer[j]
      [] call.op = "token" -> TokensPartition
      [] call.op = "strlen" -> answer = Len(call.s)
      [] call.op \in {"class", "wclass", "case"} -> ClassesMeetC
      [] call.op = "calloc" -> call.size < 2^LongBits => \A i \in 1..call.size : answer[i] = 0
      [] call.op = "abs" -> answer \in {call.n, -call.n} /\ answer >= 0
      [] OTHER -> TRUE

\* The bytes UTF-8 encodes a character with.
Encode(c) ==
    CASE c < 128 -> <<c>>
      [] c \in 128..2047 -> <<192 + c \div 64, 128 + (c % 64)>>
      [] c \in 2048..65535 -> <<224 + c \div 4096, 128 + ((c \div 64) % 64), 128 + (c % 64)>>
      [] OTHER -> <<240 + c \div 262144, 128 + ((c \div 4096) % 64), 128 + ((c \div 64) % 64), 128 + (c % 64)>>

\* wchar.c: however the bytes are cut into pieces, the characters decoded so far encode back to
\* the bytes taken, but for those of a character that is not complete; an input that does is
\* never refused.
Valid == {FlattenSeq([i \in 1..Len(cs) |-> Encode(cs[i])]) : cs \in UNION {[1..n -> Chars] : n \in 0..2}}
DecodesUtf8 ==
    LET coded == FlattenSeq([i \in 1..Len(answer) |-> Encode(answer[i])])
        taken == SubSeq(call.given, 1, Len(call.given) - Len(call.left))
    IN  /\ call.op = "wide" =>
              IF call.failed THEN call.given \notin Valid
              ELSE IF call.state.remaining = 0 THEN coded = taken
              ELSE /\ IsPrefixAt(coded, taken, 1)
                   /\ Len(taken) = Len(coded) + call.state.length - call.state.remaining
        /\ call.op = "whole" =>
              IF call.ret = T!EILSEQ THEN call.given \notin Valid
              ELSE coded = call.given /\ call.ret = Len(answer)

\* stdio.c, dirent.c, pipes_and_files.c: reading by byte, line, item or directory entry, in any
\* order, gives the program the bytes of the file from where it last sought or wrote, each once;
\* what it writes is at the offset, which a write does not move, so that writes in a row cover
\* each other.
StreamInOrder ==
    call.op = "stream" /\ call.file.offset # IO!Halted =>
        /\ answer = SubSeq(call.file.data, call.from + 1, call.file.offset)
        /\ call.put = SubSeq(call.file.data, call.from + 1, call.from + Len(call.put))
=============================================================================
