------------------------------ MODULE CNumber -------------------------------
(***************************************************************************)
(* strtol, strtoul and strtod of the C library.  A string is the sequence  *)
(* of its characters' codes; reading past its end meets the terminator, 0. *)
(* long has LongBits bits.  A floating point number is mant * 10^exp.      *)
(***************************************************************************)
EXTENDS Integers, SequencesExt

CONSTANT LongBits
LONG_MAX == 2^(LongBits - 1) - 1
LONG_MIN == -(2^(LongBits - 1))
ULONG_MAX == 2^LongBits - 1

Code(s, i) == IF i \in 1..Len(s) THEN s[i] ELSE 0
Spaces == {32} \cup 9..13
Digits == 48..57
isdigit(c) == c \in Digits
tolower(c) == IF c \in 65..90 THEN c + 32 ELSE c
digit_value(c0) == LET c == tolower(c0)
                   IN  IF c \in 48..57 THEN c - 48 ELSE IF c \in 97..122 THEN c - 97 + 10 ELSE -1

\* The first index from i whose character is not one of those accepted.
Past(s, i, accepted) == CHOOSE j \in i..(Len(s) + 1) : /\ Code(s, j) \notin accepted
                                                       /\ \A k \in i..(j - 1) : Code(s, k) \in accepted

\* Mutant: the magnitude wraps around.
MutWraps(r, d, base) == [r EXCEPT !.magnitude = (@ * base + d) % (ULONG_MAX + 1)]
\* One digit more: a magnitude that would leave unsigned long stays where it is.
Accumulate(r, d, base) ==
    IF r.overflow THEN r
    ELSE IF r.magnitude > (ULONG_MAX - d) \div base THEN [r EXCEPT !.overflow = TRUE]
    ELSE [r EXCEPT !.magnitude = @ * base + d]

\* The loop steps over a character before it looks at it: a character that ends the
\* number is behind the end it reports.
strto(s, base0) ==
    LET afterSpace == Past(s, 1, Spaces)
        signed == Code(s, afterSpace) \in {43, 45}
        begin == IF signed THEN afterSpace + 1 ELSE afterSpace
        hex == base0 = 0 /\ Code(s, begin) = 48 /\ tolower(Code(s, begin + 1)) = 120
        base == IF base0 # 0 THEN base0 ELSE IF hex THEN 16 ELSE IF Code(s, begin) = 48 THEN 8 ELSE 10
        first == IF hex THEN begin + 2 ELSE begin
        stop == Past(s, first, {c \in 1..255 : digit_value(c) \in 0..(base - 1)})
        digits == [i \in 1..(stop - first) |-> digit_value(s[first + i - 1])]
        r == FoldLeft(LAMBDA a, d : Accumulate(a, d, base), [overflow |-> FALSE, magnitude |-> 0], digits)
        current == IF Code(s, stop) = 0 THEN stop ELSE stop + 1
    IN  [overflow |-> r.overflow, magnitude |-> r.magnitude, sign |-> Code(s, afterSpace) = 45,
         end |-> IF current = first THEN 1 ELSE current]

strtol(s, base) ==
    LET r == strto(s, base)
        limit == IF r.sign THEN LONG_MAX + 1 ELSE LONG_MAX
    IN  IF base > 36 THEN [value |-> 0, errno |-> "EINVAL", end |-> 0]
        ELSE IF r.overflow \/ r.magnitude > limit
        THEN [value |-> IF r.sign THEN LONG_MIN ELSE LONG_MAX, errno |-> "ERANGE", end |-> r.end]
        ELSE [value |-> IF r.sign THEN -r.magnitude ELSE r.magnitude, errno |-> "", end |-> r.end]

strtoul(s, base) ==
    LET r == strto(s, base)
    IN  IF base > 36 THEN [value |-> 0, errno |-> "EINVAL", end |-> 0]
        ELSE IF r.overflow THEN [value |-> ULONG_MAX, errno |-> "ERANGE", end |-> r.end]
        ELSE [value |-> IF r.sign THEN (-r.magnitude) % (ULONG_MAX + 1) ELSE r.magnitude,
              errno |-> "", end |-> r.end]

(***************************************************************************)
(* strtod.                                                                 *)
(***************************************************************************)
Number(s, i, j) == FoldLeft(LAMBDA n, k : n * 10 + (s[k] - 48), 0, [k \in 1..(j - i) |-> i + k - 1])

\* The exponent behind an e: leading zeros are skipped, and the character that follows
\* them is taken for a digit unless it is the terminator.
Exponent(s, i) ==
    LET minus == Code(s, i) = 45
        p0 == IF Code(s, i) \in {43, 45} THEN i + 1 ELSE i
        p1 == Past(s, p0, {48})
        p2 == IF Code(s, p1) = 0 THEN p1 - 1 ELSE p1
        p3 == Past(s, p2 + 1, Digits)
        e == FoldLeft(LAMBDA n, k : n * 10 + (s[k] - 48), Code(s, p2) - 48,
                      [k \in 1..(p3 - p2 - 1) |-> p2 + k])
    IN  [digit |-> isdigit(Code(s, p0)), at |-> p0, end |-> p3, exp |-> IF minus THEN -e ELSE e]

strtod(s) ==
    LET p0 == Past(s, 1, Spaces)
        minus == Code(s, p0) = 45
        p1 == IF Code(s, p0) \in {43, 45} THEN p0 + 1 ELSE p0
        p2 == Past(s, p1, Digits)
        point == Code(s, p2) = 46
        p3 == IF point THEN Past(s, p2 + 1, Digits) ELSE p2
        decimals == IF point THEN p3 - p2 - 1 ELSE 0
        mag == Number(s, p1, p2) * 10^decimals + (IF point THEN Number(s, p2 + 1, p3) ELSE 0)
        mant == IF minus THEN -mag ELSE mag
        a == IF p2 > p1 \/ point THEN p3 ELSE 1
        x == Exponent(s, p3 + 1)
    IN  IF p2 = p1 /\ ~point THEN [mant |-> 0, exp |-> 0, end |-> 1]
        ELSE IF Code(s, p3) \notin {69, 101}
        THEN [mant |-> mant, exp |-> -decimals, end |-> IF isdigit(Code(s, p3 - 1)) THEN a ELSE 1]
        ELSE IF x.digit THEN [mant |-> mant, exp |-> x.exp - decimals, end |-> x.end]
        ELSE IF ~isdigit(Code(s, a - 1)) THEN [mant |-> mant, exp |-> -decimals, end |-> 1]
        ELSE IF Code(s, x.at) = 0 THEN [mant |-> mant, exp |-> -decimals, end |-> a]
        ELSE [mant |-> mant, exp |-> -decimals, end |-> x.at]
=============================================================================
