------------------------------- MODULE CType --------------------------------
(***************************************************************************)
(* Classes of characters (ctype.c) and of wide characters (wchar.c), and   *)
(* the change of case, a two-level table of rules with a binary search in  *)
(* its exceptions.  The tables of letters, punctuation and rules are       *)
(* constants.                                                              *)
(***************************************************************************)
EXTENDS Integers, SequencesExt

CONSTANTS alpha_table, punct_table,  \* the characters whose bit is set
          RuleOf,      \* character below TableEnd -> its rule
          exceptions,  \* << <<low byte, rule>>, ... >>, in order of the byte
          TableEnd     \* 0x20000

isupper(c) == c \in 65..90
islower(c) == c \in 97..122
isalpha(c) == isupper(c) \/ islower(c)
isdigit(c) == c \in 48..57
isalnum(c) == isalpha(c) \/ isdigit(c)
isascii(c) == c \in 0..127
isblank(c) == c \in {32, 9}
iscntrl(c) == c \in 0..31 \cup {127}
isgraph(c) == c \in 33..126
isprint(c) == c \in 32..126
ispunct(c) == isprint(c) /\ c # 32 /\ ~isalnum(c)
isspace(c) == c \in {32} \cup 9..13
isxdigit(c) == isdigit(c) \/ c \in 97..102 \/ c \in 65..70

(***************************************************************************)
(* Wide characters.                                                        *)
(***************************************************************************)
iswdigit(wc) == wc \in 48..57
iswalpha(wc) == IF wc < TableEnd THEN wc \in alpha_table ELSE wc < 196606
iswalnum(wc) == iswdigit(wc) \/ iswalpha(wc)
iswblank(wc) == wc \in {9, 32, 5760, 6158, 8192, 8198, 8200, 8202, 8287, 12288}
iswcntrl(wc) == wc < 32 \/ wc \in 127..159 \/ wc \in {8232, 8233} \/ wc \in 65529..65531
\* Below 255 the bit pattern of wc + 1 tells; then all but the line separators, surrogates and
\* non-characters.
iswprint(wc) ==
    CASE wc < 255 -> (wc + 1) % 128 >= 33
      [] wc \in 255..8231 \/ wc \in 8234..55295 \/ wc \in 57344..65528 -> TRUE
      [] OTHER -> wc \in 65532..1114111 /\ wc % 65536 < 65534
iswpunct(wc) == wc < TableEnd /\ wc \in punct_table
iswxdigit(wc) == wc \in 48..57 \/ wc \in 97..102 \/ wc \in 65..70

\* A rule of type 0 or 1 is a letter of that case; its delta leads to the other.
Follow(c, rule, dir) == IF rule.type # dir THEN c + rule.delta ELSE c

\* The exception for c among the xn from xb.  With one left that is below c neither changes.
Endless == -1
RECURSIVE Search(_, _, _, _, _)
Search(c0, c, xb, xn, dir) ==
    LET half == xn \div 2
        found == exceptions[xb + half + 1]
    IN  CASE xn = 0 -> c0
          [] xn > 0 /\ found[1] = c ->
                IF found[2].type < 2 THEN Follow(c0, found[2], dir) ELSE c0 + (IF dir = 1 THEN -1 ELSE 1)
          [] xn > 0 /\ found[1] > c -> Search(c0, c, xb, half, dir)
          [] OTHER -> IF half = 0 THEN Endless ELSE Search(c0, c, xb + half, xn - half, dir)

casemap(c, dir) ==
    IF c >= TableEnd THEN c
    ELSE LET rule == RuleOf[c]
         IN  IF rule.type < 2 THEN Follow(c, rule, dir) ELSE Search(c, c % 256, rule.base, rule.count, dir)
towlower(wc) == casemap(wc, 0)
towupper(wc) == casemap(wc, 1)
iswlower(wc) == towupper(wc) # wc
iswupper(wc) == towlower(wc) # wc

wcslen(s) == (CHOOSE i \in 1..Len(s) : s[i] = 0 /\ \A j \in 1..(i - 1) : s[j] # 0) - 1
\* Where c is first found, 0 for nowhere; the terminator can be looked for.
wcschr(s, c) == LET found == {i \in 1..wcslen(s) : s[i] = c}
                IN  IF c = 0 THEN wcslen(s) + 1
                    ELSE IF found = {} THEN 0 ELSE CHOOSE i \in found : \A j \in found : i <= j

spaces == <<32, 9, 10, 13, 11, 12, 133, 8192, 8193, 8194, 8195, 8196, 8197, 8198, 8200, 8201, 8202, 8232, 8233,
            8287, 12288, 0>>
iswspace(wc) == wc # 0 /\ wcschr(spaces, wc) # 0
iswgraph(wc) == ~iswspace(wc) /\ iswprint(wc)

\* The class a name stands for, and whether a character is in it.
wctype(name) == IF name \in {"alnum", "alpha", "blank", "cntrl", "digit", "graph", "lower", "print", "punct",
                             "space", "upper", "xdigit"} THEN name ELSE "none"
WEOF == -1
iswctype(wc, desc) ==
    /\ wc # WEOF
    /\ CASE desc = "alnum" -> iswalnum(wc) [] desc = "alpha" -> iswalpha(wc) [] desc = "blank" -> iswblank(wc)
         [] desc = "cntrl" -> iswcntrl(wc) [] desc = "digit" -> iswdigit(wc) [] desc = "graph" -> iswgraph(wc)
         [] desc = "lower" -> iswlower(wc) [] desc = "print" -> iswprint(wc) [] desc = "punct" -> iswpunct(wc)
         [] desc = "space" -> iswspace(wc) [] desc = "upper" -> iswupper(wc) [] OTHER -> iswxdigit(wc)

(***************************************************************************)
(* The restartable decoder of multibyte characters (wchar.c).  Bytes are   *)
(* integers 0..255; a conversion state is what mbstate_t holds.            *)
(***************************************************************************)
InitialShift == [remaining |-> 0, length |-> 0, buffer |-> 0]

EILSEQ == -1      \* (size_t)-1
Incomplete == -2  \* (size_t)-2
NoChar == -1      \* *output is left alone

\* Mutant: a character may have more bytes than it needs.
MutEncodable(length) == 0..1114111
\* The smallest and largest character that a sequence of the length may stand for.
Encodable(length) == CASE length = 2 -> 128..2047
                       [] length = 3 -> 2048..65535
                       [] length = 4 -> 65536..1114111
                       [] OTHER -> {}

\* The bytes up to the first that is no continuation or completes the character.
handle_continuation_bytes(input, state) ==
    LET Continues(i) == input[i] \in 128..191
        n == IF Len(input) < state.remaining THEN Len(input) ELSE state.remaining
        good == CHOOSE g \in 0..n : /\ \A i \in 1..g : Continues(i)
                                    /\ g < n => ~Continues(g + 1)
        taken == [state EXCEPT !.remaining = @ - good,
                               !.buffer = FoldLeft(LAMBDA b, c : b * 64 + (c % 64), @, SubSeq(input, 1, good))]
    IN  CASE good < n -> [ret |-> EILSEQ, state |-> taken, output |-> NoChar]
          [] good = n /\ taken.remaining > 0 -> [ret |-> Incomplete, state |-> taken, output |-> NoChar]
          [] OTHER -> IF taken.buffer \in Encodable(state.length)
                      THEN [ret |-> good, state |-> taken, output |-> taken.buffer]
                      ELSE [ret |-> EILSEQ, state |-> taken, output |-> NoChar]

\* The number of leading one bits of a byte.
LeadingOnes(b) == CHOOSE k \in 0..8 : /\ b >= 256 - 2^(8 - k)
                                      /\ k < 8 => b < 256 - 2^(7 - k)

mbrtowc(input, state) ==
    LET b == input[1]
        count == LeadingOnes(b)
        rest == handle_continuation_bytes(Tail(input),
                    [remaining |-> count - 1, length |-> count, buffer |-> b % 2^(7 - count)])
    IN  CASE input = << >> -> [ret |-> Incomplete, state |-> state, output |-> NoChar]
          [] input # << >> /\ state.remaining > 0 -> handle_continuation_bytes(input, state)
          [] input # << >> /\ state.remaining = 0 /\ b < 128 ->
                 [ret |-> IF b = 0 THEN 0 ELSE 1, state |-> state, output |-> b]
          [] input # << >> /\ state.remaining = 0 /\ b >= 128 /\ count \notin 2..4 ->
                 [ret |-> EILSEQ, state |-> InitialShift, output |-> NoChar]
          [] OTHER -> [rest EXCEPT !.ret = IF @ > 0 THEN @ + 1 ELSE @]

\* mbrtowc with a null input: back to the initial state, or an error in mid-character.
mbrtowc_reset(state) == IF state.remaining = 0 THEN [ret |-> 0, state |-> InitialShift]
                        ELSE [ret |-> EILSEQ, state |-> state]

\* The loop of mbsrtowcs takes on what mbrtowc made of the rest of the string.
Converted(s, r) ==
    CASE r.ret = EILSEQ -> [s EXCEPT !.on = FALSE, !.ret = EILSEQ, !.state = InitialShift]
      [] r.ret = 0 -> [s EXCEPT !.on = FALSE, !.state = r.state]
      [] OTHER -> [s EXCEPT !.ret = @ + 1, !.chars = Append(@, r.output), !.state = r.state,
                            !.left = SubSeq(@, r.ret + 1, Len(@))]
\* The characters of a whole string, at most len of them.  The state is reset on an error.
mbsrtowcs(input, len, state) ==
    FoldLeft(LAMBDA s, i : IF s.on THEN Converted(s, mbrtowc(s.left, s.state)) ELSE s,
             [on |-> TRUE, ret |-> 0, chars |-> << >>, state |-> state, left |-> Append(input, 0)],
             [i \in 1..len |-> i])
=============================================================================
