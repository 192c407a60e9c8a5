----------------------------- MODULE KernString -----------------------------
(***************************************************************************)
(* The kernel's own string functions (kern_libc.c).  Memory is a function  *)
(* from addresses to bytes; strings lie in it, each with its terminator.   *)
(***************************************************************************)
EXTENDS Integers, SequencesExt

\* The offsets 0 to n - 1, from either end.
Ascending(n) == [i \in 1..n |-> i - 1]
Descending(n) == [i \in 1..n |-> n - i]

\* pdest[i] = psrc[i] for each offset in turn.
Move(m, dest, src, offsets) == FoldLeft(LAMBDA mem, i : [mem EXCEPT ![dest + i] = mem[src + i]], m, offsets)

memcpy(m, dest, src, n) == Move(m, dest, src, Ascending(n))
memmove(m, dest, src, n) == Move(m, dest, src, CASE src > dest -> Ascending(n)
                                                 [] src < dest -> Descending(n)
                                                 [] OTHER -> << >>)
memset(m, s, c, n) == FoldLeft(LAMBDA mem, i : [mem EXCEPT ![s + i] = c % 256], m, Ascending(n))
volatile_memset(m, s, c, n) == FoldLeft(LAMBDA mem, i : [mem EXCEPT ![s + i] = c % 256], m, Ascending(n))

\* The least offset at which a loop stops.
First(S) == CHOOSE i \in S : \A j \in S : i <= j
Offsets(m, s) == 0..(Len(m) - s)

strlen(m, s) == First({i \in Offsets(m, s) : m[s + i] = 0})
strcpy(m, dest, src) == Move(m, dest, src, Ascending(strlen(m, src) + 1))
\* A byte as a char, which is signed.
AsChar(b) == IF b < 128 THEN b ELSE b - 256
strcmp(m, a, b) == LET i == First({j \in Offsets(m, a) \cap Offsets(m, b) : m[a + j] # m[b + j] \/ m[a + j] = 0})
                   IN  AsChar(m[a + i]) - AsChar(m[b + i])
strncmp(m, a, b, n) ==
    LET stops == {j \in 0..(n - 1) \cap Offsets(m, a) \cap Offsets(m, b) : m[a + j] # m[b + j] \/ m[a + j] = 0}
    IN  IF stops = {} THEN 0 ELSE AsChar(m[a + First(stops)]) - AsChar(m[b + First(stops)])
memcmp(m, a, b, n) == LET stops == {j \in 0..(n - 1) : m[a + j] # m[b + j]}
                          i == First(stops)
                      IN  IF stops = {} THEN 0 ELSE IF m[a + i] < m[b + i] THEN -1 ELSE 1
bcmp(m, a, b, n) == memcmp(m, a, b, n)

toupper(c) == IF c \in 97..122 THEN c - 32 ELSE c
\* Compared as an unsigned char.
tolower(c) == IF (c % 256) \in 65..90 THEN (c % 256) + 32 ELSE c
=============================================================================
