------------------------------ MODULE CString -------------------------------
(***************************************************************************)
(* The C library's functions on memory and strings (string.c, strings.c,   *)
(* qsort.c, parts of stdlib.c).  Memory is a function from addresses to    *)
(* bytes; a string that is only read is the sequence of its bytes, and a   *)
(* pointer into it an index, with Nowhere for NULL.  A function that reads *)
(* or writes past what it was given yields Overrun.                        *)
(***************************************************************************)
EXTENDS Integers, SequencesExt, FiniteSets

Nowhere == 0
Overrun == "overrun"

\* Byte by byte, each read from the memory the earlier ones left.
CopyUp(m, dest, src, n) == FoldLeft(LAMBDA mem, i : [mem EXCEPT ![dest + i - 1] = mem[src + i - 1]],
                                    m, [i \in 1..n |-> i])
CopyDown(m, dest, src, n) == FoldLeft(LAMBDA mem, i : [mem EXCEPT ![dest + n - i] = mem[src + n - i]],
                                      m, [i \in 1..n |-> i])
memcpy(m, dest, src, n) == CopyUp(m, dest, src, n)
\* Mutant: upwards, whichever way they overlap.
MutMoveUp(m, dest, src, n) == CopyUp(m, dest, src, n)
memmove(m, dest, src, n) == IF src > dest THEN CopyUp(m, dest, src, n)
                            ELSE IF src < dest THEN CopyDown(m, dest, src, n) ELSE m
memset(m, s, c, n) == [a \in DOMAIN m |-> IF a \in s..(s + n - 1) THEN c ELSE m[a]]

\* The string at an address, up to its terminator.
StrAt(m, a) == LET ends == {e \in DOMAIN m : e >= a /\ m[e] = 0}
                   e == CHOOSE x \in ends : \A y \in ends : x <= y
               IN  [i \in 1..(e - a) |-> m[a + i - 1]]

\* The byte of a string at index i, its terminator included.
At(s, i) == IF i <= Len(s) THEN s[i] ELSE 0
Index(S) == IF S = {} THEN Nowhere ELSE CHOOSE i \in S : \A j \in S : i <= j

Sgn(n) == IF n < 0 THEN -1 ELSE IF n > 0 THEN 1 ELSE 0
\* A byte as a char, which is signed.
AsChar(b) == IF b < 128 THEN b ELSE b - 256
\* The difference of the first chars that differ among the first n, the terminator included.
Difference(s, t, n) ==
    LET d == Index({i \in 1..n : At(s, i) # At(t, i) /\ \A j \in 1..(i - 1) : At(s, j) # 0})
    IN  IF d = Nowhere THEN 0 ELSE AsChar(At(s, d)) - AsChar(At(t, d))
memcmp(s, t, n) == LET d == Index({i \in 1..n : s[i] # t[i]})
                   IN  IF d = Nowhere THEN 0 ELSE Sgn(s[d] - t[d])
strcmp(s, t) == Difference(s, t, Len(s) + 1)
strncmp(s, t, n) == Difference(s, t, n)

\* toLower stands for ctype's tolower.
strcasecmp(s, t, toLower) ==
    LET both == 1..(IF Len(s) < Len(t) THEN Len(s) ELSE Len(t))
        d == Index({i \in both : toLower[s[i]] # toLower[t[i]]})
    IN  IF d # Nowhere THEN toLower[s[d]] - toLower[t[d]] ELSE At(s, Cardinality(both) + 1) - At(t, Cardinality(both) + 1)

strcpy(m, dest, s) == [a \in DOMAIN m |-> IF a \in dest..(dest + Len(s)) THEN At(s, a - dest + 1) ELSE m[a]]
strncpy(m, dest, s, n) == [a \in DOMAIN m |-> IF a \in dest..(dest + n - 1) THEN At(s, a - dest + 1) ELSE m[a]]
\* The second loop of stpncpy goes on from n - 1 = SIZE_MAX when the first one ran out of n.
stpncpy(m, dest, s, n) == IF Len(s) < n THEN strncpy(m, dest, s, n) ELSE [a \in DOMAIN m |-> Overrun]

\* A search that meets the terminator first finds it only when it is looked for.
strchr(s, c) == Index({i \in 1..(Len(s) + 1) : At(s, i) = c})
strchrnul(s, c) == Index({i \in 1..(Len(s) + 1) : At(s, i) \in {c, 0}})
\* strchr finds the terminator in accept too, so only another byte ends the span.
strspn(s, accept) == LET out == Index({i \in 1..Len(s) : strchr(accept, s[i]) = Nowhere})
                     IN  IF out = Nowhere THEN Overrun ELSE out - 1
strcspn(s, reject) == Index({i \in 1..(Len(s) + 1) : strchr(reject, At(s, i)) # Nowhere}) - 1
strpbrk(s, accept) == Index({i \in 1..Len(s) : \E j \in 1..Len(accept) : accept[j] = s[i]})
strstr(s, needle) ==
    Index({i \in 1..Len(s) : strncmp(needle, SubSeq(s, i, Len(s)), Len(needle)) = 0})

\* The entry NAME=value of the environment, and where the value begins in it; "=" is the byte eq.
getenv(environ, name, eq) ==
    LET i == Index({j \in 1..Len(environ) : strncmp(environ[j], name, Len(name)) = 0
                                            /\ At(environ[j], Len(name) + 1) = eq})
    IN  <<i, IF i = Nowhere THEN Nowhere ELSE Len(name) + 2>>

\* The block malloc gives, all zeros; the product of the sizes is taken in bits bits.
calloc(region, nmemb, size, bits) == memset(region, 1, 0, (nmemb * size) % 2^bits)
abs(j) == IF j < 0 THEN -j ELSE j

\* Insertion sort: item i moves left past the items greater than it.
Insert(arr, i, key) ==
    LET stop == IF \E k \in 1..(i - 1) : key[arr[k]] <= key[arr[i]]
                THEN CHOOSE k \in 1..(i - 1) : /\ key[arr[k]] <= key[arr[i]]
                                               /\ \A l \in (k + 1)..(i - 1) : key[arr[l]] > key[arr[i]]
                ELSE 0
    IN  [k \in DOMAIN arr |-> IF k <= stop \/ k > i THEN arr[k] ELSE IF k = stop + 1 THEN arr[i] ELSE arr[k - 1]]
qsort(arr, key) == FoldLeft(LAMBDA a, i : Insert(a, i, key), arr, [i \in 1..Len(arr) |-> i])

(***************************************************************************)
(* strtok: one call on the text it was given last.  next is the index in   *)
(* it where the next call goes on, Nowhere at the end.                     *)
(***************************************************************************)
\* Mutant: the next call begins at the terminator of this token.
MutStaysAtEnd(text, next, delimiters) ==
    LET start == Index({i \in next..Len(text) : strchr(delimiters, text[i]) = Nowhere})
        end == Index({i \in start..(Len(text) + 1) : strchr(delimiters, At(text, i)) # Nowhere})
    IN  IF next = Nowhere \/ At(text, next) = 0 THEN [text |-> text, next |-> next, token |-> << >>]
        ELSE IF start = Nowhere THEN [text |-> text, next |-> Nowhere, token |-> << >>]
        ELSE [text |-> IF end > Len(text) THEN text ELSE [text EXCEPT ![end] = 0],
              next |-> IF end > Len(text) THEN Nowhere ELSE end,
              token |-> SubSeq(text, start, end - 1)]
strtok(text, next, delimiters) ==
    LET start == Index({i \in next..Len(text) : strchr(delimiters, text[i]) = Nowhere})
        end == Index({i \in start..(Len(text) + 1) : strchr(delimiters, At(text, i)) # Nowhere})
    IN  IF next = Nowhere \/ At(text, next) = 0 THEN [text |-> text, next |-> next, token |-> << >>]
        ELSE IF start = Nowhere THEN [text |-> text, next |-> Nowhere, token |-> << >>]
        ELSE [text |-> IF end > Len(text) THEN text ELSE [text EXCEPT ![end] = 0],
              next |-> IF end > Len(text) THEN Nowhere ELSE end + 1,
              token |-> SubSeq(text, start, end - 1)]
=============================================================================
