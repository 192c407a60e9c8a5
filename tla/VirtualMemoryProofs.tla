------------------------- MODULE VirtualMemoryProofs -------------------------
(***************************************************************************)
(* For every number of frames, table levels and table entries, and for any *)
(* layout of the user and kernel halves: no frame is shared or leaked, and *)
(* every space sees the same kernel half.                                  *)
(***************************************************************************)
EXTENDS VirtualMemory, SequenceTheorems, FiniteSetTheorems, WellFoundedInduction, TLAPS

-----------------------------------------------------------------------------
(* The loops of the model are functions of the number of rounds made.      *)

\* A set of numbers with 0 and every successor is all of them.
LEMMA Induction ==
  ASSUME NEW S \in SUBSET Nat, 0 \in S, \A n \in S : n + 1 \in S
  PROVE  \A n \in Nat : n \in S
<1> DEFINE R == {ss \in Nat \X Nat : ss[1] < ss[2]}
<1> DEFINE T == Nat \ S
<1>1. IsWellFoundedOn(R, Nat)
  BY NatLessThanWellFounded DEF OpToRel
<1>2. SUFFICES ASSUME T # {} PROVE FALSE
  OBVIOUS
<1>3. PICK x \in T : \A y \in T : <<y, x>> \notin R
  <2> HIDE DEF R
  <2> QED BY <1>1, <1>2, WFMin
<1>4. x \in Nat \ {0}
  BY <1>3
<1>5. x - 1 \in Nat /\ x - 1 < x /\ (x - 1) + 1 = x
  BY <1>4
<1>6. x - 1 \notin T
  <2>1. <<x - 1, x>> \in Nat \X Nat /\ <<x - 1, x>>[1] = x - 1 /\ <<x - 1, x>>[2] = x
    BY <1>4, <1>5
  <2> QED BY <1>3, <1>5, <2>1
<1> QED BY <1>3, <1>5, <1>6

\* Round k of each of the loops, from what the round before it left.
WalkStep(c, k, x) == IF x = None THEN None ELSE c.entry[x.addr][c.path[k]]
LoadStep(c, k, x) ==
    IF UserPages[k] \in c.others THEN allocate_ram_page(x, c.root, UserPages[k], FALSE) ELSE x
CloneStep(c, k, x) ==
    IF x # Crash /\ UserPages[k] \in c.pages THEN ClonePage(x, UserPages[k], c.from, c.to) ELSE x
Step(loop, c, k, x) ==
    IF loop = "walk" THEN WalkStep(c, k, x)
    ELSE IF loop = "map" THEN Descend(x, c[k])
    ELSE IF loop = "fill" THEN FillEntry(x, KernelStart + k - 1)
    ELSE IF loop = "load" THEN LoadStep(c, k, x)
    ELSE CloneStep(c, k, x)

\* g has what n rounds leave, one after another.
IsRun(g, loop, c, first, n) ==
    g = [k \in 0..n |-> IF k = 0 THEN first ELSE Step(loop, c, k, g[k - 1])]

\* Every loop can be run for as long as one likes.
LEMMA RunExists ==
  ASSUME NEW loop, NEW c, NEW first, NEW n \in Nat
  PROVE  \E g : IsRun(g, loop, c, first, n)
<1> DEFINE S == {m \in Nat : \E g : IsRun(g, loop, c, first, m)}
<1>1. 0 \in S
  <2>1. IsRun([k \in 0..0 |-> first], loop, c, first, 0)
    BY DEF IsRun
  <2> QED BY <2>1
<1>2. ASSUME NEW m \in S PROVE m + 1 \in S
  <2>1. PICK f : IsRun(f, loop, c, first, m)
    OBVIOUS
  <2> DEFINE g == [k \in 0..(m + 1) |-> IF k <= m THEN f[k] ELSE Step(loop, c, m + 1, f[m])]
  <2>2. \A k \in 0..m : f[k] = IF k = 0 THEN first ELSE Step(loop, c, k, f[k - 1])
    BY <2>1 DEF IsRun
  <2>3. \A k \in 0..(m + 1) : g[k] = IF k = 0 THEN first ELSE Step(loop, c, k, g[k - 1])
    <3> SUFFICES ASSUME NEW k \in 0..(m + 1)
                 PROVE  g[k] = IF k = 0 THEN first ELSE Step(loop, c, k, g[k - 1])
      OBVIOUS
    <3>1. CASE k = 0
      BY <2>2, <3>1
    <3>2. CASE k # 0
      <4>1. k - 1 \in 0..m /\ k - 1 \in 0..(m + 1) /\ g[k - 1] = f[k - 1]
        BY <3>2
      <4>2. CASE k <= m
        BY <2>2, <3>2, <4>1, <4>2
      <4>3. CASE k = m + 1
        BY <3>2, <4>1, <4>3
      <4> QED BY <4>2, <4>3
    <3> QED BY <3>1, <3>2
  <2>4. IsRun(g, loop, c, first, m + 1)
    <3>1. g = [k \in 0..(m + 1) |-> g[k]]
      OBVIOUS
    <3> HIDE DEF g
    <3> QED BY <2>3, <3>1 DEF IsRun
  <2> HIDE DEF g
  <2> QED BY <2>4
<1> HIDE DEF S
<1>3. S \in SUBSET Nat
  BY DEF S
<1>4. n \in S
  BY <1>1, <1>2, <1>3, Induction
<1> QED BY <1>4 DEF S

\* Round by round.
LEMMA RunStep ==
  ASSUME NEW g, NEW loop, NEW c, NEW first, NEW n \in Nat, IsRun(g, loop, c, first, n)
  PROVE  g[0] = first /\ \A k \in 1..n : g[k] = Step(loop, c, k, g[k - 1])
<1>1. 0 \in 0..n /\ \A k \in 1..n : k \in 0..n /\ k # 0
  OBVIOUS
<1> QED BY <1>1 DEF IsRun

\* Walk is such a run over the indices of the path.
LEMMA WalkRun ==
  ASSUME NEW r, NEW root, NEW p, Len(p) \in Nat
  PROVE  \E w : /\ IsRun(w, "walk", [entry |-> r.entry, path |-> p], Pte(root, TRUE), Len(p))
                /\ Walk(r, root, p) = w[Len(p)]
<1> DEFINE c == [entry |-> r.entry, path |-> p]
<1> DEFINE w[k \in 0..Len(p)] ==
            IF k = 0 THEN Pte(root, TRUE)
            ELSE IF w[k - 1] = None THEN None ELSE r.entry[w[k - 1].addr][p[k]]
<1>1. w = CHOOSE g : IsRun(g, "walk", c, Pte(root, TRUE), Len(p))
  BY DEF IsRun, Step, WalkStep
<1>2. IsRun(w, "walk", c, Pte(root, TRUE), Len(p))
  BY <1>1, RunExists
<1>3. Walk(r, root, p) = w[Len(p)]
  BY DEF Walk
<1> QED BY <1>2, <1>3

\* The last level of map_page, where the entry of the page is set.
MapEnd(s, a, f, x) ==
    IF s.ram = Crash \/ s.ram.entry[s.table][a[Levels]] # None THEN Crash
    ELSE [s.ram EXCEPT !.entry[s.table][a[Levels]] = Pte(f, x)]

\* map_page is a run over the levels above that one.
LEMMA MapRun ==
  ASSUME NEW r, NEW root, NEW a, NEW f, NEW x
  PROVE  \E d : /\ IsRun(d, "map", a, [ram |-> r, table |-> root], Levels - 1)
                /\ map_page(r, root, a, f, x) = MapEnd(d[Levels - 1], a, f, x)
<1> DEFINE d[k \in 0..(Levels - 1)] ==
            IF k = 0 THEN [ram |-> r, table |-> root] ELSE Descend(d[k - 1], a[k])
<1>1. d = CHOOSE g : IsRun(g, "map", a, [ram |-> r, table |-> root], Levels - 1)
  BY DEF IsRun, Step
<1>2. Levels - 1 \in Nat
  BY VirtualMemoryAssumption
<1>3. IsRun(d, "map", a, [ram |-> r, table |-> root], Levels - 1)
  BY <1>1, <1>2, RunExists
<1>4. map_page(r, root, a, f, x) = MapEnd(d[Levels - 1], a, f, x)
  BY DEF map_page, MapEnd
<1> HIDE DEF d
<1> QED BY <1>3, <1>4

\* fill_kernel_pml4 is one over the kernel's entries.
LEMMA FillRun ==
  ASSUME NEW r
  PROVE  \E m : /\ IsRun(m, "fill", 0, r, IndexCount - KernelStart)
                /\ fill_kernel_pml4(r) = m[IndexCount - KernelStart]
<1> DEFINE m[k \in 0..(IndexCount - KernelStart)] ==
            IF k = 0 THEN r ELSE FillEntry(m[k - 1], KernelStart + k - 1)
<1>1. m = CHOOSE g : IsRun(g, "fill", 0, r, IndexCount - KernelStart)
  BY DEF IsRun, Step
<1>2. IndexCount - KernelStart \in Nat
  BY VirtualMemoryAssumption
<1>3. IsRun(m, "fill", 0, r, IndexCount - KernelStart)
  BY <1>1, <1>2, RunExists
<1>4. fill_kernel_pml4(r) = m[IndexCount - KernelStart]
  BY DEF fill_kernel_pml4
<1> QED BY <1>3, <1>4

\* So are the pages a program is loaded with ...
LEMMA LoadRun ==
  ASSUME NEW r, NEW root, NEW others
  PROVE  \E m : /\ IsRun(m, "load", [root |-> root, others |-> others], r, Len(UserPages))
                /\ LoadPages(r, root, others) = m[Len(UserPages)]
<1> DEFINE c == [root |-> root, others |-> others]
<1> DEFINE m[k \in 0..Len(UserPages)] ==
            IF k = 0 THEN r
            ELSE IF UserPages[k] \in others
                 THEN allocate_ram_page(m[k - 1], root, UserPages[k], FALSE)
                 ELSE m[k - 1]
<1>1. m = CHOOSE g : IsRun(g, "load", c, r, Len(UserPages))
  BY DEF IsRun, Step, LoadStep
<1>2. Len(UserPages) \in Nat
  BY VirtualMemoryAssumption
<1>3. IsRun(m, "load", c, r, Len(UserPages))
  BY <1>1, <1>2, RunExists
<1>4. LoadPages(r, root, others) = m[Len(UserPages)]
  BY DEF LoadPages
<1> QED BY <1>3, <1>4

\* ... and those a fork copies.
LEMMA CloneRun ==
  ASSUME NEW r, NEW from, NEW to, NEW pages
  PROVE  \E m : /\ IsRun(m, "clone", [from |-> from, to |-> to, pages |-> pages], r, Len(UserPages))
                /\ ClonePages(r, from, to, pages) = m[Len(UserPages)]
<1> DEFINE c == [from |-> from, to |-> to, pages |-> pages]
<1> DEFINE m[k \in 0..Len(UserPages)] ==
            IF k = 0 THEN r
            ELSE IF m[k - 1] # Crash /\ UserPages[k] \in pages
                 THEN ClonePage(m[k - 1], UserPages[k], from, to)
                 ELSE m[k - 1]
<1>1. m = CHOOSE g : IsRun(g, "clone", c, r, Len(UserPages))
  BY DEF IsRun, Step, CloneStep
<1>2. Len(UserPages) \in Nat
  BY VirtualMemoryAssumption
<1>3. IsRun(m, "clone", c, r, Len(UserPages))
  BY <1>1, <1>2, RunExists
<1>4. ClonePages(r, from, to, pages) = m[Len(UserPages)]
  BY DEF ClonePages
<1> QED BY <1>3, <1>4

-----------------------------------------------------------------------------
(* Paths and walks.                                                        *)

\* The first k indices of a path or an address.
LEMMA Cut ==
  ASSUME NEW a, NEW k \in Nat, \A i \in 1..k : a[i] \in Index
  PROVE  /\ SubSeq(a, 1, k) \in Seq(Index) /\ Len(SubSeq(a, 1, k)) = k
         /\ \A j \in 1..k : SubSeq(a, 1, k)[j] = a[j]
<1>1. PICK v, o : o = 1 /\ v = SubSeq(a, o, k)
  OBVIOUS
<1>2. o \in Int /\ k \in Int /\ \A i \in o..k : a[i] \in Index
  BY <1>1
<1>3. /\ v \in Seq(Index) /\ Len(v) = IF o <= k THEN k - o + 1 ELSE 0
      /\ \A i \in 1..(k - o + 1) : v[i] = a[o + i - 1]
  BY <1>1, <1>2, SubSeqProperties
<1>4. k - 1 + 1 = k /\ (1 <= k \/ k = 0) /\ \A i \in 1..k : 1 + i - 1 = i
  OBVIOUS
<1>5. Len(v) = k
  BY <1>1, <1>3, <1>4
<1>6. \A i \in 1..k : v[i] = a[i]
  BY <1>1, <1>3, <1>4
<1> QED BY <1>1, <1>3, <1>5, <1>6, Zenon

\* Prefixes of addresses are paths.
LEMMA Prefix ==
  ASSUME NEW a \in Address, NEW k \in 0..Levels
  PROVE  /\ SubSeq(a, 1, k) \in Seq(Index) /\ Len(SubSeq(a, 1, k)) = k
         /\ \A j \in 1..k : SubSeq(a, 1, k)[j] = a[j]
<1>1. k \in Nat /\ \A i \in 1..k : a[i] \in Index
  BY VirtualMemoryAssumption DEF Address
<1> QED BY <1>1, Cut, Zenon

\* A path without its last index.
LEMMA FrontIs ==
  ASSUME NEW p \in Seq(Index), Len(p) > 0
  PROVE  /\ Front(p) \in Seq(Index) /\ Len(Front(p)) = Len(p) - 1
         /\ \A j \in 1..(Len(p) - 1) : Front(p)[j] = p[j]
<1>1. Len(p) - 1 \in Nat /\ \A i \in 1..(Len(p) - 1) : p[i] \in Index
  OBVIOUS
<1> QED BY <1>1, Cut, Zenon DEF Front

\* Two paths with the same indices are the same.
LEMMA SamePath ==
  ASSUME NEW p \in Seq(Index), NEW q \in Seq(Index), Len(p) = Len(q),
         \A j \in 1..Len(p) : p[j] = q[j]
  PROVE  p = q
BY SeqEqual

\* The empty path leads to the root.
LEMMA WalkEmpty ==
  ASSUME NEW r, NEW root
  PROVE  Walk(r, root, << >>) = Pte(root, TRUE)
<1>1. Len(<< >>) = 0
  OBVIOUS
<1>2. PICK w : /\ IsRun(w, "walk", [entry |-> r.entry, path |-> << >>], Pte(root, TRUE), 0)
               /\ Walk(r, root, << >>) = w[0]
  BY <1>1, WalkRun
<1> QED BY <1>2, RunStep

\* Any other leads to an entry of the table its front leads to.
LEMMA WalkFront ==
  ASSUME NEW r, NEW root, NEW p \in Seq(Index), Len(p) > 0
  PROVE  Walk(r, root, p) =
           IF Walk(r, root, Front(p)) = None THEN None
           ELSE r.entry[Walk(r, root, Front(p)).addr][p[Len(p)]]
<1> DEFINE n == Len(p)
           c == [entry |-> r.entry, path |-> p]
           e == [entry |-> r.entry, path |-> Front(p)]
<1>1. n \in Nat /\ n - 1 \in Nat /\ Len(Front(p)) = n - 1 /\ \A j \in 1..(n - 1) : Front(p)[j] = p[j]
  BY FrontIs
<1>2. PICK w : IsRun(w, "walk", c, Pte(root, TRUE), n) /\ Walk(r, root, p) = w[n]
  BY <1>1, WalkRun
<1>3. PICK v : IsRun(v, "walk", e, Pte(root, TRUE), n - 1) /\ Walk(r, root, Front(p)) = v[n - 1]
  BY <1>1, WalkRun
<1>4. w[0] = Pte(root, TRUE) /\ \A k \in 1..n : w[k] = WalkStep(c, k, w[k - 1])
  <2>1. IsRun(w, "walk", c, Pte(root, TRUE), n) /\ n \in Nat
    BY <1>1, <1>2
  <2> HIDE DEF n, c
  <2>2. w[0] = Pte(root, TRUE) /\ \A k \in 1..n : w[k] = Step("walk", c, k, w[k - 1])
    BY <2>1, RunStep
  <2> QED BY <2>2 DEF Step
<1>5. v[0] = Pte(root, TRUE) /\ \A k \in 1..(n - 1) : v[k] = WalkStep(e, k, v[k - 1])
  <2>1. IsRun(v, "walk", e, Pte(root, TRUE), n - 1) /\ n - 1 \in Nat
    BY <1>1, <1>3
  <2> HIDE DEF n, e
  <2>2. v[0] = Pte(root, TRUE) /\ \A k \in 1..(n - 1) : v[k] = Step("walk", e, k, v[k - 1])
    BY <2>1, RunStep
  <2> QED BY <2>2 DEF Step
<1> HIDE DEF n
<1> DEFINE S == {k \in Nat : k <= n - 1 => w[k] = v[k]}
<1>6. S \in SUBSET Nat /\ 0 \in S
  BY <1>4, <1>5
<1>7. ASSUME NEW k \in S PROVE k + 1 \in S
  <2> SUFFICES ASSUME k + 1 <= n - 1 PROVE w[k + 1] = v[k + 1]
    OBVIOUS
  <2>1. k + 1 \in 1..n /\ k + 1 \in 1..(n - 1) /\ (k + 1) - 1 = k /\ w[k] = v[k]
    BY <1>1
  <2>2. w[k + 1] = WalkStep(c, k + 1, w[k]) /\ v[k + 1] = WalkStep(e, k + 1, v[k])
    BY <1>4, <1>5, <2>1
  <2>3. WalkStep(c, k + 1, w[k]) = WalkStep(e, k + 1, w[k])
    BY <1>1, <2>1 DEF WalkStep
  <2> QED BY <2>1, <2>2, <2>3
<1> HIDE DEF S
<1>8. n - 1 \in S
  BY <1>1, <1>6, <1>7, Induction
<1>9. w[n - 1] = v[n - 1]
  BY <1>1, <1>8 DEF S
<1>10. n \in 1..n
  BY <1>1 DEF n
<1>11. w[n] = WalkStep(c, n, w[n - 1])
  BY <1>4, <1>10
<1> QED BY <1>2, <1>3, <1>9, <1>11 DEF WalkStep, n

\* A set of paths that has every front of its paths.
Closed(P) == \A p \in P : p \in Seq(Index) /\ (Len(p) > 0 => Front(p) \in P)

\* Two memories, or two roots, that agree on the entries met lead to the same.
LEMMA WalkAgree ==
  ASSUME NEW r, NEW n, NEW root, NEW P, Closed(P),
         \A p \in P : Len(p) > 0 /\ Walk(r, root, Front(p)) # None =>
             LET t == Walk(r, root, Front(p)).addr IN n.entry[t][p[Len(p)]] = r.entry[t][p[Len(p)]]
  PROVE  \A p \in P : Walk(n, root, p) = Walk(r, root, p)
<1> DEFINE S == {k \in Nat : \A p \in P : Len(p) = k => Walk(n, root, p) = Walk(r, root, p)}
<1>1. S \in SUBSET Nat /\ 0 \in S
  <2>1. ASSUME NEW p \in P, Len(p) = 0 PROVE Walk(n, root, p) = Walk(r, root, p)
    <3>1. p = << >>
      BY <2>1 DEF Closed
    <3> QED BY <3>1, WalkEmpty
  <2> QED BY <2>1
<1>2. ASSUME NEW k \in S PROVE k + 1 \in S
  <2> SUFFICES ASSUME NEW p \in P, Len(p) = k + 1 PROVE Walk(n, root, p) = Walk(r, root, p)
    OBVIOUS
  <2>1. p \in Seq(Index) /\ Len(p) > 0 /\ Front(p) \in P /\ Len(Front(p)) = k
    BY FrontIs DEF Closed
  <2>2. Walk(n, root, Front(p)) = Walk(r, root, Front(p))
    BY <2>1
  <2> QED BY <2>1, <2>2, WalkFront
<1> HIDE DEF S
<1>3. \A k \in Nat : k \in S
  BY <1>1, <1>2, Induction
<1> SUFFICES ASSUME NEW p \in P PROVE Walk(n, root, p) = Walk(r, root, p)
  OBVIOUS
<1>4. Len(p) \in Nat
  BY DEF Closed
<1> QED BY <1>3, <1>4 DEF S

-----------------------------------------------------------------------------
(* The nodes of the tree of tables.                                        *)

\* The paths of a space and of the kernel, with the empty one to the root.
UserTree == PathsTo(UserPages) \cup {<< >>}
KernelTree == KernelPaths \cup {<< >>}
TreeOf(root) == IF root = KernelRoot THEN KernelTree ELSE UserTree

\* p goes through q.
Extends(p, q) == Len(q) <= Len(p) /\ \A j \in 1..Len(q) : p[j] = q[j]

\* An address is the path to its page.
LEMMA Whole ==
  ASSUME NEW a \in Address
  PROVE  a \in Seq(Index) /\ Len(a) = Levels /\ SubSeq(a, 1, Levels) = a
<1>1. Levels \in Nat /\ Levels \in 0..Levels
  BY VirtualMemoryAssumption
<1>2. a \in Seq(Index) /\ Len(a) = Levels
  BY <1>1 DEF Address
<1>3. PICK v : v = SubSeq(a, 1, Levels)
  OBVIOUS
<1>4. v \in Seq(Index) /\ Len(v) = Levels /\ \A j \in 1..Levels : v[j] = a[j]
  BY <1>1, <1>3, Prefix
<1>5. v = a
  BY <1>2, <1>4, SamePath
<1> QED BY <1>2, <1>3, <1>5

\* Paths to pages are closed under fronts.
LEMMA PathFacts ==
  ASSUME NEW pages \in Seq(Address), NEW p \in PathsTo(pages)
  PROVE  /\ p \in Seq(Index) /\ Len(p) \in 1..Levels
         /\ Front(p) \in PathsTo(pages) \cup {<< >>}
         /\ \E a \in ToSet(pages) : a \in Address /\ p = SubSeq(a, 1, Len(p)) /\ p[1] = a[1]
<1>1. PICK a \in ToSet(pages), k \in 1..Levels : p = SubSeq(a, 1, k)
  BY DEF PathsTo
<1>2. a \in Address
  BY DEF ToSet
<1>3. k \in 0..Levels /\ k - 1 \in 0..Levels /\ 1 \in 1..k /\ Levels \in Nat
  BY VirtualMemoryAssumption
<1>4. p \in Seq(Index) /\ Len(p) = k /\ \A j \in 1..k : p[j] = a[j]
  BY <1>1, <1>2, <1>3, Prefix
<1>5. PICK q : q = SubSeq(a, 1, k - 1)
  OBVIOUS
<1>6. q \in Seq(Index) /\ Len(q) = k - 1 /\ \A j \in 1..(k - 1) : q[j] = a[j]
  BY <1>2, <1>3, <1>5, Prefix
<1>7. Front(p) = q
  <2>1. Len(p) > 0
    BY <1>3, <1>4
  <2>2. Front(p) \in Seq(Index) /\ Len(Front(p)) = k - 1 /\ \A j \in 1..(k - 1) : Front(p)[j] = p[j]
    BY <1>4, <2>1, FrontIs
  <2>3. \A j \in 1..(k - 1) : j \in 1..k
    BY <1>3
  <2>4. \A j \in 1..(k - 1) : Front(p)[j] = q[j]
    BY <1>4, <1>6, <2>2, <2>3
  <2> QED BY <1>6, <2>2, <2>4, SamePath
<1>8. q \in PathsTo(pages) \cup {<< >>}
  <2>1. CASE k = 1
    <3>1. Len(q) = 0
      BY <1>6, <2>1
    <3> QED BY <1>6, <3>1
  <2>2. CASE k # 1
    <3>1. k - 1 \in 1..Levels
      BY <1>3, <2>2
    <3> QED BY <1>5, <3>1 DEF PathsTo
  <2> QED BY <2>1, <2>2
<1>9. p = SubSeq(a, 1, Len(p)) /\ p[1] = a[1] /\ Len(p) \in 1..Levels
  BY <1>1, <1>3, <1>4
<1> QED BY <1>2, <1>4, <1>7, <1>8, <1>9

\* The addresses of the three lists.
LEMMA PagesAre ==
  /\ UserPages \in Seq(Address) /\ KernelHeap \in Seq(Address) /\ MmioPages \in Seq(Address)
  /\ \A a \in ToSet(UserPages) : a \in Address /\ a[1] \in Index \ KernelIndex
  /\ \A a \in ToSet(KernelHeap) \cup ToSet(MmioPages) : a \in Address /\ a[1] \in KernelIndex
<1> DEFINE U == {a \in Address : a[1] \notin KernelIndex}
           K == {a \in Address : a[1] \in KernelIndex}
<1>1. UserPages \in Seq(U) /\ KernelHeap \in Seq(K) /\ MmioPages \in Seq(K)
  BY VirtualMemoryAssumption
<1>2. U \subseteq Address /\ K \subseteq Address
  OBVIOUS
<1>3. \A a \in ToSet(UserPages) : a \in U
  BY <1>1 DEF ToSet
<1>4. \A a \in ToSet(KernelHeap) \cup ToSet(MmioPages) : a \in K
  BY <1>1 DEF ToSet
<1>5. \A a \in Address : a[1] \in Index
  BY VirtualMemoryAssumption DEF Address
<1> HIDE DEF U, K
<1>6. UserPages \in Seq(Address) /\ KernelHeap \in Seq(Address) /\ MmioPages \in Seq(Address)
  BY <1>1, <1>2
<1> QED BY <1>3, <1>4, <1>5, <1>6 DEF U, K

\* The trees of the spaces, and of the kernel.
LEMMA TreeFacts ==
  ASSUME NEW root, NEW p \in TreeOf(root)
  PROVE  /\ p \in Seq(Index) /\ Len(p) \in 0..Levels
         /\ Len(p) > 0 => Front(p) \in TreeOf(root)
         /\ Len(p) > 0 => (p[1] \in KernelIndex <=> root = KernelRoot)
<1>1. CASE p = << >>
  <2>1. Len(p) = 0 /\ p \in Seq(Index)
    BY <1>1
  <2> QED BY <2>1, VirtualMemoryAssumption
<1>2. CASE p # << >> /\ root # KernelRoot
  <2>1. p \in PathsTo(UserPages)
    BY <1>2 DEF TreeOf, UserTree
  <2> QED BY <1>2, <2>1, PathFacts, PagesAre DEF TreeOf, UserTree
<1>3. CASE p # << >> /\ root = KernelRoot
  <2>1. CASE p \in PathsTo(KernelHeap)
    BY <1>3, <2>1, PathFacts, PagesAre DEF TreeOf, KernelTree, KernelPaths
  <2>2. CASE p \in PathsTo(MmioPages)
    BY <1>3, <2>2, PathFacts, PagesAre DEF TreeOf, KernelTree, KernelPaths
  <2>3. CASE p \in {<<i>> : i \in KernelIndex}
    <3>1. PICK i \in KernelIndex : p = <<i>>
      BY <2>3
    <3>2. i \in Index
      BY VirtualMemoryAssumption DEF KernelIndex, Index
    <3>3. p \in Seq(Index) /\ Len(p) = 1 /\ p[1] = i
      BY <3>1, <3>2
    <3>4. Front(p) = << >>
      <4>1. Front(p) \in Seq(Index) /\ Len(Front(p)) = 0
        BY <3>3, FrontIs
      <4> QED BY <4>1
    <3> QED BY <1>3, <3>3, <3>4, VirtualMemoryAssumption DEF TreeOf, KernelTree
  <2> QED BY <1>3, <2>1, <2>2, <2>3 DEF TreeOf, KernelTree, KernelPaths
<1> QED BY <1>1, <1>2, <1>3

\* A node is a root with a path of its tree.
LEMMA NodeIs ==
  ASSUME NEW S \in SUBSET Frames
  PROVE  /\ \A n \in Nodes(S) : n = <<n[1], n[2]>> /\ n[1] \in S \cup {KernelRoot}
                                /\ n[2] \in TreeOf(n[1])
         /\ \A root \in S \cup {KernelRoot} : \A p \in TreeOf(root) : <<root, p>> \in Nodes(S)
<1>1. KernelRoot \notin S
  BY VirtualMemoryAssumption DEF Frames, KernelRoot
<1> QED BY <1>1 DEF Nodes, TreeOf, UserTree, KernelTree

\* Below an entry that leads nowhere there is nothing.
LEMMA DeadBelow ==
  ASSUME NEW r, NEW root, NEW q \in Seq(Index),
         \A p \in Seq(Index) : Len(p) = Len(q) + 1 /\ Extends(p, q) => Walk(r, root, p) = None
  PROVE  \A p \in Seq(Index) : Len(p) > Len(q) /\ Extends(p, q) => Walk(r, root, p) = None
<1> DEFINE S == {k \in Nat : \A p \in Seq(Index) :
                    Len(p) = Len(q) + 1 + k /\ Extends(p, q) => Walk(r, root, p) = None}
<1>1. S \in SUBSET Nat /\ 0 \in S
  OBVIOUS
<1>2. ASSUME NEW k \in S PROVE k + 1 \in S
  <2> SUFFICES ASSUME NEW p \in Seq(Index), Len(p) = Len(q) + 1 + (k + 1), Extends(p, q)
               PROVE  Walk(r, root, p) = None
    OBVIOUS
  <2>1. /\ Len(p) > 0 /\ Front(p) \in Seq(Index) /\ Len(Front(p)) = Len(q) + 1 + k
        /\ \A j \in 1..(Len(p) - 1) : Front(p)[j] = p[j]
    BY FrontIs
  <2>2. Extends(Front(p), q)
    BY <2>1 DEF Extends
  <2>3. Walk(r, root, Front(p)) = None
    BY <2>1, <2>2
  <2> QED BY <2>1, <2>3, WalkFront
<1> HIDE DEF S
<1>3. \A k \in Nat : k \in S
  BY <1>1, <1>2, Induction
<1> SUFFICES ASSUME NEW p \in Seq(Index), Len(p) > Len(q), Extends(p, q)
             PROVE  Walk(r, root, p) = None
  OBVIOUS
<1>4. Len(p) - Len(q) - 1 \in Nat /\ Len(p) = Len(q) + 1 + (Len(p) - Len(q) - 1)
  OBVIOUS
<1>5. Len(p) - Len(q) - 1 \in S
  BY <1>3, <1>4
<1> QED BY <1>4, <1>5 DEF S

-----------------------------------------------------------------------------
(* Filling one empty entry of a table that hangs in the tree.              *)

\* A table is a frame or the kernel's root.
LEMMA TableAt ==
  ASSUME NEW r \in Ram, NEW S \in SUBSET Frames, NEW E, Tree(r, S, E),
         NEW root \in S \cup {KernelRoot}, NEW p \in TreeOf(root),
         Walk(r, root, p) # None, Len(p) < Levels
  PROVE  /\ Walk(r, root, p).addr \in Frames \cup {KernelRoot}
         /\ Walk(r, root, p).addr \notin E \/ Walk(r, root, p).addr = KernelRoot
<1>1. <<root, p>> \in Nodes(S) /\ At(r, <<root, p>>) = Walk(r, root, p) /\ <<root, p>>[2] = p
  BY NodeIs DEF At
<1>2. /\ Walk(r, root, p).addr \in (r.used \ E) \cup {KernelRoot, Device}
      /\ Walk(r, root, p).addr = Device => Len(p) = Levels
  BY <1>1 DEF Tree
<1>3. r.used \subseteq Frames /\ Levels \in Nat /\ Len(p) \in Nat
  BY VirtualMemoryAssumption, TreeFacts DEF Ram
<1> QED BY <1>2, <1>3

\* Memory n is r with entry i of the table above node <<R, q>> set to frame f,
\* which was taken before or is new, or to a device.  No other node changes.
Fills(r, n, R, q, f, x) ==
    LET t == Walk(r, R, Front(q)).addr
        i == q[Len(q)]
    IN  /\ Walk(r, R, Front(q)) # None /\ r.entry[t][i] = None
        /\ n.entry[t][i] = Pte(f, x)
        /\ \A g \in Frames \cup {KernelRoot}, j \in Index :
              g # f /\ ~(g = t /\ j = i) => n.entry[g][j] = r.entry[g][j]
        /\ Len(q) < Levels => f \in Frames /\ n.entry[f] = Blank

\* Such a step in a tree: the path is one of the tree, and the frame hangs nowhere.
Enters(r, n, S, E, R, q, f, x) ==
    /\ r \in Ram /\ n \in Ram /\ S \in SUBSET Frames /\ Tree(r, S, E)
    /\ R \in S \cup {KernelRoot} /\ q \in TreeOf(R) /\ Len(q) > 0
    /\ f \in Frames \cup {Device} /\ x \in BOOLEAN /\ Fills(r, n, R, q, f, x)
    /\ f \in Frames => f \in E \/ f \notin r.used
    /\ f = Device => R = KernelRoot /\ Len(q) = Levels
    /\ n.used = r.used \cup ({f} \cap Frames)
    /\ \A g \in r.used : n.data[g] = r.data[g]

\* Every node but the new one leads where it led.
LEMMA FillsNode ==
  ASSUME NEW r, NEW n, NEW S, NEW E, NEW R, NEW q, NEW f, NEW x, Enters(r, n, S, E, R, q, f, x)
  PROVE  /\ Walk(n, R, q) = Pte(f, x) /\ Walk(r, R, q) = None
         /\ \A m \in Nodes(S) : m # <<R, q>> => At(n, m) = At(r, m)
<1>0. /\ r \in Ram /\ n \in Ram /\ S \in SUBSET Frames /\ Tree(r, S, E)
      /\ R \in S \cup {KernelRoot} /\ q \in TreeOf(R) /\ Len(q) > 0
      /\ f \in Frames \cup {Device} /\ x \in BOOLEAN /\ Fills(r, n, R, q, f, x)
      /\ f \in Frames => f \in E \/ f \notin r.used
      /\ f = Device => R = KernelRoot /\ Len(q) = Levels
      /\ n.used = r.used \cup ({f} \cap Frames)
  BY DEF Enters
<1> USE <1>0
<1> DEFINE t == Walk(r, R, Front(q)).addr
           i == q[Len(q)]
<1>1. /\ q \in Seq(Index) /\ Len(q) \in 1..Levels /\ Front(q) \in TreeOf(R)
      /\ Front(q) \in Seq(Index) /\ Len(Front(q)) = Len(q) - 1
      /\ \A j \in 1..(Len(q) - 1) : Front(q)[j] = q[j]
  <2>1. q \in Seq(Index) /\ Len(q) \in 0..Levels /\ Front(q) \in TreeOf(R)
    BY TreeFacts
  <2>2. Len(q) \in 1..Levels
    BY <2>1, VirtualMemoryAssumption
  <2> QED BY <2>1, <2>2, FrontIs
<1>2. Levels \in Nat /\ Len(q) \in Nat /\ Len(Front(q)) < Levels
  BY <1>1, VirtualMemoryAssumption
<1>3. t \in Frames \cup {KernelRoot}
  BY <1>1, <1>2, TableAt DEF Fills
<1>4. Walk(r, R, q) = None
  BY <1>1, WalkFront DEF Fills
<1>5. Pte(f, x) # None /\ Pte(f, x).addr = f
  <2>1. Frames \subseteq Int /\ Device \in Int
    BY DEF Frames, Device
  <2>2. Pte(f, x) \in [addr : Int, exec : BOOLEAN]
    BY <2>1 DEF Pte
  <2> QED BY <2>2, VirtualMemoryAssumption DEF Pte
<1>6. ASSUME NEW m \in Nodes(S), At(r, m) # None, Len(m[2]) < Levels
      PROVE  At(r, m).addr # f
  <2>1. At(r, m).addr \in (r.used \ E) \cup {KernelRoot, Device}
        /\ (At(r, m).addr = Device => Len(m[2]) = Levels)
    BY <1>6 DEF Tree
  <2>2. KernelRoot \notin Frames /\ KernelRoot # Device
    BY VirtualMemoryAssumption DEF Frames, KernelRoot, Device
  <2>3. Device \notin Frames
    BY VirtualMemoryAssumption DEF Frames, Device
  <2>4. r.used \subseteq Frames
    BY DEF Ram
  <2>5. Len(m[2]) \in Nat
    BY NodeIs, TreeFacts
  <2> QED BY <1>2, <1>6, <2>1, <2>2, <2>3, <2>4, <2>5
\* Paths that do not go through q.
<1>7. ASSUME NEW root \in S \cup {KernelRoot}, NEW p \in TreeOf(root), root # R \/ ~Extends(p, q)
      PROVE  Walk(n, root, p) = Walk(r, root, p)
  <2> DEFINE P == {v \in TreeOf(root) : root # R \/ ~Extends(v, q)}
  <2>1. Closed(P)
    <3> SUFFICES ASSUME NEW v \in P PROVE v \in Seq(Index) /\ (Len(v) > 0 => Front(v) \in P)
      BY DEF Closed
    <3>1. v \in Seq(Index) /\ (Len(v) > 0 => Front(v) \in TreeOf(root))
      BY TreeFacts
    <3>2. ASSUME Len(v) > 0, Extends(Front(v), q) PROVE Extends(v, q)
      <4>1. Len(Front(v)) = Len(v) - 1 /\ \A j \in 1..(Len(v) - 1) : Front(v)[j] = v[j]
        BY <3>1, <3>2, FrontIs
      <4> QED BY <1>2, <3>1, <3>2, <4>1 DEF Extends
    <3> QED BY <3>1, <3>2
  <2>2. ASSUME NEW v \in P, Len(v) > 0, Walk(r, root, Front(v)) # None
        PROVE  LET u == Walk(r, root, Front(v)).addr
               IN  n.entry[u][v[Len(v)]] = r.entry[u][v[Len(v)]]
    <3> DEFINE u == Walk(r, root, Front(v)).addr
    <3>1. /\ v \in Seq(Index) /\ Len(v) \in 1..Levels /\ Front(v) \in TreeOf(root)
          /\ Front(v) \in Seq(Index) /\ Len(Front(v)) = Len(v) - 1
          /\ \A j \in 1..(Len(v) - 1) : Front(v)[j] = v[j]
      BY <2>2, TreeFacts, FrontIs
    <3>2. Len(Front(v)) < Levels /\ v[Len(v)] \in Index
      BY <1>2, <3>1
    <3>3. u \in Frames \cup {KernelRoot}
      BY <2>2, <3>1, <3>2, TableAt
    <3>4. <<root, Front(v)>> \in Nodes(S) /\ <<R, Front(q)>> \in Nodes(S)
      BY <1>1, <3>1, NodeIs
    <3>5. u # f
      BY <1>6, <2>2, <3>2, <3>4 DEF At
    <3>6. ~(u = t /\ v[Len(v)] = i)
      <4> SUFFICES ASSUME u = t, v[Len(v)] = i PROVE FALSE
        OBVIOUS
      <4>1. Device \notin Frames \cup {KernelRoot}
        BY VirtualMemoryAssumption DEF Frames, KernelRoot, Device
      <4>2. <<root, Front(v)>> = <<R, Front(q)>>
        BY <1>3, <2>2, <3>4, <4>1 DEF Tree, At, Fills
      <4>3. root = R /\ Front(v) = Front(q)
        BY <4>2
      <4>4. Len(v) = Len(q)
        BY <1>1, <1>2, <3>1, <4>3
      <4>5. Extends(v, q)
        <5>1. ASSUME NEW j \in 1..Len(q) PROVE v[j] = q[j]
          <6>1. CASE j = Len(q)
            BY <4>4, <6>1
          <6>2. CASE j # Len(q)
            <7>1. j \in 1..(Len(q) - 1)
              BY <1>2, <6>2
            <7> QED BY <1>1, <3>1, <4>3, <4>4, <7>1
          <6> QED BY <6>1, <6>2
        <5> QED BY <1>2, <4>4, <5>1 DEF Extends
      <4> QED BY <4>3, <4>5
    <3> QED BY <3>2, <3>3, <3>5, <3>6 DEF Fills
  <2> HIDE DEF P
  <2>3. \A v \in P : Walk(n, root, v) = Walk(r, root, v)
    BY <2>1, <2>2, WalkAgree
  <2>4. p \in P
    BY <1>7 DEF P
  <2> QED BY <2>3, <2>4
<1>8. Walk(n, R, Front(q)) = Walk(r, R, Front(q))
  <2>1. ~Extends(Front(q), q)
    BY <1>1, <1>2 DEF Extends
  <2> QED BY <1>1, <1>7, <2>1
<1>9. Walk(n, R, q) = Pte(f, x)
  BY <1>1, <1>8, WalkFront DEF Fills
\* Paths that go on behind q lead nowhere, before and after.
<1>10. ASSUME NEW p \in TreeOf(R), Extends(p, q), p # q
       PROVE  Walk(n, R, p) = None /\ Walk(r, R, p) = None
  <2>1. p \in Seq(Index) /\ Len(p) \in 0..Levels
    BY TreeFacts
  <2>2. Len(p) > Len(q)
    <3>1. Len(p) # Len(q)
      BY <1>1, <1>10, <2>1, SamePath DEF Extends
    <3> QED BY <1>2, <1>10, <2>1, <3>1 DEF Extends
  <2>3. f \in Frames /\ n.entry[f] = Blank
    BY <1>2, <2>1, <2>2 DEF Fills
  <2>4. ASSUME NEW v \in Seq(Index), Len(v) = Len(q) + 1, Extends(v, q)
        PROVE  Walk(n, R, v) = None /\ Walk(r, R, v) = None
    <3>1. /\ Len(v) > 0 /\ Front(v) \in Seq(Index) /\ Len(Front(v)) = Len(q)
          /\ \A j \in 1..Len(q) : Front(v)[j] = v[j]
      <4>1. Len(v) > 0 /\ Len(v) - 1 = Len(q)
        BY <1>2, <2>4
      <4> QED BY <4>1, FrontIs
    <3>2. Front(v) = q
      BY <1>1, <2>4, <3>1, SamePath DEF Extends
    <3>3. v[Len(v)] \in Index
      BY <3>1
    <3>4. Blank[v[Len(v)]] = None
      BY <3>3 DEF Blank
    <3> QED BY <1>4, <1>5, <1>9, <2>3, <3>1, <3>2, <3>4, WalkFront
  <2>5. \A v \in Seq(Index) : Len(v) > Len(q) /\ Extends(v, q) => Walk(n, R, v) = None
    BY <1>1, <2>4, DeadBelow
  <2>6. \A v \in Seq(Index) : Len(v) > Len(q) /\ Extends(v, q) => Walk(r, R, v) = None
    BY <1>1, <2>4, DeadBelow
  <2> QED BY <1>10, <2>1, <2>2, <2>5, <2>6
<1>11. ASSUME NEW m \in Nodes(S), m # <<R, q>> PROVE At(n, m) = At(r, m)
  <2>1. m = <<m[1], m[2]>> /\ m[1] \in S \cup {KernelRoot} /\ m[2] \in TreeOf(m[1])
    BY NodeIs
  <2>2. CASE m[1] = R /\ Extends(m[2], q)
    <3>1. m[2] # q
      BY <1>11, <2>1, <2>2
    <3> QED BY <1>10, <2>1, <2>2, <3>1 DEF At
  <2>3. CASE ~(m[1] = R /\ Extends(m[2], q))
    BY <1>7, <2>1, <2>3 DEF At
  <2> QED BY <2>2, <2>3
<1> QED BY <1>4, <1>9, <1>11

\* Where the specification's actions find and leave memory, with the frames E
\* taken and the tables on the paths X not yet used.
Growing(r, S, E, X) ==
    /\ r \in Ram /\ Tree(r, S, E) /\ SharesKernelHalf(r, S) /\ NoUserHalf(r)
    /\ TablesLeadToPages(r, S, X)

\* The frame is in place, and everything else stays where it is.
LEMMA FillsTree ==
  ASSUME NEW r, NEW n, NEW S, NEW E, NEW R, NEW q, NEW f, NEW x, Enters(r, n, S, E, R, q, f, x)
  PROVE  Tree(n, S, E \ {f})
<1>0. /\ r \in Ram /\ n \in Ram /\ S \in SUBSET Frames /\ Tree(r, S, E)
      /\ R \in S \cup {KernelRoot} /\ q \in TreeOf(R) /\ Len(q) > 0
      /\ f \in Frames \cup {Device} /\ x \in BOOLEAN /\ Fills(r, n, R, q, f, x)
      /\ f \in Frames => f \in E \/ f \notin r.used
      /\ f = Device => R = KernelRoot /\ Len(q) = Levels
      /\ n.used = r.used \cup ({f} \cap Frames)
  BY DEF Enters
<1> USE <1>0
<1>1. /\ Walk(n, R, q) = Pte(f, x) /\ Walk(r, R, q) = None
      /\ \A m \in Nodes(S) : m # <<R, q>> => At(n, m) = At(r, m)
  BY FillsNode
<1> DEFINE new == <<R, q>>
<1>2. /\ new \in Nodes(S) /\ new[1] = R /\ new[2] = q
      /\ At(n, new) = Pte(f, x) /\ At(n, new).addr = f /\ At(r, new) = None
  BY <1>1, NodeIs DEF At, Pte
<1>3. At(n, new) # None
  <2>1. Frames \subseteq Int /\ Device \in Int
    BY DEF Frames, Device
  <2>2. Pte(f, x) \in [addr : Int, exec : BOOLEAN]
    BY <2>1 DEF Pte
  <2> QED BY <1>2, <2>2, VirtualMemoryAssumption
<1> HIDE DEF new
<1>4. \A m \in Nodes(S) : m # new => At(n, m) = At(r, m)
  BY <1>1 DEF new
<1>5. r.used \subseteq Frames /\ KernelRoot \notin Frames /\ Device \notin Frames /\ KernelRoot # Device
  BY VirtualMemoryAssumption DEF Ram, Frames, KernelRoot, Device
<1>6. ASSUME NEW m \in Nodes(S), At(n, m) # None
      PROVE  /\ At(n, m).addr \in (n.used \ (E \ {f})) \cup {KernelRoot, Device}
             /\ At(n, m).addr = Device => m[1] = KernelRoot /\ Len(m[2]) = Levels
  <2>1. CASE m = new
    BY <1>2, <1>5, <2>1
  <2>2. CASE m # new
    BY <1>4, <1>6, <2>2 DEF Tree
  <2> QED BY <2>1, <2>2
<1>7. ASSUME NEW m \in Nodes(S), m # new, At(n, m) # None, At(n, m).addr = f
      PROVE  f = Device
  BY <1>4, <1>5, <1>7 DEF Tree
<1>8. ASSUME NEW m \in Nodes(S), NEW o \in Nodes(S), At(n, m) # None, At(n, o) # None,
             At(n, m).addr = At(n, o).addr
      PROVE  m = o \/ At(n, m).addr = Device
  <2>1. CASE m = new
    BY <1>2, <1>7, <1>8, <2>1
  <2>2. CASE o = new
    BY <1>2, <1>7, <1>8, <2>2
  <2>3. CASE m # new /\ o # new
    BY <1>4, <1>8, <2>3 DEF Tree
  <2> QED BY <2>1, <2>2, <2>3
<1>9. ASSUME NEW g \in n.used
      PROVE  g \in E \ {f} \/ \E m \in Nodes(S) : At(n, m) # None /\ At(n, m).addr = g
  <2>1. CASE g = f
    BY <1>2, <1>3, <2>1
  <2>2. CASE g # f /\ g \notin E
    <3>1. PICK m \in Nodes(S) : At(r, m) # None /\ At(r, m).addr = g
      BY <2>2 DEF Tree
    <3> QED BY <1>2, <1>4, <3>1
  <2> QED BY <2>1, <2>2
<1>10. E \ {f} \subseteq n.used
  BY DEF Tree
<1> QED BY <1>6, <1>8, <1>9, <1>10 DEF Tree

\* The halves of the roots are left alone, unless an entry of the kernel's root
\* itself is filled.
LEMMA FillsHalves ==
  ASSUME NEW r, NEW n, NEW S, NEW E, NEW R, NEW q, NEW f, NEW x, Enters(r, n, S, E, R, q, f, x),
         SharesKernelHalf(r, S), NoUserHalf(r), R \in S \/ Len(q) > 1
  PROVE  SharesKernelHalf(n, S) /\ NoUserHalf(n)
<1>0. /\ r \in Ram /\ n \in Ram /\ S \in SUBSET Frames /\ Tree(r, S, E)
      /\ R \in S \cup {KernelRoot} /\ q \in TreeOf(R) /\ Len(q) > 0
      /\ f \in Frames \cup {Device} /\ x \in BOOLEAN /\ Fills(r, n, R, q, f, x)
      /\ f \in Frames => f \in E \/ f \notin r.used
      /\ f = Device => R = KernelRoot /\ Len(q) = Levels
      /\ n.used = r.used \cup ({f} \cap Frames)
  BY DEF Enters
<1> USE <1>0
<1> DEFINE t == Walk(r, R, Front(q)).addr
           i == q[Len(q)]
<1>1. r.used \subseteq Frames /\ KernelRoot \notin Frames /\ Device \notin Frames /\ KernelRoot # Device
  BY VirtualMemoryAssumption DEF Ram, Frames, KernelRoot, Device
<1>2. /\ q \in Seq(Index) /\ Len(q) \in Nat /\ Front(q) \in TreeOf(R)
      /\ Len(Front(q)) = Len(q) - 1 /\ (q[1] \in KernelIndex <=> R = KernelRoot)
  BY TreeFacts, FrontIs
<1>3. ASSUME NEW s \in S \cup {KernelRoot}
      PROVE  /\ <<s, << >> >> \in Nodes(S) /\ At(r, <<s, << >> >>) # None
             /\ At(r, <<s, << >> >>).addr = s
  <2>1. << >> \in TreeOf(s)
    BY DEF TreeOf, UserTree, KernelTree
  <2>2. At(r, <<s, << >> >>) = Pte(s, TRUE)
    BY WalkEmpty DEF At
  <2>3. Pte(s, TRUE) \in [addr : Int, exec : BOOLEAN]
    BY DEF Pte, Frames, KernelRoot
  <2>4. Pte(s, TRUE) # None /\ Pte(s, TRUE).addr = s
    BY <2>3, VirtualMemoryAssumption DEF Pte
  <2>5. <<s, << >> >> \in Nodes(S)
    BY <2>1, NodeIs
  <2> QED BY <2>2, <2>4, <2>5
<1>4. ASSUME NEW s \in S \cup {KernelRoot} PROVE s # f
  <2>1. s \in (r.used \ E) \cup {KernelRoot, Device}
    BY <1>3 DEF Tree
  <2> QED BY <1>1, <2>1
<1>5. ASSUME NEW s \in S \cup {KernelRoot}, s = t PROVE s = R /\ s \in S /\ i \notin KernelIndex
  <2>1. <<R, Front(q)>> \in Nodes(S) /\ At(r, <<R, Front(q)>>) # None
        /\ At(r, <<R, Front(q)>>).addr = t
    BY <1>2, NodeIs DEF At, Fills
  <2>2. <<s, << >> >> = <<R, Front(q)>>
    <3>1. PICK m \in Nodes(S), o \in Nodes(S) : m = <<s, << >> >> /\ o = <<R, Front(q)>>
      BY <1>3, <2>1
    <3>2. At(r, m) # None /\ At(r, o) # None /\ At(r, m).addr = s /\ At(r, o).addr = s
      BY <1>3, <1>5, <2>1, <3>1
    <3>3. m = o \/ s = Device
      BY <3>2 DEF Tree
    <3> QED BY <1>1, <3>1, <3>3
  <2>3. s = R /\ Len(Front(q)) = 0
    BY <2>2
  <2>4. Len(q) = 1
    BY <1>2, <2>3
  <2> QED BY <1>1, <1>2, <2>3, <2>4
<1>6. ASSUME NEW s \in S \cup {KernelRoot}, NEW j \in Index, s # KernelRoot => j \in KernelIndex
      PROVE  n.entry[s][j] = r.entry[s][j]
  <2>1. s # f /\ ~(s = t /\ j = i) /\ s \in Frames \cup {KernelRoot}
    BY <1>1, <1>4, <1>5, <1>6
  <2> QED BY <2>1 DEF Fills
<1>7. KernelIndex \subseteq Index
  BY VirtualMemoryAssumption DEF KernelIndex, Index
<1>8. SharesKernelHalf(n, S)
  BY <1>6, <1>7 DEF SharesKernelHalf
<1>9. NoUserHalf(n)
  BY <1>6 DEF NoUserHalf
<1> QED BY <1>8, <1>9

\* A new table is on the path that is being made.
LEMMA FillsLeads ==
  ASSUME NEW r, NEW n, NEW S \in SUBSET Frames, NEW X, TablesLeadToPages(r, S, X),
         NEW R, NEW q, R = KernelRoot \/ <<R, q>> \in X,
         Walk(n, R, q) # None,
         \A m \in Nodes(S) : m # <<R, q>> => At(n, m) = At(r, m)
  PROVE  TablesLeadToPages(n, S, X)
<1> SUFFICES ASSUME NEW s \in S, NEW p \in PathsTo(UserPages), Walk(n, s, p) # None, <<s, p>> \notin X
             PROVE  \E a \in ToSet(UserPages) : SubSeq(a, 1, Len(p)) = p /\ Walk(n, s, a) # None
  BY DEF TablesLeadToPages
<1>1. KernelRoot \notin Frames
  BY VirtualMemoryAssumption DEF Frames, KernelRoot
<1>2. <<s, p>> # <<R, q>>
  BY <1>1
<1>3. <<s, p>> \in Nodes(S)
  BY DEF Nodes
<1>4. Walk(r, s, p) # None
  BY <1>2, <1>3 DEF At
<1>5. PICK a \in ToSet(UserPages) : SubSeq(a, 1, Len(p)) = p /\ Walk(r, s, a) # None
  BY <1>4 DEF TablesLeadToPages
<1>6. a \in PathsTo(UserPages)
  <2>1. a \in Address /\ Levels \in 1..Levels /\ Levels \in 0..Levels
    BY PagesAre, VirtualMemoryAssumption
  <2>2. SubSeq(a, 1, Levels) = a
    BY <2>1, Whole
  <2> QED BY <2>1, <2>2 DEF PathsTo
<1>7. <<s, a>> \in Nodes(S)
  BY <1>6 DEF Nodes
<1>8. Walk(n, s, a) # None
  BY <1>5, <1>7 DEF At
<1> QED BY <1>5, <1>8

-----------------------------------------------------------------------------
(* map_page: down the levels, with new tables where there are none.        *)

\* The nodes on the way to address a of the space at R.
WayTo(R, a) == IF R = KernelRoot THEN {} ELSE {<<R, SubSeq(a, 1, k)>> : k \in 1..Levels}

\* a is an address of the tree of R.
AddressOf(R, a) == a \in (IF R = KernelRoot THEN ToSet(KernelHeap) \cup ToSet(MmioPages)
                          ELSE ToSet(UserPages))

\* All of the way is in the tree.
LEMMA WayFacts ==
  ASSUME NEW R, NEW a, AddressOf(R, a), NEW k \in 1..Levels
  PROVE  /\ a \in Address /\ SubSeq(a, 1, k) \in TreeOf(R)
         /\ SubSeq(a, 1, k) \in Seq(Index) /\ Len(SubSeq(a, 1, k)) = k
         /\ SubSeq(a, 1, k)[k] = a[k] /\ Front(SubSeq(a, 1, k)) = SubSeq(a, 1, k - 1)
         /\ SubSeq(a, 1, k - 1) \in TreeOf(R) /\ a[k] \in Index
         /\ R # KernelRoot => <<R, SubSeq(a, 1, k)>> \in WayTo(R, a)
<1>1. a \in Address
  BY PagesAre DEF AddressOf
<1>2. k \in 0..Levels /\ k - 1 \in 0..Levels /\ k \in 1..k /\ Levels \in Nat
  BY VirtualMemoryAssumption
<1>3. PICK p, q : p = SubSeq(a, 1, k) /\ q = SubSeq(a, 1, k - 1)
  OBVIOUS
<1>4. p \in Seq(Index) /\ Len(p) = k /\ \A j \in 1..k : p[j] = a[j]
  BY <1>1, <1>2, <1>3, Prefix
<1>5. q \in Seq(Index) /\ Len(q) = k - 1 /\ \A j \in 1..(k - 1) : q[j] = a[j]
  BY <1>1, <1>2, <1>3, Prefix
<1>6. Front(p) = q
  <2>1. Len(p) > 0
    BY <1>2, <1>4
  <2>2. Front(p) \in Seq(Index) /\ Len(Front(p)) = k - 1 /\ \A j \in 1..(k - 1) : Front(p)[j] = p[j]
    BY <1>4, <2>1, FrontIs
  <2>3. \A j \in 1..(k - 1) : j \in 1..k
    BY <1>2
  <2>4. \A j \in 1..(k - 1) : Front(p)[j] = q[j]
    BY <1>4, <1>5, <2>2, <2>3
  <2> QED BY <1>5, <2>2, <2>4, SamePath
<1>7. p \in TreeOf(R)
  <2>1. \A pages : a \in ToSet(pages) => p \in PathsTo(pages)
    BY <1>3 DEF PathsTo
  <2> QED BY <2>1 DEF AddressOf, TreeOf, UserTree, KernelTree, KernelPaths
<1>8. q \in TreeOf(R)
  <2>1. Len(p) > 0
    BY <1>2, <1>4
  <2> QED BY <1>6, <1>7, <2>1, TreeFacts
<1>9. a[k] \in Index
  BY <1>1 DEF Address
<1>10. R # KernelRoot => <<R, p>> \in WayTo(R, a)
  BY <1>3 DEF WayTo
<1> QED BY <1>1, <1>2, <1>3, <1>4, <1>6, <1>7, <1>8, <1>9, <1>10

\* A user page is a frame, and no other page has it.
LEMMA PageAt ==
  ASSUME NEW r \in Ram, NEW S \in SUBSET Frames, NEW E, Tree(r, S, E), NEW s \in S,
         NEW a \in ToSet(UserPages), Walk(r, s, a) # None
  PROVE  /\ Walk(r, s, a).addr \in r.used /\ Walk(r, s, a).addr \in Frames
         /\ Walk(r, s, a).exec \in BOOLEAN /\ AddressOf(s, a) /\ <<s, a>> \in Nodes(S)
         /\ \A m \in Nodes(S) : At(r, m) # None /\ At(r, m).addr = Walk(r, s, a).addr => m = <<s, a>>
<1>1. KernelRoot \notin Frames /\ s # KernelRoot /\ Device \notin Frames
  BY VirtualMemoryAssumption DEF Frames, KernelRoot, Device
<1>2. AddressOf(s, a)
  BY <1>1 DEF AddressOf
<1>3. Levels \in 1..Levels /\ Levels \in Nat
  BY VirtualMemoryAssumption
<1>4. a \in TreeOf(s) /\ a \in Seq(Index) /\ Len(a) = Levels
  <2>1. a \in Address /\ a \in Seq(Index) /\ Len(a) = Levels /\ SubSeq(a, 1, Levels) = a
    BY PagesAre, Whole
  <2>2. SubSeq(a, 1, Levels) \in TreeOf(s)
    BY <1>2, <1>3, WayFacts
  <2> QED BY <2>1, <2>2
<1>5. PICK q : q = Front(a)
  OBVIOUS
<1>6. Len(a) > 0
  BY <1>3, <1>4
<1>7. q \in TreeOf(s) /\ Len(q) = Levels - 1
  BY <1>4, <1>5, <1>6, TreeFacts, FrontIs
<1>8. /\ Walk(r, s, q) # None
      /\ Walk(r, s, a) = r.entry[Walk(r, s, q).addr][a[Levels]]
  BY <1>4, <1>5, <1>6, WalkFront
<1>9. Walk(r, s, q).addr \in Frames \cup {KernelRoot}
  <2>1. Len(q) < Levels
    BY <1>3, <1>7
  <2> QED BY <1>7, <1>8, <2>1, TableAt
<1>10. a[Levels] \in Index
  BY <1>3, <1>4
<1>11. Walk(r, s, a) \in [addr : Frames \cup {Device}, exec : BOOLEAN]
  BY <1>8, <1>9, <1>10 DEF Ram
<1>12. PICK o : o = <<s, a>>
  OBVIOUS
<1>13. o \in Nodes(S) /\ At(r, o) = Walk(r, s, a) /\ o[1] = s
  BY <1>4, <1>12, NodeIs DEF At
<1>14. Walk(r, s, a).addr # Device
  BY <1>1, <1>13 DEF Tree
<1>15. Walk(r, s, a).addr \in (r.used \ E) \cup {KernelRoot, Device}
  BY <1>13 DEF Tree
<1>16. \A m \in Nodes(S) : At(r, m) # None /\ At(r, m).addr = Walk(r, s, a).addr => m = o
  BY <1>13, <1>14 DEF Tree
<1> QED BY <1>1, <1>2, <1>11, <1>12, <1>13, <1>14, <1>15, <1>16

\* In n the pages of the spaces S are what they were in r, apart from those in N.
Shows(r, n, S, N) ==
    \A s \in S, a \in ToSet(UserPages) : <<s, a>> \notin N =>
        /\ Walk(n, s, a) = Walk(r, s, a)
        /\ Walk(r, s, a) # None => n.data[Walk(r, s, a).addr] = r.data[Walk(r, s, a).addr]

\* Only the page at path p of the space at R may differ.
ShowsBut(r, n, S, R, p) == Shows(r, n, S, {<<R, p>>})

\* An entry that is filled shows at its own node only.
LEMMA EntersShows ==
  ASSUME NEW r, NEW n, NEW S, NEW E, NEW R, NEW q, NEW f, NEW x, Enters(r, n, S, E, R, q, f, x)
  PROVE  ShowsBut(r, n, S, R, q)
<1>1. r \in Ram /\ S \in SUBSET Frames /\ Tree(r, S, E) /\ \A g \in r.used : n.data[g] = r.data[g]
  BY DEF Enters
<1>2. \A m \in Nodes(S) : m # <<R, q>> => At(n, m) = At(r, m)
  BY FillsNode
<1> SUFFICES ASSUME NEW s \in S, NEW a \in ToSet(UserPages), <<s, a>> # <<R, q>>
             PROVE  /\ Walk(n, s, a) = Walk(r, s, a)
                    /\ Walk(r, s, a) # None => n.data[Walk(r, s, a).addr] = r.data[Walk(r, s, a).addr]
  BY DEF Shows, ShowsBut
<1>3. PICK o : o = <<s, a>>
  OBVIOUS
<1>4. o \in Nodes(S) /\ At(n, o) = Walk(n, s, a) /\ At(r, o) = Walk(r, s, a)
  <2>1. a \in PathsTo(UserPages)
    <3>1. a \in Address /\ Levels \in 1..Levels
      BY PagesAre, VirtualMemoryAssumption
    <3>2. SubSeq(a, 1, Levels) = a
      BY <3>1, Whole
    <3> QED BY <3>1, <3>2 DEF PathsTo
  <2> QED BY <1>3, <2>1 DEF Nodes, At
<1>5. Walk(n, s, a) = Walk(r, s, a)
  BY <1>2, <1>3, <1>4
<1>6. Walk(r, s, a) # None => Walk(r, s, a).addr \in r.used
  BY <1>1, PageAt
<1> QED BY <1>1, <1>5, <1>6

\* The kernel's root itself stays as it is, and new tables are on the paths X.
Allowed(S, X, R, q) == (R \in S \/ Len(q) > 1) /\ (R = KernelRoot \/ <<R, q>> \in X)

\* Whatever hangs in the tree keeps its place.
Keeps(r, n, S) == \A m \in Nodes(S) : At(r, m) # None => At(n, m) = At(r, m)

\* A new table under way.
LEMMA GrowTable ==
  ASSUME NEW r, NEW n, NEW S, NEW E, NEW X, NEW R, NEW q, NEW f, NEW x,
         Growing(r, S, E, X), Enters(r, n, S, E, R, q, f, x), Allowed(S, X, R, q)
  PROVE  /\ Growing(n, S, E \ {f}, X) /\ Walk(n, R, q) = Pte(f, x) /\ Pte(f, x) # None
         /\ Keeps(r, n, S) /\ ShowsBut(r, n, S, R, q) /\ Walk(r, R, q) = None
<1>1. /\ Walk(n, R, q) = Pte(f, x) /\ Walk(r, R, q) = None
      /\ \A m \in Nodes(S) : m # <<R, q>> => At(n, m) = At(r, m)
  BY FillsNode
<1>2. Tree(n, S, E \ {f})
  BY FillsTree
<1>3. SharesKernelHalf(n, S) /\ NoUserHalf(n)
  BY FillsHalves DEF Growing, Allowed
<1>4. n \in Ram /\ S \in SUBSET Frames
  BY DEF Enters
<1>5. Pte(f, x) # None
  <2>1. f \in Int /\ x \in BOOLEAN
    BY DEF Enters, Frames, Device
  <2>2. Pte(f, x) \in [addr : Int, exec : BOOLEAN]
    BY <2>1 DEF Pte
  <2> QED BY <2>2, VirtualMemoryAssumption
<1>6. TablesLeadToPages(n, S, X)
  BY <1>1, <1>4, <1>5, FillsLeads DEF Growing, Allowed
<1>7. Keeps(r, n, S)
  <2>1. At(r, <<R, q>>) = None
    BY <1>1 DEF At
  <2> QED BY <1>1, <2>1 DEF Keeps
<1>8. ShowsBut(r, n, S, R, q)
  BY EntersShows
<1> QED BY <1>1, <1>2, <1>3, <1>4, <1>5, <1>6, <1>7, <1>8 DEF Growing

\* The page at the end of the way: every table on it is used now.
LEMMA GrowPage ==
  ASSUME NEW r, NEW n, NEW S, NEW E, NEW R, NEW a, NEW f, NEW x, AddressOf(R, a),
         Growing(r, S, E, WayTo(R, a)), Enters(r, n, S, E, R, a, f, x)
  PROVE  /\ Growing(n, S, E \ {f}, {}) /\ Walk(n, R, a) = Pte(f, x) /\ Keeps(r, n, S)
         /\ ShowsBut(r, n, S, R, a) /\ Walk(r, R, a) = None
<1>1. /\ a \in Address /\ Levels \in 1..Levels /\ SubSeq(a, 1, Levels) = a /\ Len(a) = Levels
      /\ Levels > 1
  BY Whole, PagesAre, VirtualMemoryAssumption DEF AddressOf
<1>2. R = KernelRoot \/ <<R, a>> \in WayTo(R, a)
  BY <1>1 DEF WayTo
<1>3. /\ Growing(n, S, E \ {f}, WayTo(R, a)) /\ Walk(n, R, a) # None
      /\ Walk(n, R, a) = Pte(f, x) /\ Keeps(r, n, S)
      /\ ShowsBut(r, n, S, R, a) /\ Walk(r, R, a) = None
  <2>1. R \in S \/ Len(a) > 1
    BY <1>1
  <2>2. PICK X : X = WayTo(R, a)
    OBVIOUS
  <2>3. Growing(r, S, E, X) /\ Allowed(S, X, R, a)
    BY <1>2, <2>1, <2>2 DEF Allowed
  <2>4. /\ Growing(n, S, E \ {f}, X) /\ Walk(n, R, a) = Pte(f, x) /\ Pte(f, x) # None
        /\ Keeps(r, n, S) /\ ShowsBut(r, n, S, R, a) /\ Walk(r, R, a) = None
    BY <2>3, GrowTable
  <2> QED BY <2>2, <2>4
<1>4. TablesLeadToPages(n, S, {})
  <2> SUFFICES ASSUME NEW s \in S, NEW p \in PathsTo(UserPages), Walk(n, s, p) # None
               PROVE  \E b \in ToSet(UserPages) : SubSeq(b, 1, Len(p)) = p /\ Walk(n, s, b) # None
    BY DEF TablesLeadToPages
  <2>1. CASE <<s, p>> \in WayTo(R, a)
    <3>1. PICK k \in 1..Levels : s = R /\ p = SubSeq(a, 1, k) /\ R # KernelRoot
      BY <2>1 DEF WayTo
    <3>2. Len(p) = k
      BY <3>1, WayFacts
    <3> QED BY <1>3, <3>1, <3>2 DEF AddressOf
  <2>2. CASE <<s, p>> \notin WayTo(R, a)
    BY <1>3, <2>2 DEF Growing, TablesLeadToPages
  <2> QED BY <2>1, <2>2
<1> QED BY <1>3, <1>4 DEF Growing

\* malloc4k_phys gives out a free frame.
LEMMA FreeFrame ==
  ASSUME NEW r \in Ram, ~Full(r)
  PROVE  FirstFree(r) \in Frames \ r.used
<1> DEFINE R == {ss \in Nat \X Nat : ss[1] < ss[2]}
<1> DEFINE F == Frames \ r.used
<1>1. IsWellFoundedOn(R, Nat)
  BY NatLessThanWellFounded DEF OpToRel
<1>2. F \subseteq Nat /\ F # {}
  <2>1. Frames \subseteq Nat
    BY VirtualMemoryAssumption DEF Frames
  <2>2. r.used \subseteq Frames /\ r.used # Frames
    BY DEF Full, Ram
  <2> QED BY <2>1, <2>2
<1>3. PICK x \in F : \A y \in F : <<y, x>> \notin R
  <2> HIDE DEF R, F
  <2> QED BY <1>1, <1>2, WFMin
<1>4. \A y \in F : x <= y
  <2> SUFFICES ASSUME NEW y \in F PROVE x <= y
    OBVIOUS
  <2>1. x \in Nat /\ y \in Nat
    BY <1>2
  <2>2. ~(y < x)
    <3>1. <<y, x>> \in Nat \X Nat /\ <<y, x>>[1] = y /\ <<y, x>>[2] = x
      BY <2>1
    <3> QED BY <1>3, <3>1
  <2> QED BY <2>1, <2>2
<1>5. \E x_1 \in Frames \ r.used : \A y \in Frames \ r.used : x_1 <= y
  BY <1>3, <1>4
<1> QED BY <1>5 DEF FirstFree

\* One entry of one table set.
LEMMA SetEntry ==
  ASSUME NEW D, NEW I, NEW V, NEW e \in [D -> [I -> V]], NEW t \in D, NEW i \in I, NEW v \in V,
         NEW n, n = [e EXCEPT ![t][i] = v]
  PROVE  /\ n \in [D -> [I -> V]] /\ n[t][i] = v
         /\ \A g \in D : g # t => n[g] = e[g]
         /\ \A j \in I : j # i => n[t][j] = e[t][j]
<1>1. PICK w : w = [e[t] EXCEPT ![i] = v]
  OBVIOUS
<1>2. w \in [I -> V] /\ w[i] = v /\ \A j \in I : j # i => w[j] = e[t][j]
  BY <1>1
<1>3. n = [e EXCEPT ![t] = w]
  BY <1>1
<1> QED BY <1>2, <1>3

\* A call of setup_page_table_entry for entry i of the table t above node <<R, q>>.
SetsUp(r, n, S, E, R, q, t, i, f, x) ==
    /\ r \in Ram /\ S \in SUBSET Frames /\ Tree(r, S, E) /\ R \in S \cup {KernelRoot}
    /\ q \in TreeOf(R) /\ Len(q) > 0 /\ Len(q) < Levels
    /\ Walk(r, R, Front(q)) # None /\ t = Walk(r, R, Front(q)).addr
    /\ i = q[Len(q)] /\ f = FirstFree(r) /\ x = TRUE
    /\ n = setup_page_table_entry(r, t, i) /\ n # Crash

\* It enters a blank table.
LEMMA SetupEnters ==
  ASSUME NEW r, NEW n, NEW S, NEW E, NEW R, NEW q, NEW t, NEW i, NEW f, NEW x,
         SetsUp(r, n, S, E, R, q, t, i, f, x)
  PROVE  Enters(r, n, S, E, R, q, f, x) /\ f \notin E /\ n.entry[t][i] = Pte(f, x)
<1>0. /\ r \in Ram /\ S \in SUBSET Frames /\ Tree(r, S, E) /\ R \in S \cup {KernelRoot}
      /\ q \in TreeOf(R) /\ Len(q) > 0 /\ Len(q) < Levels
      /\ Walk(r, R, Front(q)) # None /\ n = setup_page_table_entry(r, t, i) /\ n # Crash /\ x = TRUE
  BY DEF SetsUp
<1> USE <1>0
<1>1. t = Walk(r, R, Front(q)).addr /\ i = q[Len(q)] /\ f = FirstFree(r)
  BY DEF SetsUp
<1>2. /\ ~Full(r) /\ r.entry[t][i] = None
      /\ n = [r EXCEPT !.used = @ \cup {f}, !.data[f] = Junk, !.entry[f] = Blank,
                       !.entry[t][i] = Pte(f, TRUE)]
  BY <1>1 DEF setup_page_table_entry
<1>3. f \in Frames \ r.used
  BY <1>1, <1>2, FreeFrame
<1>4. /\ Front(q) \in TreeOf(R) /\ Len(Front(q)) < Levels /\ i \in Index
  BY <1>1, TreeFacts, FrontIs, VirtualMemoryAssumption
<1>5. t \in Frames \cup {KernelRoot}
  BY <1>1, <1>4, TableAt
<1>6. t # f
  <2>1. <<R, Front(q)>> \in Nodes(S) /\ At(r, <<R, Front(q)>>) = Walk(r, R, Front(q))
    BY <1>4, NodeIs DEF At
  <2>2. t \in (r.used \ E) \cup {KernelRoot, Device}
    BY <1>1, <2>1 DEF Tree
  <2>3. KernelRoot \notin Frames /\ Device \notin Frames
    BY VirtualMemoryAssumption DEF Frames, KernelRoot, Device
  <2> QED BY <1>3, <2>2, <2>3
<1>7. /\ n.used = r.used \cup {f} /\ n.data = [r.data EXCEPT ![f] = Junk]
      /\ n.entry = [[r.entry EXCEPT ![f] = Blank] EXCEPT ![t][i] = Pte(f, TRUE)]
      /\ n = [used |-> n.used, entry |-> n.entry, data |-> n.data]
  BY <1>2 DEF Ram
<1>8. /\ r.used \in SUBSET Frames /\ r.data \in [Frames -> Values \cup {Junk}]
      /\ r.entry \in [Frames \cup {KernelRoot} ->
                        [Index -> [addr : Frames \cup {Device}, exec : BOOLEAN] \cup {None}]]
  BY DEF Ram
<1>9. Blank \in [Index -> [addr : Frames \cup {Device}, exec : BOOLEAN] \cup {None}]
      /\ Pte(f, TRUE) \in [addr : Frames \cup {Device}, exec : BOOLEAN]
  BY <1>3 DEF Blank, Pte
<1>10. /\ n.entry[t][i] = Pte(f, TRUE) /\ n.entry[f] = Blank
       /\ \A g \in Frames \cup {KernelRoot}, j \in Index :
             g # f /\ ~(g = t /\ j = i) => n.entry[g][j] = r.entry[g][j]
       /\ n.entry \in [Frames \cup {KernelRoot} ->
                           [Index -> [addr : Frames \cup {Device}, exec : BOOLEAN] \cup {None}]]
  <2>1. PICK D, V, e : /\ D = Frames \cup {KernelRoot}
                       /\ V = [addr : Frames \cup {Device}, exec : BOOLEAN] \cup {None}
                       /\ e = [r.entry EXCEPT ![f] = Blank]
    OBVIOUS
  <2>2. /\ e \in [D -> [Index -> V]] /\ e[f] = Blank /\ f \in D /\ t \in D /\ i \in Index
        /\ \A g \in D : g # f => e[g] = r.entry[g]
    BY <1>3, <1>4, <1>5, <1>8, <1>9, <2>1
  <2>3. Pte(f, TRUE) \in V /\ n.entry = [e EXCEPT ![t][i] = Pte(f, TRUE)]
    BY <1>7, <1>9, <2>1
  <2>4. /\ n.entry \in [D -> [Index -> V]] /\ n.entry[t][i] = Pte(f, TRUE)
        /\ \A g \in D : g # t => n.entry[g] = e[g]
        /\ \A j \in Index : j # i => n.entry[t][j] = e[t][j]
    <3>1. PICK w, v : w = n.entry /\ v = Pte(f, TRUE)
      OBVIOUS
    <3>2. v \in V /\ w = [e EXCEPT ![t][i] = v]
      BY <2>3, <3>1
    <3>3. /\ w \in [D -> [Index -> V]] /\ w[t][i] = v
          /\ \A g \in D : g # t => w[g] = e[g]
          /\ \A j \in Index : j # i => w[t][j] = e[t][j]
      BY <2>2, <3>2, SetEntry
    <3> QED BY <3>1, <3>3
  <2> QED BY <1>6, <2>1, <2>2, <2>4
<1>11. n \in Ram
  <2>1. n.used \in SUBSET Frames /\ n.data \in [Frames -> Values \cup {Junk}]
    BY <1>3, <1>7, <1>8
  <2> QED BY <1>7, <1>10, <2>1 DEF Ram
<1>12. Fills(r, n, R, q, f, TRUE)
  BY <1>1, <1>2, <1>3, <1>10 DEF Fills
<1>13. f # Device /\ f \notin E
  <2>1. Device \notin Frames
    BY VirtualMemoryAssumption DEF Frames, Device
  <2>2. E \subseteq r.used
    BY DEF Tree
  <2> QED BY <1>3, <2>1, <2>2
<1>14. n.used = r.used \cup ({f} \cap Frames)
  BY <1>3, <1>7
<1>15. Enters(r, n, S, E, R, q, f, TRUE)
  <2>1. \A g \in r.used : n.data[g] = r.data[g]
    BY <1>3, <1>7, <1>8
  <2> QED BY <1>3, <1>11, <1>12, <1>13, <1>14, <2>1 DEF Enters
<1> QED BY <1>1, <1>10, <1>13, <1>15

\* k levels down the way to a, from memory o.  The kernel half can be entered from any root.
Reached(o, s, S, E, R, a, k) ==
    \/ s.ram = Crash
    \/ /\ Growing(s.ram, S, E, WayTo(R, a)) /\ Keeps(o, s.ram, S) /\ Shows(o, s.ram, S, {})
       /\ \/ /\ Walk(s.ram, R, SubSeq(a, 1, k)) # None
             /\ s.table = Walk(s.ram, R, SubSeq(a, 1, k)).addr
          \/ k = 0 /\ R = KernelRoot /\ s.table \in S

\* One more level.
LEMMA DescendKeeps ==
  ASSUME NEW o, NEW s, NEW S \in SUBSET Frames, NEW E, NEW R \in S \cup {KernelRoot}, NEW a,
         AddressOf(R, a), NEW k \in 0..(Levels - 2), Reached(o, s, S, E, R, a, k)
  PROVE  Reached(o, Descend(s, a[k + 1]), S, E, R, a, k + 1)
<1>1. PICK q, p, i, l : q = SubSeq(a, 1, k + 1) /\ p = SubSeq(a, 1, k) /\ i = a[k + 1] /\ l = k + 1
  OBVIOUS
<1>2. l \in 1..Levels /\ l - 1 = k /\ l < Levels /\ Levels \in Nat
  BY <1>1, VirtualMemoryAssumption
<1>3. /\ q \in TreeOf(R) /\ q \in Seq(Index) /\ Len(q) = l /\ q[l] = i /\ Front(q) = p
      /\ p \in TreeOf(R) /\ i \in Index /\ (R # KernelRoot => <<R, q>> \in WayTo(R, a))
  <2>1. q = SubSeq(a, 1, l) /\ p = SubSeq(a, 1, l - 1) /\ i = a[l]
    BY <1>1, <1>2
  <2> QED BY <1>2, <2>1, WayFacts
<1>4. Len(q) > 0 /\ Len(q) < Levels
  BY <1>2, <1>3
<1>5. \A r : Walk(r, R, q) = IF Walk(r, R, p) = None THEN None ELSE r.entry[Walk(r, R, p).addr][i]
  BY <1>3, <1>4, WalkFront
<1>6. k = 0 /\ R = KernelRoot => i \in KernelIndex
  BY <1>1, PagesAre DEF AddressOf
<1>7. k = 0 => \A r : Walk(r, R, p) = Pte(R, TRUE) /\ Pte(R, TRUE) # None /\ Pte(R, TRUE).addr = R
  <2> SUFFICES ASSUME k = 0 PROVE \A r : Walk(r, R, p) = Pte(R, TRUE) /\ Pte(R, TRUE) # None
                                         /\ Pte(R, TRUE).addr = R
    OBVIOUS
  <2>1. p = << >>
    <3>1. p \in Seq(Index) /\ Len(p) = 0
      <4>1. Len(p) = l - 1
        BY <1>3, <1>4, FrontIs
      <4> QED BY <1>2, <1>3, <4>1, TreeFacts
    <3> QED BY <3>1
  <2>2. R \in Int
    BY DEF Frames, KernelRoot
  <2>3. Pte(R, TRUE) \in [addr : Int, exec : BOOLEAN] /\ Pte(R, TRUE).addr = R
    BY <2>2 DEF Pte
  <2> QED BY <2>1, <2>3, WalkEmpty, VirtualMemoryAssumption
<1>8. PICK r, t, n : r = s.ram /\ t = s.table /\ n = Descend(s, i)
  OBVIOUS
<1> SUFFICES Reached(o, n, S, E, R, a, l)
  BY <1>1, <1>8
<1>9. CASE r = Crash
  BY <1>8, <1>9 DEF Descend, Reached
<1>10. CASE r # Crash /\ r.entry[t][i] # None
  <2>1. n.ram = r /\ n.table = r.entry[t][i].addr
    BY <1>8, <1>10 DEF Descend
  <2>2. Growing(r, S, E, WayTo(R, a)) /\ Keeps(o, r, S) /\ Shows(o, r, S, {})
    BY <1>8, <1>10 DEF Reached
  <2>3. Walk(r, R, q) = r.entry[t][i]
    <3>1. CASE Walk(r, R, p) # None /\ t = Walk(r, R, p).addr
      BY <1>5, <3>1
    <3>2. CASE k = 0 /\ R = KernelRoot /\ t \in S
      <4>1. r.entry[t][i] = r.entry[KernelRoot][i]
        BY <1>6, <2>2, <3>2 DEF Growing, SharesKernelHalf
      <4> QED BY <1>5, <1>7, <3>2, <4>1
    <3> QED BY <1>1, <1>8, <1>10, <3>1, <3>2 DEF Reached
  <2> QED BY <1>1, <1>10, <2>1, <2>2, <2>3 DEF Reached
<1>11. CASE r # Crash /\ r.entry[t][i] = None
  <2>1. n.ram = setup_page_table_entry(r, t, i)
        /\ (n.ram # Crash => n.table = n.ram.entry[t][i].addr)
    BY <1>8, <1>11 DEF Descend
  <2>2. Growing(r, S, E, WayTo(R, a)) /\ Keeps(o, r, S) /\ Shows(o, r, S, {})
    BY <1>8, <1>11 DEF Reached
  <2>3. r \in Ram /\ Tree(r, S, E) /\ SharesKernelHalf(r, S)
    BY <2>2 DEF Growing
  <2>4. ~(k = 0 /\ R = KernelRoot /\ t \in S)
    BY <1>6, <1>11, <2>3 DEF SharesKernelHalf
  <2>5. Walk(r, R, p) # None /\ t = Walk(r, R, p).addr
    BY <1>1, <1>8, <1>11, <2>4 DEF Reached
  <2>6. ~(k = 0 /\ R = KernelRoot)
    BY <1>6, <1>7, <1>11, <2>3, <2>5 DEF SharesKernelHalf
  <2>7. CASE n.ram = Crash
    BY <2>7 DEF Reached
  <2>8. CASE n.ram # Crash
    <3>1. PICK m, f, X, b : m = n.ram /\ f = FirstFree(r) /\ X = WayTo(R, a) /\ b = TRUE
      OBVIOUS
    <3>2. /\ m = setup_page_table_entry(r, t, i) /\ m # Crash
          /\ Walk(r, R, Front(q)) # None /\ t = Walk(r, R, Front(q)).addr /\ i = q[Len(q)]
      BY <1>3, <2>1, <2>5, <2>8, <3>1
    <3>3. Enters(r, m, S, E, R, q, f, b) /\ f \notin E /\ m.entry[t][i] = Pte(f, b)
      <4>1. q \in TreeOf(R) /\ Len(q) > 0 /\ Len(q) < Levels
        BY <1>3, <1>4
      <4>2. SetsUp(r, m, S, E, R, q, t, i, f, b)
        BY <2>3, <3>1, <3>2, <4>1 DEF SetsUp
      <4> QED BY <4>2, SetupEnters
    <3>4. Allowed(S, X, R, q)
      <4>1. R \in S \/ Len(q) > 1
        BY <1>2, <1>3, <2>6
      <4> QED BY <1>3, <3>1, <4>1 DEF Allowed
    <3>5. /\ Growing(m, S, E \ {f}, X) /\ Walk(m, R, q) = Pte(f, b) /\ Pte(f, b) # None
          /\ Keeps(r, m, S) /\ ShowsBut(r, m, S, R, q)
      <4>1. Growing(r, S, E, X)
        BY <2>2, <3>1
      <4> QED BY <3>3, <3>4, <4>1, GrowTable
    <3>6. E \ {f} = E
      BY <3>3
    <3>7. n.table = Walk(m, R, q).addr
      BY <2>1, <2>8, <3>1, <3>3, <3>5
    <3>8. Keeps(o, m, S)
      BY <2>2, <3>5 DEF Keeps
    <3>9. Shows(o, m, S, {})
      <4>1. \A s_1 \in S, b_1 \in ToSet(UserPages) : <<s_1, b_1>> # <<R, q>>
        <5>1. \A b_1 \in ToSet(UserPages) : Len(b_1) = Levels
          BY PagesAre, Whole
        <5>2. Len(q) # Levels
          BY <1>2, <1>3
        <5> QED BY <5>1, <5>2
      <4> QED BY <2>2, <3>5, <4>1 DEF Shows, ShowsBut
    <3> QED BY <1>1, <3>1, <3>5, <3>6, <3>7, <3>8, <3>9 DEF Reached
  <2> QED BY <2>7, <2>8
<1> QED BY <1>9, <1>10, <1>11

\* A call of map_page that returns.
Maps(r, n, S, E, R, root, a, f, x) ==
    /\ S \in SUBSET Frames /\ Growing(r, S, E, {}) /\ R \in S \cup {KernelRoot} /\ AddressOf(R, a)
    /\ root = R \/ (R = KernelRoot /\ root \in S)
    /\ f \in E \/ (f = Device /\ R = KernelRoot)
    /\ x \in BOOLEAN /\ n = map_page(r, root, a, f, x) /\ n # Crash

\* It puts the page where it belongs, with the tables that were missing.
LEMMA MapGrows ==
  ASSUME NEW r, NEW n, NEW S, NEW E, NEW R, NEW root, NEW a, NEW f, NEW x,
         Maps(r, n, S, E, R, root, a, f, x)
  PROVE  /\ Growing(n, S, E \ {f}, {}) /\ Walk(n, R, a) = Pte(f, x) /\ Keeps(r, n, S)
         /\ ShowsBut(r, n, S, R, a) /\ Walk(r, R, a) = None
<1>0. /\ S \in SUBSET Frames /\ Growing(r, S, E, {}) /\ R \in S \cup {KernelRoot} /\ AddressOf(R, a)
      /\ root = R \/ (R = KernelRoot /\ root \in S)
      /\ f \in E \/ (f = Device /\ R = KernelRoot)
      /\ x \in BOOLEAN /\ n = map_page(r, root, a, f, x) /\ n # Crash
  BY DEF Maps
<1> USE <1>0
<1>1. PICK d : /\ IsRun(d, "map", a, [ram |-> r, table |-> root], Levels - 1)
               /\ n = MapEnd(d[Levels - 1], a, f, x)
  BY MapRun
<1>2. Levels \in Nat /\ Levels - 1 \in Nat /\ Levels \in 1..Levels /\ Levels >= 2
  BY VirtualMemoryAssumption
<1>3. /\ d[0] = [ram |-> r, table |-> root]
      /\ \A k \in 1..(Levels - 1) : d[k] = Descend(d[k - 1], a[k])
  <2>1. PICK m, c, first : m = Levels - 1 /\ c = a /\ first = [ram |-> r, table |-> root]
    OBVIOUS
  <2>2. IsRun(d, "map", c, first, m) /\ m \in Nat
    BY <1>1, <1>2, <2>1
  <2>3. d[0] = first /\ \A k \in 1..m : d[k] = Step("map", c, k, d[k - 1])
    BY <2>2, RunStep
  <2> QED BY <2>1, <2>3 DEF Step
<1> DEFINE K == {k \in Nat : k <= Levels - 1 => Reached(r, d[k], S, E, R, a, k)}
<1>4. 0 \in K
  <2>1. d[0].ram = r /\ d[0].table = root
    BY <1>3
  <2>2. Growing(r, S, E, WayTo(R, a))
    BY DEF Growing, TablesLeadToPages
  <2>3. Keeps(r, r, S) /\ Shows(r, r, S, {})
    BY DEF Keeps, Shows
  <2>4. PICK p : p = SubSeq(a, 1, 0)
    OBVIOUS
  <2>5. p = << >>
    <3>1. a \in Address /\ 0 \in 0..Levels
      BY <1>2, PagesAre DEF AddressOf
    <3>2. p \in Seq(Index) /\ Len(p) = 0
      BY <2>4, <3>1, Prefix
    <3> QED BY <3>2
  <2>6. Walk(r, R, p) = Pte(R, TRUE) /\ Pte(R, TRUE).addr = R /\ Pte(R, TRUE) # None
    <3>1. R \in Int
      BY DEF Frames, KernelRoot
    <3>2. Pte(R, TRUE) \in [addr : Int, exec : BOOLEAN] /\ Pte(R, TRUE).addr = R
      BY <3>1 DEF Pte
    <3> QED BY <2>5, <3>2, WalkEmpty, VirtualMemoryAssumption
  <2>7. Reached(r, d[0], S, E, R, a, 0)
    BY <2>1, <2>2, <2>3, <2>4, <2>6 DEF Reached
  <2> QED BY <2>7
<1>5. ASSUME NEW k \in K PROVE k + 1 \in K
  <2> SUFFICES ASSUME k + 1 <= Levels - 1 PROVE Reached(r, d[k + 1], S, E, R, a, k + 1)
    OBVIOUS
  <2>1. k \in 0..(Levels - 2) /\ k + 1 \in 1..(Levels - 1) /\ (k + 1) - 1 = k /\ k <= Levels - 1
    BY <1>2
  <2>2. Reached(r, d[k], S, E, R, a, k)
    BY <2>1
  <2>3. d[k + 1] = Descend(d[k], a[k + 1])
    BY <1>3, <2>1
  <2>4. Reached(r, Descend(d[k], a[k + 1]), S, E, R, a, k + 1)
    <3>1. PICK s : s = d[k]
      OBVIOUS
    <3>2. Reached(r, s, S, E, R, a, k)
      BY <2>2, <3>1
    <3>3. Reached(r, Descend(s, a[k + 1]), S, E, R, a, k + 1)
      BY <2>1, <3>2, DescendKeeps
    <3> QED BY <3>1, <3>3
  <2> QED BY <2>3, <2>4
<1> HIDE DEF K
<1>6. Levels - 1 \in K
  <2>1. K \in SUBSET Nat
    BY DEF K
  <2> QED BY <1>2, <1>4, <1>5, <2>1, Induction
<1>7. PICK s, l : s = d[l] /\ l = Levels - 1
  OBVIOUS
<1>8. Reached(r, s, S, E, R, a, l)
  BY <1>2, <1>6, <1>7 DEF K
<1>9. PICK h, t, i : h = s.ram /\ t = s.table /\ i = a[Levels]
  OBVIOUS
<1>10. h # Crash /\ h.entry[t][i] = None /\ n = [h EXCEPT !.entry[t][i] = Pte(f, x)]
  BY <1>1, <1>7, <1>9 DEF MapEnd
<1>11. /\ Growing(h, S, E, WayTo(R, a)) /\ Keeps(r, h, S) /\ Shows(r, h, S, {})
       /\ Walk(h, R, SubSeq(a, 1, l)) # None /\ t = Walk(h, R, SubSeq(a, 1, l)).addr
  BY <1>2, <1>7, <1>8, <1>9, <1>10 DEF Reached
<1>12. /\ a \in TreeOf(R) /\ a \in Seq(Index) /\ Len(a) = Levels /\ Front(a) = SubSeq(a, 1, l)
       /\ Front(a) \in TreeOf(R) /\ i \in Index /\ a \in Address
  <2>1. a \in Address /\ SubSeq(a, 1, Levels) = a /\ a \in Seq(Index) /\ Len(a) = Levels
    BY Whole, PagesAre DEF AddressOf
  <2>2. /\ SubSeq(a, 1, Levels) \in TreeOf(R) /\ Front(SubSeq(a, 1, Levels)) = SubSeq(a, 1, Levels - 1)
        /\ SubSeq(a, 1, Levels - 1) \in TreeOf(R) /\ a[Levels] \in Index
    BY <1>2, WayFacts
  <2> QED BY <1>7, <1>9, <2>1, <2>2
<1>13. h \in Ram /\ Tree(h, S, E)
  BY <1>11 DEF Growing
<1>14. E \subseteq h.used /\ h.used \subseteq Frames
  BY <1>13 DEF Tree, Ram
<1>15. /\ Device \notin Frames /\ f \in Frames \cup {Device} /\ (f \in Frames => f \in E)
       /\ (f = Device => R = KernelRoot)
  BY <1>14, VirtualMemoryAssumption DEF Frames, Device
<1>16. t \in Frames \cup {KernelRoot} /\ Len(Front(a)) < Levels
  <2>1. Len(Front(a)) < Levels
    <3>1. Len(a) > 0
      BY <1>2, <1>12
    <3>2. Len(Front(a)) = Levels - 1
      BY <1>12, <3>1, FrontIs
    <3> QED BY <1>2, <3>2
  <2> QED BY <1>11, <1>12, <1>13, <2>1, TableAt
<1>17. /\ n.entry[t][i] = Pte(f, x) /\ n \in Ram /\ n.used = h.used /\ n.data = h.data
       /\ \A g \in Frames \cup {KernelRoot}, j \in Index :
             ~(g = t /\ j = i) => n.entry[g][j] = h.entry[g][j]
  <2>1. PICK D, V, e, v, w : /\ D = Frames \cup {KernelRoot} /\ e = h.entry /\ v = Pte(f, x)
                             /\ V = [addr : Frames \cup {Device}, exec : BOOLEAN] \cup {None}
                             /\ w = n.entry
    OBVIOUS
  <2>2. e \in [D -> [Index -> V]] /\ v \in V /\ t \in D
    BY <1>13, <1>15, <1>16, <2>1 DEF Ram, Pte
  <2>3. w = [e EXCEPT ![t][i] = v]
    BY <1>10, <1>13, <2>1 DEF Ram
  <2>4. /\ w \in [D -> [Index -> V]] /\ w[t][i] = v
        /\ \A g \in D : g # t => w[g] = e[g]
        /\ \A j \in Index : j # i => w[t][j] = e[t][j]
    BY <1>12, <2>2, <2>3, SetEntry
  <2>5. n.used = h.used /\ n.data = h.data /\ n = [used |-> n.used, entry |-> n.entry, data |-> n.data]
    BY <1>10, <1>13 DEF Ram
  <2>6. n \in Ram
    <3>1. n.used \in SUBSET Frames /\ n.data \in [Frames -> Values \cup {Junk}]
      BY <1>13, <2>5 DEF Ram
    <3>2. n.entry \in [Frames \cup {KernelRoot} ->
                          [Index -> [addr : Frames \cup {Device}, exec : BOOLEAN] \cup {None}]]
      BY <2>1, <2>4
    <3> QED BY <2>5, <3>1, <3>2 DEF Ram
  <2> QED BY <2>1, <2>4, <2>5, <2>6
<1>18. Fills(h, n, R, a, f, x)
  BY <1>10, <1>11, <1>9, <1>12, <1>17 DEF Fills
<1>19. Enters(h, n, S, E, R, a, f, x)
  <2>1. /\ n.used = h.used \cup ({f} \cap Frames) /\ Len(a) > 0
        /\ \A g \in h.used : n.data[g] = h.data[g]
    BY <1>2, <1>12, <1>14, <1>15, <1>17
  <2> QED BY <1>12, <1>13, <1>15, <1>17, <1>18, <2>1 DEF Enters
<1>20. /\ Growing(n, S, E \ {f}, {}) /\ Walk(n, R, a) = Pte(f, x) /\ Keeps(h, n, S)
       /\ ShowsBut(h, n, S, R, a) /\ Walk(h, R, a) = None
  BY <1>11, <1>19, GrowPage
<1>21. Keeps(r, n, S)
  BY <1>11, <1>20 DEF Keeps
<1>22. ShowsBut(r, n, S, R, a)
  BY <1>11, <1>20 DEF Shows, ShowsBut
<1>23. Walk(r, R, a) = None
  <2>1. PICK o : o = <<R, a>>
    OBVIOUS
  <2>2. o \in Nodes(S) /\ At(r, o) = Walk(r, R, a) /\ At(h, o) = Walk(h, R, a)
    BY <1>12, <2>1, NodeIs DEF At
  <2> QED BY <1>11, <1>20, <2>2 DEF Keeps
<1> QED BY <1>20, <1>21, <1>22, <1>23

-----------------------------------------------------------------------------
(* allocate_ram_page, and what a page holds.                               *)

\* Where a path leads is a matter of the entries only.
LEMMA SameEntries ==
  ASSUME NEW r, NEW n, n.entry = r.entry
  PROVE  /\ \A root, p : Walk(n, root, p) = Walk(r, root, p)
         /\ \A m : At(n, m) = At(r, m)
BY DEF Walk, At

\* The contents of pages do not matter to the tree.
LEMMA SameTree ==
  ASSUME NEW r, NEW n, NEW S, NEW E, NEW X, Growing(r, S, E, X), n \in Ram,
         n.entry = r.entry, n.used = r.used
  PROVE  Growing(n, S, E, X) /\ Keeps(r, n, S)
<1>1. /\ \A root, p : Walk(n, root, p) = Walk(r, root, p)
      /\ \A m : At(n, m) = At(r, m)
  BY SameEntries
<1>2. Tree(n, S, E)
  <2>1. Tree(r, S, E)
    BY DEF Growing
  <2> QED BY <1>1, <2>1 DEF Tree
<1>3. SharesKernelHalf(n, S) /\ NoUserHalf(n)
  BY DEF Growing, SharesKernelHalf, NoUserHalf
<1>4. TablesLeadToPages(n, S, X)
  <2>1. TablesLeadToPages(r, S, X)
    BY DEF Growing
  <2> QED BY <1>1, <2>1 DEF TablesLeadToPages
<1> QED BY <1>1, <1>2, <1>3, <1>4 DEF Growing, Keeps

\* A memory that crashed is no memory.
LEMMA NoCrash ==
  ASSUME NEW r \in Ram
  PROVE  r # Crash
<1>1. DOMAIN r.entry = Frames \cup {KernelRoot} /\ DOMAIN << >> = {}
  BY DEF Ram
<1> QED BY <1>1 DEF Crash

\* Soundness is growth that is over.
LEMMA SoundIs ==
  ASSUME NEW r, NEW S
  PROVE  Sound(r, S) <=> Growing(r, S, {}, {})
BY DEF Sound, Growing

\* A user page of a sound memory.
LEMMA SoundPage ==
  ASSUME NEW r, NEW S \in SUBSET Frames, Sound(r, S), NEW s \in S, NEW a \in ToSet(UserPages),
         Walk(r, s, a) # None
  PROVE  /\ Walk(r, s, a).addr \in r.used /\ Walk(r, s, a).addr \in Frames
         /\ Walk(r, s, a).exec \in BOOLEAN /\ AddressOf(s, a) /\ <<s, a>> \in Nodes(S)
         /\ \A m \in Nodes(S) : At(r, m) # None /\ At(r, m).addr = Walk(r, s, a).addr => m = <<s, a>>
         /\ r.data[Walk(r, s, a).addr] \in Values \cup {Junk}
<1>1. PICK E : E = {}
  OBVIOUS
<1>2. r \in Ram /\ Tree(r, S, E)
  BY <1>1 DEF Sound
<1>3. /\ Walk(r, s, a).addr \in r.used /\ Walk(r, s, a).addr \in Frames
      /\ Walk(r, s, a).exec \in BOOLEAN /\ AddressOf(s, a) /\ <<s, a>> \in Nodes(S)
      /\ \A m \in Nodes(S) : At(r, m) # None /\ At(r, m).addr = Walk(r, s, a).addr => m = <<s, a>>
  BY <1>2, PageAt
<1> QED BY <1>2, <1>3 DEF Ram

\* A page for address a, in the space at R or in the kernel half.
Allocates(r, n, S, R, root, a, x) ==
    /\ S \in SUBSET Frames /\ Sound(r, S) /\ R \in S \cup {KernelRoot} /\ AddressOf(R, a)
    /\ root = R \/ (R = KernelRoot /\ root \in S)
    /\ x \in BOOLEAN /\ n = allocate_ram_page(r, root, a, x) /\ n # Crash

\* allocate_ram_page leaves a sound memory, and every other page in its place.
LEMMA AllocateSound ==
  ASSUME NEW r, NEW n, NEW S, NEW R, NEW root, NEW a, NEW x, Allocates(r, n, S, R, root, a, x)
  PROVE  /\ Sound(n, S) /\ Keeps(r, n, S)
         /\ Walk(n, R, a) # None /\ Walk(n, R, a).addr \in Frames /\ Walk(n, R, a).exec = x
         /\ ShowsBut(r, n, S, R, a) /\ Walk(r, R, a) = None
<1>0. /\ S \in SUBSET Frames /\ Sound(r, S) /\ R \in S \cup {KernelRoot} /\ AddressOf(R, a)
      /\ root = R \/ (R = KernelRoot /\ root \in S)
      /\ x \in BOOLEAN /\ n = allocate_ram_page(r, root, a, x) /\ n # Crash
  BY DEF Allocates
<1>1. PICK f, h : f = FirstFree(r) /\ h = [r EXCEPT !.used = @ \cup {f}]
  OBVIOUS
<1>2. ~Full(r) /\ n = map_page(h, root, a, f, x)
  BY <1>0, <1>1 DEF allocate_ram_page
<1>3. r \in Ram /\ Growing(r, S, {}, {})
  BY <1>0, SoundIs DEF Growing
<1>4. f \in Frames /\ f \notin r.used
  BY <1>1, <1>2, <1>3, FreeFrame
<1>5. /\ h.used = r.used \cup {f} /\ h.entry = r.entry /\ h.data = r.data
      /\ h = [used |-> h.used, entry |-> h.entry, data |-> h.data]
  BY <1>1, <1>3 DEF Ram
<1>6. h \in Ram
  <2>1. h.used \in SUBSET Frames
    BY <1>3, <1>4, <1>5 DEF Ram
  <2> QED BY <1>3, <1>5, <2>1 DEF Ram
<1>7. /\ \A b, p : Walk(h, b, p) = Walk(r, b, p)
      /\ \A m : At(h, m) = At(r, m)
  BY <1>5, SameEntries
<1>8. Growing(h, S, {f}, {})
  <2>1. Tree(h, S, {f})
    <3>1. Tree(r, S, {})
      BY <1>3 DEF Growing
    <3>2. r.used \ {} \subseteq h.used \ {f} /\ {f} \subseteq h.used
      BY <1>4, <1>5
    <3>3. \A g \in h.used : g \in {f} \/ g \in r.used
      BY <1>5
    <3>4. ASSUME NEW m \in Nodes(S), At(h, m) # None
          PROVE  /\ At(h, m).addr \in (h.used \ {f}) \cup {KernelRoot, Device}
                 /\ At(h, m).addr = Device => m[1] = KernelRoot /\ Len(m[2]) = Levels
      BY <1>7, <3>1, <3>2, <3>4 DEF Tree
    <3>5. \A m, o \in Nodes(S) :
             (At(h, m) # None /\ At(h, o) # None /\ At(h, m).addr = At(h, o).addr) =>
                 m = o \/ At(h, m).addr = Device
      BY <1>7, <3>1 DEF Tree
    <3>6. \A g \in h.used : g \in {f} \/ \E m \in Nodes(S) : At(h, m) # None /\ At(h, m).addr = g
      BY <1>7, <3>1, <3>3 DEF Tree
    <3> QED BY <3>2, <3>4, <3>5, <3>6 DEF Tree
  <2>2. SharesKernelHalf(h, S) /\ NoUserHalf(h)
    BY <1>3, <1>5 DEF Growing, SharesKernelHalf, NoUserHalf
  <2>3. TablesLeadToPages(h, S, {})
    <3>1. TablesLeadToPages(r, S, {})
      BY <1>3 DEF Growing
    <3> QED BY <1>7, <3>1 DEF TablesLeadToPages
  <2> QED BY <1>6, <2>1, <2>2, <2>3 DEF Growing
<1>9. PICK E : E = {f}
  OBVIOUS
<1>10. Maps(h, n, S, E, R, root, a, f, x)
  BY <1>0, <1>2, <1>8, <1>9 DEF Maps
<1>11. /\ Growing(n, S, E \ {f}, {}) /\ Walk(n, R, a) = Pte(f, x) /\ Keeps(h, n, S)
       /\ ShowsBut(h, n, S, R, a) /\ Walk(h, R, a) = None
  BY <1>10, MapGrows
<1>12. Sound(n, S)
  <2>1. E \ {f} = {}
    BY <1>9
  <2> QED BY <1>11, <2>1, SoundIs
<1>13. Pte(f, x) # None /\ Pte(f, x).addr = f /\ Pte(f, x).exec = x
  <2>1. Pte(f, x) \in [addr : Int, exec : BOOLEAN] /\ Pte(f, x).addr = f /\ Pte(f, x).exec = x
    BY <1>0, <1>4 DEF Pte, Frames
  <2> QED BY <2>1, VirtualMemoryAssumption
<1>14. Keeps(r, n, S)
  BY <1>7, <1>11 DEF Keeps
<1>15. ShowsBut(r, n, S, R, a) /\ Walk(r, R, a) = None
  BY <1>5, <1>7, <1>11 DEF Shows, ShowsBut
<1> QED BY <1>4, <1>11, <1>12, <1>13, <1>14, <1>15

\* A store to a page.
LEMMA StoreSound ==
  ASSUME NEW r, NEW S, Sound(r, S), NEW f \in Frames, NEW v \in Values \cup {Junk},
         NEW n, n = [r EXCEPT !.data[f] = v]
  PROVE  Sound(n, S) /\ Keeps(r, n, S)
<1>1. r \in Ram /\ Growing(r, S, {}, {})
  BY SoundIs DEF Growing
<1>2. /\ n.used = r.used /\ n.entry = r.entry /\ n.data = [r.data EXCEPT ![f] = v]
      /\ n = [used |-> n.used, entry |-> n.entry, data |-> n.data]
  BY <1>1 DEF Ram
<1>3. n \in Ram
  <2>1. n.data \in [Frames -> Values \cup {Junk}]
    BY <1>1, <1>2 DEF Ram
  <2> QED BY <1>1, <1>2, <2>1 DEF Ram
<1>4. Growing(n, S, {}, {}) /\ Keeps(r, n, S)
  <2>1. PICK E, X : E = {} /\ X = {}
    OBVIOUS
  <2>2. Growing(r, S, E, X)
    BY <1>1, <2>1
  <2>3. Growing(n, S, E, X) /\ Keeps(r, n, S)
    BY <1>2, <1>3, <2>2, SameTree
  <2> QED BY <2>1, <2>3
<1> QED BY <1>4, SoundIs

\* v is stored in page a of the space at s, which is in frame f.
Stores(r, n, S, s, a, f, v) ==
    /\ S \in SUBSET Frames /\ Sound(r, S) /\ s \in S /\ a \in ToSet(UserPages)
    /\ Walk(r, s, a) # None /\ f = Walk(r, s, a).addr /\ n = [r EXCEPT !.data[f] = v]

\* It shows in that page only.
LEMMA StoreShows ==
  ASSUME NEW r, NEW n, NEW S, NEW s, NEW a, NEW f, NEW v, Stores(r, n, S, s, a, f, v)
  PROVE  /\ ShowsBut(r, n, S, s, a) /\ n.data[f] = v /\ f \in Frames
         /\ \A root, p : Walk(n, root, p) = Walk(r, root, p)
<1>0. /\ S \in SUBSET Frames /\ Sound(r, S) /\ s \in S /\ a \in ToSet(UserPages)
      /\ Walk(r, s, a) # None /\ f = Walk(r, s, a).addr
  BY DEF Stores
<1>1. r \in Ram
  BY <1>0 DEF Sound
<1>2. /\ f \in Frames
      /\ \A m \in Nodes(S) : At(r, m) # None /\ At(r, m).addr = f => m = <<s, a>>
  <2>1. /\ Walk(r, s, a).addr \in Frames
        /\ \A m \in Nodes(S) : At(r, m) # None /\ At(r, m).addr = Walk(r, s, a).addr => m = <<s, a>>
    BY <1>0, SoundPage
  <2> QED BY <1>0, <2>1
<1>3. /\ n.entry = r.entry /\ n.data[f] = v /\ \A g \in Frames : g # f => n.data[g] = r.data[g]
  <2>1. n.entry = r.entry /\ n.data = [r.data EXCEPT ![f] = v]
    BY <1>1 DEF Ram, Stores
  <2>2. DOMAIN r.data = Frames
    BY <1>1 DEF Ram
  <2> QED BY <1>2, <2>1, <2>2
<1>4. \A root, p : Walk(n, root, p) = Walk(r, root, p)
  BY <1>3, SameEntries
<1>5. ASSUME NEW t \in S, NEW b \in ToSet(UserPages), <<t, b>> # <<s, a>>, Walk(r, t, b) # None
      PROVE  n.data[Walk(r, t, b).addr] = r.data[Walk(r, t, b).addr]
  <2>1. Walk(r, t, b).addr \in Frames /\ <<t, b>> \in Nodes(S)
    BY <1>0, <1>5, SoundPage
  <2>2. At(r, <<t, b>>) = Walk(r, t, b)
    BY DEF At
  <2>3. Walk(r, t, b).addr # f
    BY <1>2, <1>5, <2>1, <2>2
  <2> QED BY <1>3, <2>1, <2>3
<1>6. ShowsBut(r, n, S, s, a)
  BY <1>4, <1>5 DEF Shows, ShowsBut
<1> QED BY <1>2, <1>3, <1>4, <1>6

\* The roots are nodes of the tree, so they are marked used.
LEMMA RootsUsed ==
  ASSUME NEW r, NEW S \in SUBSET Frames, NEW E, Tree(r, S, E), NEW s \in S \cup {KernelRoot}
  PROVE  /\ <<s, << >> >> \in Nodes(S) /\ At(r, <<s, << >> >>) # None
         /\ At(r, <<s, << >> >>).addr = s /\ (s \in S => s \in r.used)
<1>1. << >> \in TreeOf(s)
  BY DEF TreeOf, UserTree, KernelTree
<1>2. At(r, <<s, << >> >>) = Pte(s, TRUE)
  BY WalkEmpty DEF At
<1>3. Pte(s, TRUE) \in [addr : Int, exec : BOOLEAN]
  BY DEF Pte, Frames, KernelRoot
<1>4. Pte(s, TRUE) # None /\ Pte(s, TRUE).addr = s
  BY <1>3, VirtualMemoryAssumption DEF Pte
<1>5. <<s, << >> >> \in Nodes(S)
  BY <1>1, NodeIs
<1>6. s \in (r.used \ E) \cup {KernelRoot, Device}
  BY <1>2, <1>4, <1>5 DEF Tree
<1>7. KernelRoot \notin Frames /\ Device \notin Frames
  BY VirtualMemoryAssumption DEF Frames, KernelRoot, Device
<1> QED BY <1>2, <1>4, <1>5, <1>6, <1>7

\* A root whose user half is empty leads to no user page or table.
LEMMA EmptyHalf ==
  ASSUME NEW r, NEW f \in Frames, \A i \in Index \ KernelIndex : r.entry[f][i] = None,
         NEW p \in PathsTo(UserPages)
  PROVE  Walk(r, f, p) = None
<1>1. p \in TreeOf(f) /\ f # KernelRoot
  BY VirtualMemoryAssumption DEF TreeOf, UserTree, Frames, KernelRoot
<1>2. p \in Seq(Index) /\ Len(p) \in 1..Levels
  BY PathFacts, PagesAre
<1>3. p[1] \in Index \ KernelIndex
  <2>1. Len(p) > 0 /\ 1 \in 1..Len(p)
    BY <1>2, VirtualMemoryAssumption
  <2>2. ~(p[1] \in KernelIndex)
    BY <1>1, <2>1, TreeFacts
  <2> QED BY <1>2, <2>1, <2>2
<1>4. PICK i, q : i = p[1] /\ q = <<i>>
  OBVIOUS
<1>5. q \in Seq(Index) /\ Len(q) = 1 /\ q[1] = i
  BY <1>3, <1>4
<1>6. Walk(r, f, q) = None
  <2>1. Front(q) \in Seq(Index) /\ Len(Front(q)) = 0
    BY <1>5, FrontIs
  <2>2. Front(q) = << >>
    BY <2>1
  <2>3. Pte(f, TRUE) \in [addr : Int, exec : BOOLEAN] /\ Pte(f, TRUE).addr = f
    BY DEF Pte, Frames
  <2>4. Walk(r, f, Front(q)) = Pte(f, TRUE) /\ Pte(f, TRUE) # None
    BY <2>2, <2>3, WalkEmpty, VirtualMemoryAssumption
  <2>5. Walk(r, f, q) = r.entry[f][i]
    <3>1. Len(q) > 0
      BY <1>5
    <3>2. Walk(r, f, q) = IF Walk(r, f, Front(q)) = None THEN None
                          ELSE r.entry[Walk(r, f, Front(q)).addr][q[Len(q)]]
      BY <1>5, <3>1, WalkFront
    <3> QED BY <1>5, <2>3, <2>4, <3>2
  <2> QED BY <1>3, <1>4, <2>5
<1>7. CASE Len(p) = 1
  <2>1. p = q
    BY <1>2, <1>4, <1>5, <1>7, SamePath
  <2> QED BY <1>6, <2>1
<1>8. CASE Len(p) # 1
  <2>1. ASSUME NEW v \in Seq(Index), Len(v) = Len(q) + 1, Extends(v, q)
        PROVE  Walk(r, f, v) = None
    <3>1. Front(v) \in Seq(Index) /\ Len(Front(v)) = 1 /\ \A j \in 1..1 : Front(v)[j] = v[j]
      <4>1. Len(v) > 0 /\ Len(v) - 1 = 1
        BY <1>5, <2>1
      <4> QED BY <4>1, FrontIs
    <3>2. Front(v) = q
      BY <1>5, <2>1, <3>1, SamePath DEF Extends
    <3> QED BY <1>5, <1>6, <2>1, <3>2, WalkFront
  <2>2. \A v \in Seq(Index) : Len(v) > Len(q) /\ Extends(v, q) => Walk(r, f, v) = None
    BY <1>5, <2>1, DeadBelow
  <2>3. Len(p) > Len(q) /\ Extends(p, q)
    BY <1>2, <1>4, <1>5, <1>8 DEF Extends
  <2> QED BY <1>2, <2>2, <2>3
<1> QED BY <1>7, <1>8

\* A table that no path leads to can be written without effect on any path.
LEMMA Unseen ==
  ASSUME NEW r \in Ram, NEW n, NEW S \in SUBSET Frames, NEW E, Tree(r, S, E),
         NEW f \in Frames, f \notin r.used,
         \A g \in Frames \cup {KernelRoot} : g # f => n.entry[g] = r.entry[g]
  PROVE  \A m \in Nodes(S) : At(n, m) = At(r, m)
<1>1. ASSUME NEW root \in S \cup {KernelRoot} PROVE \A p \in TreeOf(root) : Walk(n, root, p) = Walk(r, root, p)
  <2>1. PICK P : P = TreeOf(root)
    OBVIOUS
  <2>2. Closed(P)
    BY <2>1, TreeFacts DEF Closed
  <2>3. ASSUME NEW p \in P, Len(p) > 0, Walk(r, root, Front(p)) # None
        PROVE  LET t == Walk(r, root, Front(p)).addr
               IN  n.entry[t][p[Len(p)]] = r.entry[t][p[Len(p)]]
    <3>1. PICK t, q : t = Walk(r, root, q).addr /\ q = Front(p)
      OBVIOUS
    <3>2. p \in Seq(Index) /\ Len(p) \in 0..Levels /\ q \in TreeOf(root) /\ Len(q) = Len(p) - 1
      BY <2>1, <2>3, <3>1, TreeFacts, FrontIs
    <3>3. Walk(r, root, q) # None /\ Len(q) < Levels
      BY <2>3, <3>1, <3>2, VirtualMemoryAssumption
    <3>4. t \in Frames \cup {KernelRoot}
      BY <3>1, <3>2, <3>3, TableAt
    <3>5. <<root, q>> \in Nodes(S) /\ At(r, <<root, q>>) = Walk(r, root, q)
      BY <3>2, NodeIs DEF At
    <3>6. t \in (r.used \ E) \cup {KernelRoot, Device}
      BY <3>1, <3>3, <3>5 DEF Tree
    <3>7. KernelRoot \notin Frames /\ Device \notin Frames
      BY VirtualMemoryAssumption DEF Frames, KernelRoot, Device
    <3>8. t # f
      BY <3>6, <3>7
    <3>9. n.entry[t] = r.entry[t]
      BY <3>4, <3>8
    <3> QED BY <3>1, <3>9
  <2>4. \A p \in P : Walk(n, root, p) = Walk(r, root, p)
    BY <2>2, <2>3, WalkAgree
  <2> QED BY <2>1, <2>4
<1> QED BY <1>1, NodeIs DEF At

\* A new space: the kernel half, and nothing in the user half.
LEMMA CleanSound ==
  ASSUME NEW r, NEW S \in SUBSET Frames, Sound(r, S),
         NEW n, n = generate_clean_virtual_addressing(r), n # Crash,
         NEW f, f = FirstFree(r), NEW T, T = S \cup {f}
  PROVE  /\ T \in SUBSET Frames /\ f \notin S /\ Sound(n, T) /\ Keeps(r, n, S)
         /\ Shows(r, n, S, {}) /\ \A a \in ToSet(UserPages) : Walk(n, f, a) = None
<1>1. /\ ~Full(r)
      /\ n = [r EXCEPT !.used = @ \cup {f}, !.data[f] = Junk, !.entry[f] = r.entry[KernelRoot]]
  BY DEF generate_clean_virtual_addressing
<1>2. r \in Ram /\ Tree(r, S, {}) /\ SharesKernelHalf(r, S) /\ NoUserHalf(r) /\ TablesLeadToPages(r, S, {})
  BY DEF Sound
<1>3. f \in Frames /\ f \notin r.used
  BY <1>1, <1>2, FreeFrame
<1>4. /\ n.used = r.used \cup {f} /\ n.data = [r.data EXCEPT ![f] = Junk]
      /\ n.entry = [r.entry EXCEPT ![f] = r.entry[KernelRoot]]
      /\ n = [used |-> n.used, entry |-> n.entry, data |-> n.data]
  BY <1>1, <1>2 DEF Ram
<1>5. /\ n.entry[f] = r.entry[KernelRoot]
      /\ \A g \in Frames \cup {KernelRoot} : g # f => n.entry[g] = r.entry[g]
  BY <1>2, <1>3, <1>4 DEF Ram
<1>6. n \in Ram
  <2>1. n.used \in SUBSET Frames /\ n.data \in [Frames -> Values \cup {Junk}]
    BY <1>2, <1>3, <1>4 DEF Ram
  <2>2. n.entry \in [Frames \cup {KernelRoot} ->
                        [Index -> [addr : Frames \cup {Device}, exec : BOOLEAN] \cup {None}]]
    BY <1>2, <1>3, <1>4 DEF Ram
  <2> QED BY <1>4, <2>1, <2>2 DEF Ram
<1>7. \A m \in Nodes(S) : At(n, m) = At(r, m)
  <2>1. PICK E : E = {}
    OBVIOUS
  <2>2. Tree(r, S, E)
    BY <1>2, <2>1
  <2> QED BY <1>2, <1>3, <1>5, <2>2, Unseen
<1>8. KernelRoot \notin Frames /\ Device \notin Frames /\ r.used \subseteq Frames
  BY <1>2, VirtualMemoryAssumption DEF Frames, KernelRoot, Device, Ram
<1>9. f \notin S /\ T \in SUBSET Frames
  <2>1. \A s \in S : s \in r.used
    BY <1>2, RootsUsed
  <2> QED BY <1>3, <2>1
<1>10. ASSUME NEW p \in PathsTo(UserPages) PROVE Walk(n, f, p) = None
  BY <1>2, <1>3, <1>5, EmptyHalf DEF NoUserHalf
<1> DEFINE top == <<f, << >> >>
<1>11. At(n, top) = Pte(f, TRUE) /\ Pte(f, TRUE).addr = f /\ Pte(f, TRUE) # None
  <2>1. At(n, top) = Pte(f, TRUE)
    BY WalkEmpty DEF At
  <2>2. Pte(f, TRUE) \in [addr : Int, exec : BOOLEAN] /\ Pte(f, TRUE).addr = f
    BY <1>3 DEF Pte, Frames
  <2> QED BY <2>1, <2>2, VirtualMemoryAssumption
<1>12. Nodes(S) \subseteq Nodes(T) /\ top \in Nodes(T) /\ top[1] = f
  BY DEF Nodes
<1>13. ASSUME NEW m \in Nodes(T), m \notin Nodes(S), m # top PROVE At(n, m) = None
  <2>1. m[1] = f /\ m[2] \in PathsTo(UserPages) /\ m = <<m[1], m[2]>>
    BY <1>13 DEF Nodes
  <2> QED BY <1>10, <2>1 DEF At
<1> HIDE DEF top
<1>14. Tree(n, T, {})
  <2>1. ASSUME NEW m \in Nodes(S), At(n, m) # None
        PROVE  /\ At(n, m).addr \in (r.used \ {}) \cup {KernelRoot, Device} /\ At(n, m).addr # f
               /\ At(n, m).addr = Device => m[1] = KernelRoot /\ Len(m[2]) = Levels
    BY <1>2, <1>3, <1>7, <1>8, <2>1 DEF Tree
  <2>2. ASSUME NEW m \in Nodes(T), At(n, m) # None
        PROVE  /\ At(n, m).addr \in (n.used \ {}) \cup {KernelRoot, Device}
               /\ At(n, m).addr = Device => m[1] = KernelRoot /\ Len(m[2]) = Levels
    <3>1. CASE m \in Nodes(S)
      BY <1>4, <2>1, <2>2, <3>1
    <3>2. CASE m = top
      BY <1>3, <1>4, <1>8, <1>11, <3>2
    <3> QED BY <1>13, <2>2, <3>1, <3>2
  <2>3. ASSUME NEW m \in Nodes(T), NEW o \in Nodes(T),
               At(n, m) # None, At(n, o) # None, At(n, m).addr = At(n, o).addr
        PROVE  m = o \/ At(n, m).addr = Device
    <3>1. (m \in Nodes(S) \/ m = top) /\ (o \in Nodes(S) \/ o = top)
      BY <1>13, <2>3
    <3>2. CASE m \in Nodes(S) /\ o \in Nodes(S)
      BY <1>2, <1>7, <2>3, <3>2 DEF Tree
    <3> QED BY <1>11, <2>1, <2>3, <3>1, <3>2
  <2>4. ASSUME NEW g \in n.used PROVE \E m \in Nodes(T) : At(n, m) # None /\ At(n, m).addr = g
    <3>1. CASE g = f
      BY <1>11, <1>12, <3>1
    <3>2. CASE g \in r.used
      <4>1. PICK m \in Nodes(S) : At(r, m) # None /\ At(r, m).addr = g
        BY <1>2, <3>2 DEF Tree
      <4> QED BY <1>7, <1>12, <4>1
    <3> QED BY <1>4, <3>1, <3>2
  <2> QED BY <2>2, <2>3, <2>4 DEF Tree
<1>15. SharesKernelHalf(n, T) /\ NoUserHalf(n)
  <2>1. ASSUME NEW s \in S \cup {KernelRoot} PROVE n.entry[s] = r.entry[s]
    BY <1>3, <1>5, <1>8, <1>9
  <2>2. SharesKernelHalf(n, T)
    BY <1>2, <1>5, <2>1 DEF SharesKernelHalf
  <2> QED BY <1>2, <2>1, <2>2 DEF NoUserHalf
<1>16. TablesLeadToPages(n, T, {})
  <2> SUFFICES ASSUME NEW s \in T, NEW p \in PathsTo(UserPages), Walk(n, s, p) # None
               PROVE  \E a \in ToSet(UserPages) : SubSeq(a, 1, Len(p)) = p /\ Walk(n, s, a) # None
    BY DEF TablesLeadToPages
  <2>1. s \in S
    BY <1>10
  <2>2. \A q \in PathsTo(UserPages) : Walk(n, s, q) = Walk(r, s, q)
    <3>1. \A q \in PathsTo(UserPages) : <<s, q>> \in Nodes(S)
      BY <2>1 DEF Nodes
    <3> QED BY <1>7, <3>1 DEF At
  <2>3. PICK a \in ToSet(UserPages) : SubSeq(a, 1, Len(p)) = p /\ Walk(r, s, a) # None
    BY <1>2, <2>1, <2>2 DEF TablesLeadToPages
  <2>4. a \in PathsTo(UserPages)
    <3>1. a \in Address /\ Levels \in 1..Levels
      BY PagesAre, VirtualMemoryAssumption
    <3>2. SubSeq(a, 1, Levels) = a
      BY <3>1, Whole
    <3> QED BY <3>1, <3>2 DEF PathsTo
  <2> QED BY <2>2, <2>3, <2>4
<1>17. Keeps(r, n, S)
  BY <1>7 DEF Keeps
<1>18. \A a \in ToSet(UserPages) : a \in PathsTo(UserPages)
  <2> SUFFICES ASSUME NEW a \in ToSet(UserPages) PROVE a \in PathsTo(UserPages)
    OBVIOUS
  <2>1. a \in Address /\ Levels \in 1..Levels
    BY PagesAre, VirtualMemoryAssumption
  <2>2. SubSeq(a, 1, Levels) = a
    BY <2>1, Whole
  <2> QED BY <2>1, <2>2 DEF PathsTo
<1>19. Shows(r, n, S, {})
  <2> SUFFICES ASSUME NEW s \in S, NEW a \in ToSet(UserPages)
               PROVE  /\ Walk(n, s, a) = Walk(r, s, a)
                      /\ Walk(r, s, a) # None => n.data[Walk(r, s, a).addr] = r.data[Walk(r, s, a).addr]
    BY DEF Shows
  <2>1. <<s, a>> \in Nodes(S)
    BY <1>18 DEF Nodes
  <2>2. Walk(n, s, a) = Walk(r, s, a)
    BY <1>7, <2>1 DEF At
  <2>3. Walk(r, s, a) # None => Walk(r, s, a).addr \in r.used /\ Walk(r, s, a).addr \in Frames
    BY SoundPage
  <2>4. \A g \in r.used : g \in Frames => n.data[g] = r.data[g]
    BY <1>2, <1>3, <1>4 DEF Ram
  <2> QED BY <2>2, <2>3, <2>4
<1> QED BY <1>6, <1>9, <1>10, <1>14, <1>15, <1>16, <1>17, <1>18, <1>19 DEF Sound

-----------------------------------------------------------------------------
(* The loops that load and copy a program, and the removal of its space.   *)

\* Pages at the addresses others are mapped into the space at root; T are the other spaces.
Loads(r, n, S, T, root, others) ==
    /\ S \in SUBSET Frames /\ (r = Crash \/ Sound(r, S)) /\ root \in S
    /\ n = LoadPages(r, root, others) /\ T = S \ {root}

\* The pages a program is loaded with.
LEMMA LoadSound ==
  ASSUME NEW r, NEW n, NEW S, NEW T, NEW root, NEW others, Loads(r, n, S, T, root, others)
  PROVE  n = Crash \/ (r # Crash /\ Sound(n, S) /\ Shows(r, n, T, {}))
<1>0. /\ S \in SUBSET Frames /\ (r = Crash \/ Sound(r, S)) /\ root \in S
      /\ n = LoadPages(r, root, others) /\ T = S \ {root}
  BY DEF Loads
<1>1. PICK m : /\ IsRun(m, "load", [root |-> root, others |-> others], r, Len(UserPages))
               /\ n = m[Len(UserPages)]
  BY <1>0, LoadRun
<1>2. PICK L, c : L = Len(UserPages) /\ c = [root |-> root, others |-> others]
  OBVIOUS
<1>3. L \in Nat /\ \A k \in 1..L : UserPages[k] \in ToSet(UserPages)
  BY <1>2, PagesAre DEF ToSet
<1>4. m[0] = r /\ \A k \in 1..L : m[k] = LoadStep(c, k, m[k - 1])
  <2>1. IsRun(m, "load", c, r, L)
    BY <1>1, <1>2
  <2>2. m[0] = r /\ \A k \in 1..L : m[k] = Step("load", c, k, m[k - 1])
    BY <1>3, <2>1, RunStep
  <2> QED BY <2>2 DEF Step
<1> DEFINE Good(h) == h = Crash \/ (r # Crash /\ Sound(h, S) /\ Shows(r, h, T, {}))
<1> DEFINE K == {k \in Nat : k <= L => Good(m[k])}
<1>5. 0 \in K
  BY <1>0, <1>4 DEF Shows
<1>6. ASSUME NEW k \in K PROVE k + 1 \in K
  <2> SUFFICES ASSUME k + 1 <= L PROVE Good(m[k + 1])
    OBVIOUS
  <2>1. k + 1 \in 1..L /\ (k + 1) - 1 = k /\ k <= L
    BY <1>3
  <2>2. PICK a, h, g : a = UserPages[k + 1] /\ h = m[k] /\ g = m[k + 1]
    OBVIOUS
  <2>3. g = IF a \in others THEN allocate_ram_page(h, root, a, FALSE) ELSE h
    BY <1>2, <1>4, <2>1, <2>2 DEF LoadStep
  <2>4. Good(h)
    BY <2>1, <2>2
  <2>5. CASE a \notin others
    BY <2>2, <2>3, <2>4, <2>5
  <2>6. CASE a \in others /\ h = Crash
    BY <2>2, <2>3, <2>6 DEF allocate_ram_page
  <2>7. CASE a \in others /\ r # Crash /\ Sound(h, S) /\ Shows(r, h, T, {})
    <3>1. AddressOf(root, a)
      <4>1. root # KernelRoot
        BY <1>0, VirtualMemoryAssumption DEF Frames, KernelRoot
      <4> QED BY <1>3, <2>1, <2>2, <4>1 DEF AddressOf
    <3>2. PICK b : b = FALSE
      OBVIOUS
    <3>3. g # Crash => Allocates(h, g, S, root, root, a, b)
      BY <1>0, <2>3, <2>7, <3>1, <3>2 DEF Allocates
    <3>4. g # Crash => Sound(g, S) /\ ShowsBut(h, g, S, root, a)
      BY <3>3, AllocateSound
    <3>5. g # Crash => Shows(r, g, T, {})
      BY <1>0, <2>7, <3>4 DEF Shows, ShowsBut
    <3> QED BY <2>2, <2>7, <3>4, <3>5
  <2> QED BY <2>4, <2>5, <2>6, <2>7
<1> HIDE DEF K
<1>7. L \in K
  <2>1. K \in SUBSET Nat
    BY DEF K
  <2> QED BY <1>3, <1>5, <1>6, <2>1, Induction
<1> QED BY <1>1, <1>2, <1>3, <1>7 DEF K

\* In h, the first k pages of the list are in the space at "to" as they were in r in
\* the space at "from", if they are among the given ones; no other page is there.
Copied(r, h, from, to, pages, k) ==
    /\ \A j \in 1..k : UserPages[j] \in pages => Walk(h, to, UserPages[j]) # None
    /\ \A a \in ToSet(UserPages) : Walk(h, to, a) # None =>
          /\ a \in pages /\ Walk(h, to, a).exec = Walk(r, from, a).exec
          /\ h.data[Walk(h, to, a).addr] = r.data[Walk(r, from, a).addr]

\* The page at address a, with entry e, is copied.
Copies(h, g, S, from, to, a, e) ==
    /\ S \in SUBSET Frames /\ Sound(h, S) /\ from \in S /\ to \in S /\ from # to
    /\ a \in ToSet(UserPages) /\ e = Walk(h, from, a) /\ e # None
    /\ g = ClonePage(h, a, from, to) /\ g # Crash

\* One page of a fork: memory stays sound and the copy is faithful.
LEMMA CopyPage ==
  ASSUME NEW h, NEW g, NEW S, NEW from, NEW to, NEW a, NEW e, Copies(h, g, S, from, to, a, e)
  PROVE  /\ Sound(g, S) /\ ShowsBut(h, g, S, to, a)
         /\ Walk(g, to, a) # None /\ Walk(g, to, a).exec = e.exec
         /\ g.data[Walk(g, to, a).addr] = h.data[e.addr]
<1>0. /\ S \in SUBSET Frames /\ Sound(h, S) /\ from \in S /\ to \in S /\ from # to
      /\ a \in ToSet(UserPages) /\ e = Walk(h, from, a) /\ e # None
  BY DEF Copies
<1>1. PICK b, j : b = e.exec /\ j = allocate_ram_page(h, to, a, b)
  OBVIOUS
<1>2. j # Crash /\ g = [j EXCEPT !.data[Walk(j, to, a).addr] = h.data[e.addr]]
  BY <1>0, <1>1 DEF ClonePage, Copies
<1>3. /\ e.addr \in Frames /\ b \in BOOLEAN /\ h.data[e.addr] \in Values \cup {Junk}
  <2>1. Walk(h, from, a) # None
    BY <1>0
  <2>2. /\ Walk(h, from, a).addr \in Frames /\ Walk(h, from, a).exec \in BOOLEAN
        /\ h.data[Walk(h, from, a).addr] \in Values \cup {Junk}
    BY <1>0, <2>1, SoundPage
  <2> QED BY <1>0, <1>1, <2>2
<1>4. AddressOf(to, a)
  <2>1. to # KernelRoot
    BY <1>0, VirtualMemoryAssumption DEF Frames, KernelRoot
  <2> QED BY <1>0, <2>1 DEF AddressOf
<1>5. Allocates(h, j, S, to, to, a, b)
  BY <1>0, <1>1, <1>2, <1>3, <1>4 DEF Allocates
<1>6. /\ Sound(j, S) /\ Walk(j, to, a) # None /\ Walk(j, to, a).addr \in Frames
      /\ Walk(j, to, a).exec = b /\ ShowsBut(h, j, S, to, a)
  BY <1>5, AllocateSound
<1>7. PICK f, v : f = Walk(j, to, a).addr /\ v = h.data[e.addr]
  OBVIOUS
<1>8. f \in Frames /\ v \in Values \cup {Junk} /\ g = [j EXCEPT !.data[f] = v]
  BY <1>2, <1>3, <1>6, <1>7
<1>9. Sound(g, S)
  BY <1>6, <1>8, StoreSound
<1>10. /\ ShowsBut(j, g, S, to, a) /\ g.data[f] = v
       /\ \A root, p : Walk(g, root, p) = Walk(j, root, p)
  <2>1. Stores(j, g, S, to, a, f, v)
    BY <1>0, <1>6, <1>7, <1>8 DEF Stores
  <2> QED BY <2>1, StoreShows
<1>11. ShowsBut(h, g, S, to, a)
  BY <1>6, <1>10 DEF Shows, ShowsBut
<1> QED BY <1>1, <1>6, <1>7, <1>9, <1>10, <1>11

\* The given pages of the space at "from" are copied to the empty one at "to".
Clones(r, n, S, T, from, to, pages) ==
    /\ S \in SUBSET Frames /\ Sound(r, S) /\ from \in S /\ to \in S /\ from # to /\ r # Crash
    /\ \A a \in pages : Walk(r, from, a) # None
    /\ \A a \in ToSet(UserPages) : Walk(r, to, a) = None
    /\ n = ClonePages(r, from, to, pages) /\ T = S \ {to}

\* The pages a fork copies: those of the parent, and nothing else changes.
LEMMA CloneSound ==
  ASSUME NEW r, NEW n, NEW S, NEW T, NEW from, NEW to, NEW pages, Clones(r, n, S, T, from, to, pages)
  PROVE  n = Crash \/ (/\ Sound(n, S) /\ Shows(r, n, T, {})
                      /\ Copied(r, n, from, to, pages, Len(UserPages)))
<1>0. /\ S \in SUBSET Frames /\ Sound(r, S) /\ from \in S /\ to \in S /\ from # to /\ r # Crash
      /\ \A a \in pages : Walk(r, from, a) # None
      /\ \A a \in ToSet(UserPages) : Walk(r, to, a) = None
      /\ n = ClonePages(r, from, to, pages) /\ T = S \ {to}
  BY DEF Clones
<1>1. PICK m : /\ IsRun(m, "clone", [from |-> from, to |-> to, pages |-> pages], r, Len(UserPages))
               /\ n = m[Len(UserPages)]
  BY <1>0, CloneRun
<1>2. PICK L, c : L = Len(UserPages) /\ c = [from |-> from, to |-> to, pages |-> pages]
  OBVIOUS
<1>3. L \in Nat /\ \A k \in 1..L : UserPages[k] \in ToSet(UserPages)
  BY <1>2, PagesAre DEF ToSet
<1>4. m[0] = r /\ \A k \in 1..L : m[k] = CloneStep(c, k, m[k - 1])
  <2>1. IsRun(m, "clone", c, r, L)
    BY <1>1, <1>2
  <2>2. m[0] = r /\ \A k \in 1..L : m[k] = Step("clone", c, k, m[k - 1])
    BY <1>3, <2>1, RunStep
  <2> QED BY <2>2 DEF Step
<1> DEFINE Good(h, k) == h = Crash \/ (/\ Sound(h, S) /\ Shows(r, h, T, {})
                                      /\ Copied(r, h, from, to, pages, k))
<1> DEFINE K == {k \in Nat : k <= L => Good(m[k], k)}
<1>5. 0 \in K
  <2>1. Copied(r, r, from, to, pages, 0)
    BY <1>0 DEF Copied
  <2> QED BY <1>0, <1>4, <2>1 DEF Shows
<1>6. ASSUME NEW k \in K PROVE k + 1 \in K
  <2> SUFFICES ASSUME k + 1 <= L PROVE Good(m[k + 1], k + 1)
    OBVIOUS
  <2>1. k + 1 \in 1..L /\ (k + 1) - 1 = k /\ k <= L /\ \A j \in 1..(k + 1) : j = k + 1 \/ j \in 1..k
    BY <1>3
  <2>2. PICK a, h, g : a = UserPages[k + 1] /\ h = m[k] /\ g = m[k + 1]
    OBVIOUS
  <2>3. g = IF h # Crash /\ a \in pages THEN ClonePage(h, a, from, to) ELSE h
    BY <1>2, <1>4, <2>1, <2>2 DEF CloneStep
  <2>4. Good(h, k) /\ a \in ToSet(UserPages)
    BY <1>3, <2>1, <2>2
  <2>5. CASE h = Crash
    BY <2>2, <2>3, <2>5
  <2>6. CASE h # Crash /\ a \notin pages
    <3>1. Copied(r, h, from, to, pages, k + 1)
      BY <2>1, <2>2, <2>4, <2>6 DEF Copied
    <3> QED BY <2>2, <2>3, <2>4, <2>6, <3>1
  <2>7. CASE h # Crash /\ a \in pages
    <3>1. /\ Sound(h, S) /\ Shows(r, h, T, {})
          /\ Copied(r, h, from, to, pages, k)
      BY <2>4, <2>7
    <3>2. PICK e : e = Walk(h, from, a)
      OBVIOUS
    <3>3. e = Walk(r, from, a) /\ e # None /\ h.data[e.addr] = r.data[e.addr]
      <4>1. from \in T /\ Walk(r, from, a) # None
        BY <1>0, <2>7
      <4> QED BY <2>4, <3>1, <3>2, <4>1 DEF Shows
    <3>4. CASE g = Crash
      BY <2>2, <3>4
    <3>5. CASE g # Crash
      <4>1. /\ Sound(g, S) /\ ShowsBut(h, g, S, to, a)
            /\ Walk(g, to, a) # None /\ Walk(g, to, a).exec = e.exec
            /\ g.data[Walk(g, to, a).addr] = h.data[e.addr]
        <5>1. Copies(h, g, S, from, to, a, e)
          BY <1>0, <2>3, <2>4, <2>7, <3>1, <3>2, <3>3, <3>5 DEF Copies
        <5> QED BY <5>1, CopyPage
      <4>2. Shows(r, g, T, {})
        BY <1>0, <3>1, <4>1 DEF Shows, ShowsBut
      <4>3. \A b \in ToSet(UserPages) : b # a =>
               /\ Walk(g, to, b) = Walk(h, to, b)
               /\ Walk(h, to, b) # None => g.data[Walk(h, to, b).addr] = h.data[Walk(h, to, b).addr]
        BY <1>0, <4>1 DEF Shows, ShowsBut
      <4>4. ASSUME NEW b \in ToSet(UserPages), Walk(g, to, b) # None
            PROVE  /\ b \in pages /\ Walk(g, to, b).exec = Walk(r, from, b).exec
                   /\ g.data[Walk(g, to, b).addr] = r.data[Walk(r, from, b).addr]
        <5>1. CASE b = a
          BY <2>7, <3>3, <4>1, <5>1
        <5>2. CASE b # a
          BY <3>1, <4>3, <4>4, <5>2 DEF Copied
        <5> QED BY <5>1, <5>2
      <4>5. ASSUME NEW j \in 1..(k + 1), UserPages[j] \in pages PROVE Walk(g, to, UserPages[j]) # None
        <5>1. CASE UserPages[j] = a
          BY <4>1, <5>1
        <5>2. CASE UserPages[j] # a
          <6>1. j \in 1..k /\ UserPages[j] \in ToSet(UserPages)
            BY <1>3, <2>1, <2>2, <5>2
          <6> QED BY <3>1, <4>3, <4>5, <5>2, <6>1 DEF Copied
        <5> QED BY <5>1, <5>2
      <4>6. Copied(r, g, from, to, pages, k + 1)
        BY <4>4, <4>5 DEF Copied
      <4> QED BY <2>2, <3>1, <4>1, <4>2, <4>6
    <3> QED BY <3>4, <3>5
  <2> QED BY <2>5, <2>6, <2>7
<1> HIDE DEF K
<1>7. L \in K
  <2>1. K \in SUBSET Nat
    BY DEF K
  <2> QED BY <1>3, <1>5, <1>6, <2>1, Induction
<1> QED BY <1>1, <1>2, <1>3, <1>7 DEF K

\* What leads to a page is there.
LEMMA PrefixThere ==
  ASSUME NEW r, NEW root, NEW a \in Address, Walk(r, root, a) # None, NEW k \in 1..(Levels - 1)
  PROVE  Walk(r, root, SubSeq(a, 1, k)) # None
<1> SUFFICES ASSUME Walk(r, root, SubSeq(a, 1, k)) = None PROVE FALSE
  OBVIOUS
<1>1. PICK q : q = SubSeq(a, 1, k)
  OBVIOUS
<1>2. k \in 0..Levels /\ k < Levels /\ k \in Nat /\ Levels \in Nat
  BY VirtualMemoryAssumption
<1>3. q \in Seq(Index) /\ Len(q) = k /\ \A j \in 1..k : q[j] = a[j]
  BY <1>1, <1>2, Prefix
<1>4. ASSUME NEW v \in Seq(Index), Len(v) = Len(q) + 1, Extends(v, q)
      PROVE  Walk(r, root, v) = None
  <2>1. Len(v) > 0 /\ Len(v) - 1 = k
    BY <1>2, <1>3, <1>4
  <2>2. Front(v) \in Seq(Index) /\ Len(Front(v)) = k /\ \A j \in 1..k : Front(v)[j] = v[j]
    BY <2>1, FrontIs
  <2>3. Front(v) = q
    BY <1>3, <1>4, <2>2, SamePath DEF Extends
  <2> QED BY <1>1, <2>1, <2>3, WalkFront
<1>5. \A v \in Seq(Index) : Len(v) > Len(q) /\ Extends(v, q) => Walk(r, root, v) = None
  BY <1>3, <1>4, DeadBelow
<1>6. a \in Seq(Index) /\ Len(a) = Levels
  BY Whole
<1>7. Len(a) > Len(q) /\ Extends(a, q)
  BY <1>2, <1>3, <1>6 DEF Extends
<1> QED BY <1>5, <1>6, <1>7

\* remove_virtual_addressing gives back the frames below its root, and no other.
LEMMA RemoveSound ==
  ASSUME NEW r, NEW S \in SUBSET Frames, Sound(r, S), NEW root \in S,
         NEW n, n = remove_virtual_addressing(r, root), NEW T, T = S \ {root}
  PROVE  Sound(n, T) /\ n.entry = r.entry /\ Shows(r, n, T, {})
<1>1. r \in Ram /\ Tree(r, S, {}) /\ SharesKernelHalf(r, S) /\ NoUserHalf(r) /\ TablesLeadToPages(r, S, {})
  BY DEF Sound
<1>2. PICK leaves, F : /\ leaves = {Walk(r, root, a).addr : a \in WalkedPages(r, root)}
                       /\ F = leaves \cup WalkedTables(r, root)
  OBVIOUS
<1>3. /\ n.used = r.used \ F /\ n.entry = r.entry
      /\ n.data = [f \in Frames |-> IF f \in leaves THEN Junk ELSE r.data[f]]
      /\ n = [used |-> n.used, entry |-> n.entry, data |-> n.data]
  BY <1>1, <1>2 DEF remove_virtual_addressing, Ram
<1>4. n \in Ram
  <2>1. n.data \in [Frames -> Values \cup {Junk}]
    BY <1>1, <1>3 DEF Ram
  <2> QED BY <1>1, <1>3, <2>1 DEF Ram
<1>5. /\ \A b, p : Walk(n, b, p) = Walk(r, b, p)
      /\ \A m : At(n, m) = At(r, m)
  BY <1>3, SameEntries
<1>6. Nodes(T) = {m \in Nodes(S) : m[1] # root}
  <2>1. root # KernelRoot
    BY VirtualMemoryAssumption DEF Frames, KernelRoot
  <2> QED BY <2>1 DEF Nodes
<1>7. \A a \in ToSet(UserPages) : a \in Address /\ a \in PathsTo(UserPages) /\ Len(a) = Levels
  <2> SUFFICES ASSUME NEW a \in ToSet(UserPages)
               PROVE  a \in Address /\ a \in PathsTo(UserPages) /\ Len(a) = Levels
    OBVIOUS
  <2>1. a \in Address /\ Levels \in 1..Levels
    BY PagesAre, VirtualMemoryAssumption
  <2>2. SubSeq(a, 1, Levels) = a /\ Len(a) = Levels
    BY <2>1, Whole
  <2> QED BY <2>1, <2>2 DEF PathsTo
<1>8. \A p \in PathsTo(UserPages) \cup {<< >>} : <<root, p>> \in Nodes(S)
  BY DEF Nodes
\* What is freed hung below the root ...
<1>9. ASSUME NEW f \in F PROVE \E m \in Nodes(S) : m[1] = root /\ At(r, m) # None /\ At(r, m).addr = f
  <2>1. CASE f \in leaves
    <3>1. PICK a \in WalkedPages(r, root) : f = Walk(r, root, a).addr
      BY <1>2, <2>1
    <3>2. a \in ToSet(UserPages) /\ Walk(r, root, a) # None
      BY DEF WalkedPages
    <3>3. <<root, a>> \in Nodes(S) /\ At(r, <<root, a>>) = Walk(r, root, a) /\ <<root, a>>[1] = root
      BY <1>7, <1>8, <3>2 DEF At
    <3> QED BY <3>1, <3>2, <3>3
  <2>2. CASE f = root
    <3>1. PICK E : E = {}
      OBVIOUS
    <3>2. Tree(r, S, E)
      BY <1>1, <3>1
    <3>3. /\ <<root, << >> >> \in Nodes(S) /\ At(r, <<root, << >> >>) # None
          /\ At(r, <<root, << >> >>).addr = root /\ <<root, << >> >>[1] = root
      BY <3>2, RootsUsed
    <3> QED BY <2>2, <3>3
  <2>3. CASE \E a \in WalkedPages(r, root) : \E k \in 1..(Levels - 1) :
                f = Walk(r, root, SubSeq(a, 1, k)).addr
    <3>1. PICK a \in WalkedPages(r, root), k \in 1..(Levels - 1) :
             f = Walk(r, root, SubSeq(a, 1, k)).addr
      BY <2>3
    <3>2. a \in ToSet(UserPages) /\ Walk(r, root, a) # None /\ a \in Address
      BY <1>7 DEF WalkedPages
    <3>3. PICK p : p = SubSeq(a, 1, k)
      OBVIOUS
    <3>4. Walk(r, root, p) # None
      BY <3>2, <3>3, PrefixThere
    <3>5. p \in PathsTo(UserPages)
      <4>1. k \in 1..Levels
        BY VirtualMemoryAssumption
      <4> QED BY <3>2, <3>3, <4>1 DEF PathsTo
    <3>6. <<root, p>> \in Nodes(S) /\ At(r, <<root, p>>) = Walk(r, root, p) /\ <<root, p>>[1] = root
      BY <1>8, <3>5 DEF At
    <3> QED BY <3>1, <3>3, <3>4, <3>6
  <2>4. f \in leaves \/ f = root \/ \E a \in WalkedPages(r, root) : \E k \in 1..(Levels - 1) :
                f = Walk(r, root, SubSeq(a, 1, k)).addr
    BY <1>2 DEF WalkedTables
  <2> QED BY <2>1, <2>2, <2>3, <2>4
\* ... and all of that is freed.
<1>10. ASSUME NEW m \in Nodes(S), m[1] = root, At(r, m) # None PROVE At(r, m).addr \in F
  <2>1. m = <<root, m[2]>> /\ m[2] \in PathsTo(UserPages) \cup {<< >>}
    <3>1. root # KernelRoot
      BY VirtualMemoryAssumption DEF Frames, KernelRoot
    <3> QED BY <1>10, <3>1 DEF Nodes
  <2>2. PICK p : p = m[2]
    OBVIOUS
  <2>3. At(r, m) = Walk(r, root, p)
    BY <1>10, <2>2 DEF At
  <2>4. CASE p = << >>
    <3>1. Walk(r, root, << >>) = Pte(root, TRUE)
      BY WalkEmpty
    <3>2. At(r, m).addr = root
      BY <2>3, <2>4, <3>1 DEF Pte
    <3> QED BY <1>2, <3>2 DEF WalkedTables
  <2>5. CASE p \in PathsTo(UserPages)
    <3>1. PICK a \in ToSet(UserPages) : SubSeq(a, 1, Len(p)) = p /\ Walk(r, root, a) # None
      BY <1>1, <1>10, <2>3, <2>5 DEF TablesLeadToPages
    <3>2. a \in WalkedPages(r, root)
      BY <3>1 DEF WalkedPages
    <3>3. Len(p) \in 1..Levels
      BY <2>5, PathFacts, PagesAre
    <3>4. CASE Len(p) = Levels
      <4>1. p = a
        BY <1>7, <3>1, <3>4, Whole
      <4> QED BY <1>2, <2>3, <3>2, <4>1
    <3>5. CASE Len(p) # Levels
      <4>1. Len(p) \in 1..(Levels - 1)
        BY <3>3, <3>5, VirtualMemoryAssumption
      <4>2. PICK k \in 1..(Levels - 1) : k = Len(p)
        BY <4>1
      <4>3. Walk(r, root, p).addr \in {Walk(r, root, SubSeq(a, 1, j)).addr : j \in 1..(Levels - 1)}
        BY <3>1, <4>2
      <4>4. Walk(r, root, p).addr \in WalkedTables(r, root)
        BY <3>2, <4>3 DEF WalkedTables
      <4> QED BY <1>2, <2>3, <4>4
    <3> QED BY <3>4, <3>5
  <2> QED BY <2>1, <2>2, <2>4, <2>5
<1>11. ASSUME NEW m \in Nodes(T), At(r, m) # None PROVE At(r, m).addr \notin F
  <2> SUFFICES ASSUME At(r, m).addr \in F PROVE FALSE
    OBVIOUS
  <2>1. PICK o \in Nodes(S) : o[1] = root /\ At(r, o) # None /\ At(r, o).addr = At(r, m).addr
    BY <1>9
  <2>2. m \in Nodes(S) /\ m[1] # root
    BY <1>6
  <2>3. At(r, o).addr # Device
    <3>1. root # KernelRoot
      BY VirtualMemoryAssumption DEF Frames, KernelRoot
    <3> QED BY <1>1, <2>1, <3>1 DEF Tree
  <2>4. o = m
    BY <1>1, <1>11, <2>1, <2>2, <2>3 DEF Tree
  <2> QED BY <2>1, <2>2, <2>4
<1>12. Tree(n, T, {})
  <2>1. ASSUME NEW m \in Nodes(T), At(n, m) # None
        PROVE  /\ At(n, m).addr \in (n.used \ {}) \cup {KernelRoot, Device}
               /\ At(n, m).addr = Device => m[1] = KernelRoot /\ Len(m[2]) = Levels
    <3>1. m \in Nodes(S) /\ At(r, m) # None
      BY <1>5, <1>6, <2>1
    <3>2. /\ At(r, m).addr \in (r.used \ {}) \cup {KernelRoot, Device}
          /\ At(r, m).addr = Device => m[1] = KernelRoot /\ Len(m[2]) = Levels
      BY <1>1, <3>1 DEF Tree
    <3> QED BY <1>3, <1>5, <1>11, <3>1, <3>2
  <2>2. \A m, o \in Nodes(T) :
           (At(n, m) # None /\ At(n, o) # None /\ At(n, m).addr = At(n, o).addr) =>
               m = o \/ At(n, m).addr = Device
    BY <1>1, <1>5, <1>6 DEF Tree
  <2>3. ASSUME NEW g \in n.used PROVE \E m \in Nodes(T) : At(n, m) # None /\ At(n, m).addr = g
    <3>1. g \in r.used /\ g \notin F
      BY <1>3
    <3>2. PICK m \in Nodes(S) : At(r, m) # None /\ At(r, m).addr = g
      BY <1>1, <3>1 DEF Tree
    <3>3. m \in Nodes(T)
      BY <1>6, <1>10, <3>1, <3>2
    <3> QED BY <1>5, <3>2, <3>3
  <2> QED BY <2>1, <2>2, <2>3 DEF Tree
<1>13. SharesKernelHalf(n, T) /\ NoUserHalf(n)
  BY <1>1, <1>3 DEF SharesKernelHalf, NoUserHalf
<1>14. TablesLeadToPages(n, T, {})
  BY <1>1, <1>5 DEF TablesLeadToPages
<1>15. Shows(r, n, T, {})
  <2> SUFFICES ASSUME NEW s \in T, NEW a \in ToSet(UserPages), Walk(r, s, a) # None
               PROVE  n.data[Walk(r, s, a).addr] = r.data[Walk(r, s, a).addr]
    BY <1>5 DEF Shows
  <2>1. <<s, a>> \in Nodes(T) /\ At(r, <<s, a>>) = Walk(r, s, a)
    BY <1>7 DEF Nodes, At
  <2>2. Walk(r, s, a).addr \notin F
    BY <1>11, <2>1
  <2>3. Walk(r, s, a).addr \in Frames
    BY SoundPage
  <2> QED BY <1>2, <1>3, <2>2, <2>3
<1> QED BY <1>3, <1>4, <1>12, <1>13, <1>14, <1>15 DEF Sound

-----------------------------------------------------------------------------
(* The memory that fill_kernel_pml4 leaves.                                *)

\* The kernel half of the root is filled up to the k-th entry of it.
Filled(r, k) ==
    /\ r \in Ram /\ Tree(r, {}, {}) /\ NoUserHalf(r)
    /\ \A i \in KernelIndex : i < KernelStart + k => r.entry[KernelRoot][i] # None

\* Empty tables make a tree.
LEMMA BlankFilled ==
  ASSUME NEW r, r = [used  |-> {},
                     entry |-> [f \in Frames \cup {KernelRoot} |-> Blank],
                     data  |-> [f \in Frames |-> Junk]]
  PROVE  Filled(r, 0)
<1>1. /\ r.used = {} /\ r.entry = [f \in Frames \cup {KernelRoot} |-> Blank]
      /\ r.data = [f \in Frames |-> Junk]
  OBVIOUS
<1>2. r \in Ram
  BY <1>1 DEF Ram, Blank
<1>3. \A i \in Index : r.entry[KernelRoot][i] = None
  BY <1>1 DEF Blank
<1>4. Pte(KernelRoot, TRUE) # None /\ Pte(KernelRoot, TRUE).addr = KernelRoot
  <2>1. Pte(KernelRoot, TRUE) \in [addr : Int, exec : BOOLEAN]
    BY DEF Pte, KernelRoot
  <2> QED BY <2>1, VirtualMemoryAssumption DEF Pte
<1>5. ASSUME NEW v \in Seq(Index), Len(v) = 1 PROVE Walk(r, KernelRoot, v) = None
  <2>1. Front(v) \in Seq(Index) /\ Len(Front(v)) = 0
    <3>1. Len(v) > 0 /\ Len(v) - 1 = 0
      BY <1>5
    <3> QED BY <3>1, FrontIs
  <2>2. Front(v) = << >>
    BY <2>1
  <2>3. v[1] \in Index
    BY <1>5
  <2>4. Walk(r, KernelRoot, Front(v)) = Pte(KernelRoot, TRUE)
    BY <2>2, WalkEmpty
  <2>5. Walk(r, KernelRoot, v) = r.entry[KernelRoot][v[1]]
    <3>1. Len(v) > 0
      BY <1>5
    <3>2. Walk(r, KernelRoot, v) = IF Walk(r, KernelRoot, Front(v)) = None THEN None
             ELSE r.entry[Walk(r, KernelRoot, Front(v)).addr][v[Len(v)]]
      BY <3>1, WalkFront
    <3> QED BY <1>4, <1>5, <2>4, <3>2
  <2> QED BY <1>3, <2>3, <2>5
<1>6. \A v \in Seq(Index) : Len(v) > 0 => Walk(r, KernelRoot, v) = None
  <2>1. PICK q : q = << >>
    OBVIOUS
  <2>2. q \in Seq(Index) /\ Len(q) = 0 /\ \A v : Extends(v, q) <=> 0 <= Len(v)
    BY <2>1 DEF Extends
  <2>3. \A v \in Seq(Index) : Len(v) = Len(q) + 1 /\ Extends(v, q) => Walk(r, KernelRoot, v) = None
    <3>1. Len(q) + 1 = 1
      BY <2>2
    <3> QED BY <1>5, <3>1
  <2>4. \A v \in Seq(Index) : Len(v) > Len(q) /\ Extends(v, q) => Walk(r, KernelRoot, v) = None
    BY <2>2, <2>3, DeadBelow
  <2>5. ASSUME NEW v \in Seq(Index), Len(v) > 0 PROVE Len(v) > Len(q) /\ Extends(v, q)
    BY <2>2, <2>5
  <2> QED BY <2>4, <2>5
<1>7. ASSUME NEW m \in Nodes({}), At(r, m) # None
      PROVE  m = <<KernelRoot, << >> >> /\ At(r, m).addr = KernelRoot
  <2>1. m = <<m[1], m[2]>> /\ m[1] = KernelRoot /\ m[2] \in TreeOf(KernelRoot)
    <3>1. PICK S : S = {}
      OBVIOUS
    <3>2. S \in SUBSET Frames /\ m \in Nodes(S)
      BY <3>1
    <3>3. m = <<m[1], m[2]>> /\ m[1] \in S \cup {KernelRoot} /\ m[2] \in TreeOf(m[1])
      BY <3>2, NodeIs
    <3> QED BY <3>1, <3>3
  <2>2. m[2] \in Seq(Index) /\ Len(m[2]) \in 0..Levels
    BY <2>1, TreeFacts
  <2>3. At(r, m) = Walk(r, KernelRoot, m[2])
    BY <2>1 DEF At
  <2>4. Len(m[2]) = 0
    BY <1>6, <1>7, <2>2, <2>3
  <2>5. m[2] = << >>
    BY <2>2, <2>4
  <2>6. At(r, m) = Pte(KernelRoot, TRUE)
    BY <2>3, <2>5, WalkEmpty
  <2> QED BY <1>4, <2>1, <2>5, <2>6
<1>8. KernelRoot # Device
  BY DEF KernelRoot, Device
<1>9. Tree(r, {}, {})
  BY <1>1, <1>7, <1>8 DEF Tree
<1>10. NoUserHalf(r)
  BY <1>3 DEF NoUserHalf
<1>11. \A i \in KernelIndex : ~(i < KernelStart + 0)
  BY VirtualMemoryAssumption DEF KernelIndex
<1> QED BY <1>2, <1>9, <1>10, <1>11 DEF Filled

\* One more entry.
LEMMA FillKeeps ==
  ASSUME NEW r, NEW k \in Nat, k < IndexCount - KernelStart, Filled(r, k),
         NEW n, n = FillEntry(r, KernelStart + k), n # Crash
  PROVE  Filled(n, k + 1)
<1>1. PICK i : i = KernelStart + k
  OBVIOUS
<1>2. /\ i \in KernelIndex /\ i \in Index
      /\ \A j \in KernelIndex : j < KernelStart + (k + 1) => j = i \/ j < KernelStart + k
  BY <1>1, VirtualMemoryAssumption DEF KernelIndex, Index
<1>3. r \in Ram /\ Tree(r, {}, {}) /\ NoUserHalf(r)
  BY DEF Filled
<1>4. r # Crash
  BY <1>3, NoCrash
<1>5. CASE r.entry[KernelRoot][i] # None
  <2>1. n = r
    BY <1>1, <1>4, <1>5 DEF FillEntry
  <2> QED BY <1>2, <1>5, <2>1 DEF Filled
<1>6. CASE r.entry[KernelRoot][i] = None
  <2>1. n = setup_page_table_entry(r, KernelRoot, i)
    BY <1>1, <1>6 DEF FillEntry
  <2>2. PICK S, E, R, q, f, x : /\ S = {} /\ E = {} /\ R = KernelRoot /\ q = <<i>>
                                /\ f = FirstFree(r) /\ x = TRUE
    OBVIOUS
  <2>3. q \in TreeOf(R) /\ q \in Seq(Index) /\ Len(q) = 1 /\ q[1] = i
    BY <1>2, <2>2 DEF TreeOf, KernelTree, KernelPaths
  <2>4. Len(q) > 0 /\ Len(q) < Levels /\ q[Len(q)] = i
    BY <2>3, VirtualMemoryAssumption
  <2>5. Walk(r, R, Front(q)) # None /\ R = Walk(r, R, Front(q)).addr
    <3>1. Front(q) \in Seq(Index) /\ Len(Front(q)) = 0
      <4>1. Len(q) > 0 /\ Len(q) - 1 = 0
        BY <2>3
      <4> QED BY <2>3, <4>1, FrontIs
    <3>2. Front(q) = << >>
      BY <3>1
    <3>3. Pte(R, TRUE) \in [addr : Int, exec : BOOLEAN] /\ Pte(R, TRUE).addr = R
      BY <2>2 DEF Pte, KernelRoot
    <3>4. Walk(r, R, Front(q)) = Pte(R, TRUE)
      BY <3>2, WalkEmpty
    <3> QED BY <3>3, <3>4, VirtualMemoryAssumption
  <2>6. S \in SUBSET Frames /\ Tree(r, S, E) /\ R \in S \cup {KernelRoot}
    BY <1>3, <2>2
  <2>7. SetsUp(r, n, S, E, R, q, R, i, f, x)
    BY <1>3, <2>1, <2>2, <2>3, <2>4, <2>5, <2>6 DEF SetsUp
  <2>8. Enters(r, n, S, E, R, q, f, x) /\ n.entry[R][i] = Pte(f, x)
    BY <2>7, SetupEnters
  <2>9. Tree(n, S, E \ {f})
    BY <2>8, FillsTree
  <2>10. n \in Ram /\ Fills(r, n, R, q, f, x) /\ f \in Frames \cup {Device}
    BY <2>8 DEF Enters
  <2>11. Tree(n, {}, {})
    <3>1. E \ {f} = {}
      BY <2>2
    <3> QED BY <2>2, <2>9, <3>1
  <2>12. R # f /\ R \in Frames \cup {KernelRoot}
    <3>1. KernelRoot \notin Frames
      BY VirtualMemoryAssumption DEF Frames, KernelRoot
    <3>2. KernelRoot # Device
      BY DEF KernelRoot, Device
    <3> QED BY <2>2, <2>10, <3>1, <3>2
  <2>13. \A j \in Index : j # i => n.entry[KernelRoot][j] = r.entry[KernelRoot][j]
    BY <2>2, <2>4, <2>10, <2>12 DEF Fills
  <2>14. n.entry[KernelRoot][i] # None
    <3>1. f \in Int /\ x \in BOOLEAN
      BY <2>2, <2>10 DEF Frames, Device
    <3>2. Pte(f, x) \in [addr : Int, exec : BOOLEAN]
      BY <3>1 DEF Pte
    <3> QED BY <2>2, <2>8, <3>2, VirtualMemoryAssumption
  <2>15. NoUserHalf(n)
    BY <1>2, <1>3, <2>13 DEF NoUserHalf
  <2>16. KernelIndex \subseteq Index
    BY VirtualMemoryAssumption DEF KernelIndex, Index
  <2>17. \A j \in KernelIndex : j < KernelStart + (k + 1) => n.entry[KernelRoot][j] # None
    BY <1>2, <2>13, <2>14, <2>16 DEF Filled
  <2> QED BY <2>10, <2>11, <2>15, <2>17 DEF Filled
<1> QED BY <1>5, <1>6

\* All of them.
LEMMA FillSound ==
  ASSUME NEW r, Filled(r, 0), NEW n, n = fill_kernel_pml4(r)
  PROVE  n = Crash \/ Sound(n, {})
<1>1. PICK m : IsRun(m, "fill", 0, r, IndexCount - KernelStart) /\ n = m[IndexCount - KernelStart]
  BY FillRun
<1>2. PICK L, c : L = IndexCount - KernelStart /\ c = 0
  OBVIOUS
<1>3. L \in Nat
  BY <1>2, VirtualMemoryAssumption
<1>4. m[0] = r /\ \A k \in 1..L : m[k] = FillEntry(m[k - 1], KernelStart + k - 1)
  <2>1. IsRun(m, "fill", c, r, L)
    BY <1>1, <1>2
  <2>2. m[0] = r /\ \A k \in 1..L : m[k] = Step("fill", c, k, m[k - 1])
    BY <1>3, <2>1, RunStep
  <2> QED BY <2>2 DEF Step
<1> DEFINE K == {k \in Nat : k <= L => m[k] = Crash \/ Filled(m[k], k)}
<1>5. 0 \in K
  BY <1>4
<1>6. ASSUME NEW k \in K PROVE k + 1 \in K
  <2> SUFFICES ASSUME k + 1 <= L PROVE m[k + 1] = Crash \/ Filled(m[k + 1], k + 1)
    OBVIOUS
  <2>1. k + 1 \in 1..L /\ (k + 1) - 1 = k /\ k <= L /\ KernelStart + (k + 1) - 1 = KernelStart + k
    BY <1>3, VirtualMemoryAssumption
  <2>2. PICK h, g : h = m[k] /\ g = m[k + 1]
    OBVIOUS
  <2>3. g = FillEntry(h, KernelStart + k)
    BY <1>4, <2>1, <2>2
  <2>4. CASE h = Crash
    BY <2>2, <2>3, <2>4 DEF FillEntry, setup_page_table_entry
  <2>5. CASE h # Crash
    <3>1. Filled(h, k)
      BY <2>1, <2>2, <2>5
    <3>2. k \in Nat /\ k < IndexCount - KernelStart
      BY <1>2, <1>3
    <3>3. g # Crash => Filled(g, k + 1)
      BY <2>3, <3>1, <3>2, FillKeeps
    <3> QED BY <2>2, <3>3
  <2> QED BY <2>4, <2>5
<1> HIDE DEF K
<1>7. L \in K
  <2>1. K \in SUBSET Nat
    BY DEF K
  <2> QED BY <1>3, <1>5, <1>6, <2>1, Induction
<1>8. n = Crash \/ Filled(n, L)
  BY <1>1, <1>2, <1>3, <1>7 DEF K
<1>9. ASSUME Filled(n, L) PROVE Sound(n, {})
  <2>1. \A i \in KernelIndex : n.entry[KernelRoot][i] # None
    <3>1. \A i \in KernelIndex : i < KernelStart + L
      BY <1>2, VirtualMemoryAssumption DEF KernelIndex
    <3> QED BY <1>9, <3>1 DEF Filled
  <2>2. SharesKernelHalf(n, {})
    BY <2>1 DEF SharesKernelHalf
  <2>3. TablesLeadToPages(n, {}, {})
    BY DEF TablesLeadToPages
  <2> QED BY <1>9, <2>2, <2>3 DEF Filled, Sound
<1> QED BY <1>8, <1>9

-----------------------------------------------------------------------------
(* The invariant.                                                          *)

\* What a sound memory gives to the roots that live in it.
LEMMA SoundGives ==
  ASSUME NEW r, NEW S \in SUBSET Frames, Sound(r, S), NEW c \in S \cup {KernelRoot}
  PROVE  r \in Ram /\ S \subseteq r.used /\ SharesKernelHalf(r, {c}) /\ c \in Frames \cup {KernelRoot}
<1>1. \A s \in S : s \in r.used
  <2>1. PICK E : E = {}
    OBVIOUS
  <2>2. Tree(r, S, E)
    BY <2>1 DEF Sound
  <2> QED BY <2>2, RootsUsed
<1>2. SharesKernelHalf(r, {c})
  <2>1. SharesKernelHalf(r, S)
    BY DEF Sound
  <2> QED BY <2>1 DEF SharesKernelHalf
<1> QED BY <1>1, <1>2 DEF Sound

\* The end of an operation of the kernel.
LEMMA CommitKeeps ==
  ASSUME VmInv, Settled, NEW n, NEW T \in SUBSET Frames, n = Crash \/ Sound(n, T), Commit(n),
         spaces \subseteq T, spaces' = IF n = Crash THEN spaces ELSE T, cr3' = cr3,
         heap' \in 1..Len(KernelHeap), mmio' \in 0..Len(MmioPages),
         last' \in {"load", "clone", "other"}
  PROVE  VmInv'
<1>1. CASE n = Crash
  <2>1. ram' = ram /\ spaces' = spaces /\ halted' \in BOOLEAN
    BY <1>1 DEF Commit
  <2> QED BY <2>1 DEF VmInv, TypeOK, Sound, Tree, SharesKernelHalf, NoUserHalf, TablesLeadToPages
<1>2. CASE n # Crash
  <2>1. ram' = n /\ spaces' = T /\ halted' \in BOOLEAN /\ Sound(n, T)
    BY <1>2 DEF Commit
  <2>2. cr3 \in T \cup {KernelRoot}
    BY DEF Settled
  <2>3. n \in Ram /\ T \subseteq n.used /\ SharesKernelHalf(n, {cr3}) /\ cr3 \in Frames \cup {KernelRoot}
    BY <2>1, <2>2, SoundGives
  <2>4. TypeOK'
    BY <2>1, <2>3 DEF TypeOK
  <2>5. Sound(ram, spaces)' /\ SharesKernelHalf(ram, {cr3})'
    BY <2>1, <2>3
  <2> QED BY <2>4, <2>5 DEF VmInv
<1> QED BY <1>1, <1>2

\* The roots are frames.
LEMMA SpacesAre ==
  ASSUME VmInv
  PROVE  /\ spaces \in SUBSET Frames /\ Sound(ram, spaces) /\ ram \in Ram /\ ram # Crash
         /\ KernelRoot \notin spaces
<1>1. spaces \in SUBSET Frames /\ Sound(ram, spaces) /\ ram \in Ram
  BY DEF VmInv, TypeOK, Ram
<1> QED BY <1>1, NoCrash, VirtualMemoryAssumption DEF Frames, KernelRoot

\* Memory is sound once the kernel has booted.
LEMMA InitInv ==
  ASSUME Init
  PROVE  VmInv
<1>1. PICK b, r, a, x : /\ b = [used  |-> {}, entry |-> [f \in Frames \cup {KernelRoot} |-> Blank],
                                data  |-> [f \in Frames |-> Junk]]
                        /\ r = fill_kernel_pml4(b) /\ a = KernelHeap[1] /\ x = FALSE
  OBVIOUS
<1>2. ram = allocate_ram_page(r, KernelRoot, a, x) /\ ram # Crash
  BY <1>1 DEF Init
<1>3. r = Crash \/ Sound(r, {})
  <2>1. Filled(b, 0)
    BY <1>1, BlankFilled
  <2> QED BY <1>1, <2>1, FillSound
<1>4. r # Crash
  BY <1>2 DEF allocate_ram_page
<1>5. PICK S, R : S = {} /\ R = KernelRoot
  OBVIOUS
<1>6. AddressOf(R, a)
  <2>1. KernelHeap \in Seq(Address) /\ KernelHeap # << >>
    BY PagesAre, VirtualMemoryAssumption
  <2>2. KernelHeap[1] \in ToSet(KernelHeap)
    BY <2>1 DEF ToSet
  <2> QED BY <1>1, <1>5, <2>2 DEF AddressOf
<1>7. S \in SUBSET Frames /\ R \in S \cup {KernelRoot} /\ Sound(r, S)
  BY <1>3, <1>4, <1>5
<1>8. Allocates(r, ram, S, R, R, a, x)
  BY <1>1, <1>2, <1>5, <1>6, <1>7 DEF Allocates
<1>9. Sound(ram, S)
  BY <1>8, AllocateSound
<1>10. ram \in Ram /\ SharesKernelHalf(ram, {R})
  BY <1>7, <1>9, SoundGives
<1>11. 1 \in 1..Len(KernelHeap) /\ 0 \in 0..Len(MmioPages)
  BY PagesAre, VirtualMemoryAssumption
<1>12. spaces = S /\ cr3 = R /\ heap = 1 /\ mmio = 0 /\ last = "other" /\ halted = FALSE
  BY <1>5 DEF Init, Quiet
<1>13. TypeOK
  BY <1>5, <1>10, <1>11, <1>12 DEF TypeOK
<1> QED BY <1>9, <1>10, <1>12, <1>13 DEF VmInv

\* The kernel's heap grows by a page, under whatever space is current.
LEMMA HeapKeeps ==
  ASSUME VmInv, _malloc_expand_heap
  PROVE  VmInv'
<1>1. /\ Settled /\ heap < Len(KernelHeap) /\ heap' = heap + 1 /\ last' = "other"
      /\ cr3' = cr3 /\ spaces' = spaces /\ mmio' = mmio
  BY DEF _malloc_expand_heap, Quiet
<1>2. PICK n, a, x : /\ a = KernelHeap[heap + 1] /\ x = FALSE
                     /\ n = allocate_ram_page(ram, cr3, a, x)
  OBVIOUS
<1>3. Commit(n)
  BY <1>2 DEF _malloc_expand_heap
<1>4. spaces \in SUBSET Frames /\ Sound(ram, spaces)
  BY SpacesAre
<1>5. heap + 1 \in 1..Len(KernelHeap) /\ mmio \in 0..Len(MmioPages)
  BY <1>1, PagesAre DEF VmInv, TypeOK
<1>6. PICK R : R = KernelRoot
  OBVIOUS
<1>7. AddressOf(R, a)
  BY <1>2, <1>5, <1>6, PagesAre DEF AddressOf, ToSet
<1>8. n # Crash => Allocates(ram, n, spaces, R, cr3, a, x)
  BY <1>1, <1>2, <1>4, <1>6, <1>7 DEF Allocates, Settled
<1>9. n = Crash \/ Sound(n, spaces)
  BY <1>8, AllocateSound
<1> QED BY <1>1, <1>3, <1>4, <1>5, <1>9, CommitKeeps

\* A device's registers are mapped (setup_mmio): the entry leads out of the frames.
LEMMA MmioKeeps ==
  ASSUME VmInv, setup_mmio
  PROVE  VmInv'
<1>1. /\ Settled /\ mmio < Len(MmioPages) /\ mmio' = mmio + 1 /\ last' = "other"
      /\ cr3' = cr3 /\ spaces' = spaces /\ heap' = heap
  BY DEF setup_mmio, Quiet
<1>2. PICK n, a, x : /\ a = MmioPages[mmio + 1] /\ x = FALSE
                     /\ n = map_page(ram, cr3, a, Device, x)
  OBVIOUS
<1>3. Commit(n)
  BY <1>2 DEF setup_mmio
<1>4. spaces \in SUBSET Frames /\ Sound(ram, spaces)
  BY SpacesAre
<1>5. mmio + 1 \in 1..Len(MmioPages) /\ mmio + 1 \in 0..Len(MmioPages) /\ heap \in 1..Len(KernelHeap)
  BY <1>1, PagesAre DEF VmInv, TypeOK
<1>6. PICK R, E, f : R = KernelRoot /\ E = {} /\ f = Device
  OBVIOUS
<1>7. AddressOf(R, a)
  BY <1>2, <1>5, <1>6, PagesAre DEF AddressOf, ToSet
<1>8. Growing(ram, spaces, E, {})
  BY <1>4, <1>6, SoundIs
<1>9. n # Crash => Maps(ram, n, spaces, E, R, cr3, a, f, x)
  BY <1>1, <1>2, <1>4, <1>6, <1>7, <1>8 DEF Maps, Settled
<1>10. n # Crash => Growing(n, spaces, E \ {f}, {})
  BY <1>9, MapGrows
<1>11. n = Crash \/ Sound(n, spaces)
  <2>1. E \ {f} = {}
    BY <1>6
  <2> QED BY <1>10, <2>1, SoundIs
<1> QED BY <1>1, <1>3, <1>4, <1>5, <1>11, CommitKeeps

\* A program gets the page it asks for (syscall_request_page).
LEMMA RequestKeeps ==
  ASSUME VmInv, NEW a \in ToSet(UserPages), syscall_request_page(a)
  PROVE  VmInv'
<1>1. /\ Settled /\ cr3 # KernelRoot /\ last' = "other"
      /\ cr3' = cr3 /\ spaces' = spaces /\ heap' = heap /\ mmio' = mmio
  BY DEF syscall_request_page, Quiet
<1>2. PICK n, x : x = FALSE /\ n = allocate_ram_page(ram, cr3, a, x)
  OBVIOUS
<1>3. Commit(n)
  BY <1>2 DEF syscall_request_page
<1>4. spaces \in SUBSET Frames /\ Sound(ram, spaces)
  BY SpacesAre
<1>5. mmio \in 0..Len(MmioPages) /\ heap \in 1..Len(KernelHeap)
  BY DEF VmInv, TypeOK
<1>6. AddressOf(cr3, a) /\ cr3 \in spaces
  BY <1>1 DEF AddressOf, Settled
<1>7. n # Crash => Allocates(ram, n, spaces, cr3, cr3, a, x)
  BY <1>2, <1>4, <1>6 DEF Allocates
<1>8. n = Crash \/ Sound(n, spaces)
  BY <1>7, AllocateSound
<1> QED BY <1>1, <1>3, <1>4, <1>5, <1>8, CommitKeeps

\* Once memory has run out, the loops end without any.
LEMMA LoadCrash ==
  ASSUME NEW root, NEW others
  PROVE  LoadPages(Crash, root, others) = Crash
<1>1. PICK L, c, r : L = Len(UserPages) /\ c = [root |-> root, others |-> others] /\ r = Crash
  OBVIOUS
<1>2. PICK m : IsRun(m, "load", c, r, L) /\ LoadPages(r, root, others) = m[L]
  BY <1>1, LoadRun
<1>3. L \in Nat
  BY <1>1, PagesAre
<1>4. m[0] = r /\ \A k \in 1..L : m[k] = LoadStep(c, k, m[k - 1])
  <2>1. m[0] = r /\ \A k \in 1..L : m[k] = Step("load", c, k, m[k - 1])
    BY <1>2, <1>3, RunStep
  <2> QED BY <2>1 DEF Step
<1> DEFINE K == {k \in Nat : k <= L => m[k] = r}
<1>5. 0 \in K
  BY <1>4
<1>6. ASSUME NEW k \in K PROVE k + 1 \in K
  <2> SUFFICES ASSUME k + 1 <= L PROVE m[k + 1] = r
    OBVIOUS
  <2>1. k + 1 \in 1..L /\ (k + 1) - 1 = k /\ m[k] = r
    BY <1>3
  <2>2. m[k + 1] = LoadStep(c, k + 1, r)
    BY <1>4, <2>1
  <2> QED BY <1>1, <2>2 DEF LoadStep, allocate_ram_page
<1> HIDE DEF K
<1>7. L \in K
  <2>1. K \in SUBSET Nat
    BY DEF K
  <2> QED BY <1>3, <1>5, <1>6, <2>1, Induction
<1> QED BY <1>1, <1>2, <1>3, <1>7 DEF K

\* The same of the loop that copies.
LEMMA CloneCrash ==
  ASSUME NEW from, NEW to, NEW pages
  PROVE  ClonePages(Crash, from, to, pages) = Crash
<1>1. PICK L, c, r : L = Len(UserPages) /\ c = [from |-> from, to |-> to, pages |-> pages] /\ r = Crash
  OBVIOUS
<1>2. PICK m : IsRun(m, "clone", c, r, L) /\ ClonePages(r, from, to, pages) = m[L]
  BY <1>1, CloneRun
<1>3. L \in Nat
  BY <1>1, PagesAre
<1>4. m[0] = r /\ \A k \in 1..L : m[k] = CloneStep(c, k, m[k - 1])
  <2>1. m[0] = r /\ \A k \in 1..L : m[k] = Step("clone", c, k, m[k - 1])
    BY <1>2, <1>3, RunStep
  <2> QED BY <2>1 DEF Step
<1> DEFINE K == {k \in Nat : k <= L => m[k] = r}
<1>5. 0 \in K
  BY <1>4
<1>6. ASSUME NEW k \in K PROVE k + 1 \in K
  <2> SUFFICES ASSUME k + 1 <= L PROVE m[k + 1] = r
    OBVIOUS
  <2>1. k + 1 \in 1..L /\ (k + 1) - 1 = k /\ m[k] = r
    BY <1>3
  <2>2. m[k + 1] = CloneStep(c, k + 1, r)
    BY <1>4, <2>1
  <2> QED BY <1>1, <2>2 DEF CloneStep
<1> HIDE DEF K
<1>7. L \in K
  <2>1. K \in SUBSET Nat
    BY DEF K
  <2> QED BY <1>3, <1>5, <1>6, <2>1, Induction
<1> QED BY <1>1, <1>2, <1>3, <1>7 DEF K

\* A program is loaded into a space of its own.
LEMMA LoadKeeps ==
  ASSUME VmInv, NEW v \in Values, NEW others, instantiate_ELF(v, others)
  PROVE  VmInv'
<1>1. Settled /\ last' = "load" /\ cr3' = cr3 /\ heap' = heap /\ mmio' = mmio
  BY DEF instantiate_ELF
<1>2. PICK root, a, c, seg, filled, r, x :
         /\ root = FirstFree(ram) /\ a = UserPages[1] /\ x = TRUE
         /\ c = generate_clean_virtual_addressing(ram)
         /\ seg = allocate_ram_page(c, root, a, x)
         /\ filled = IF seg = Crash THEN Crash ELSE [seg EXCEPT !.data[Walk(seg, root, a).addr] = v]
         /\ r = LoadPages(filled, root, others)
  OBVIOUS
<1>3. PICK T : T = spaces \cup {root}
  OBVIOUS
<1>4. Commit(r) /\ spaces' = IF r = Crash THEN spaces ELSE T
  BY <1>2, <1>3 DEF instantiate_ELF
<1>5. spaces \in SUBSET Frames /\ Sound(ram, spaces) /\ ram # Crash
  BY SpacesAre
<1>6. mmio \in 0..Len(MmioPages) /\ heap \in 1..Len(KernelHeap)
  BY DEF VmInv, TypeOK
<1>7. CASE c = Crash
  <2>1. seg = Crash /\ filled = Crash
    BY <1>2, <1>7 DEF allocate_ram_page
  <2>3. r = Crash
    BY <1>2, <2>1, LoadCrash
  <2>4. r = Crash \/ Sound(r, spaces)
    BY <2>3
  <2>5. spaces' = IF r = Crash THEN spaces ELSE spaces
    BY <1>4, <2>3
  <2> QED BY <1>1, <1>4, <1>5, <1>6, <2>4, <2>5, CommitKeeps
<1>8. CASE c # Crash
  <2>1. T \in SUBSET Frames /\ Sound(c, T)
    BY <1>2, <1>3, <1>5, <1>8, CleanSound
  <2>2. root \in T /\ root \in Frames /\ spaces \subseteq T
    BY <1>3, <2>1
  <2>3. AddressOf(root, a)
    <3>1. UserPages \in Seq(Address) /\ UserPages # << >>
      BY PagesAre, VirtualMemoryAssumption
    <3>2. UserPages[1] \in ToSet(UserPages)
      BY <3>1 DEF ToSet
    <3>3. root # KernelRoot
      BY <2>2, VirtualMemoryAssumption DEF Frames, KernelRoot
    <3> QED BY <1>2, <3>2, <3>3 DEF AddressOf
  <2>4. filled = Crash \/ Sound(filled, T)
    <3>1. CASE seg = Crash
      BY <1>2, <3>1
    <3>2. CASE seg # Crash
      <4>1. Allocates(c, seg, T, root, root, a, x)
        BY <1>2, <2>1, <2>2, <2>3, <3>2 DEF Allocates
      <4>2. Sound(seg, T) /\ Walk(seg, root, a).addr \in Frames
        BY <4>1, AllocateSound
      <4>3. PICK f : f = Walk(seg, root, a).addr
        OBVIOUS
      <4>4. filled = [seg EXCEPT !.data[f] = v] /\ f \in Frames /\ v \in Values \cup {Junk}
        BY <1>2, <3>2, <4>2, <4>3
      <4> QED BY <4>2, <4>4, StoreSound
    <3> QED BY <3>1, <3>2
  <2>5. r = Crash \/ Sound(r, T)
    <3>1. PICK U : U = T \ {root}
      OBVIOUS
    <3>2. Loads(filled, r, T, U, root, others)
      BY <1>2, <2>1, <2>2, <2>4, <3>1 DEF Loads
    <3> QED BY <3>2, LoadSound
  <2> QED BY <1>1, <1>4, <1>6, <2>1, <2>2, <2>5, CommitKeeps
<1> QED BY <1>7, <1>8

\* A fork copies the space that runs.
LEMMA ForkKeeps ==
  ASSUME VmInv, clone_virtual_addressing
  PROVE  VmInv'
<1>1. /\ Settled /\ cr3 # KernelRoot /\ last' = "clone" /\ cr3' = cr3 /\ heap' = heap /\ mmio' = mmio
  BY DEF clone_virtual_addressing
<1>2. PICK root, c, pages, r :
         /\ root = FirstFree(ram) /\ c = generate_clean_virtual_addressing(ram)
         /\ pages = WalkedPages(ram, cr3) /\ r = ClonePages(c, cr3, root, pages)
  OBVIOUS
<1>3. PICK T : T = spaces \cup {root}
  OBVIOUS
<1>4. Commit(r) /\ spaces' = IF r = Crash THEN spaces ELSE T
  BY <1>2, <1>3 DEF clone_virtual_addressing
<1>5. spaces \in SUBSET Frames /\ Sound(ram, spaces)
  BY SpacesAre
<1>6. mmio \in 0..Len(MmioPages) /\ heap \in 1..Len(KernelHeap)
  BY DEF VmInv, TypeOK
<1>7. cr3 \in spaces
  BY <1>1 DEF Settled
<1>8. CASE c = Crash
  <2>1. r = Crash
    BY <1>2, <1>8, CloneCrash
  <2>2. r = Crash \/ Sound(r, spaces)
    BY <2>1
  <2>3. spaces' = IF r = Crash THEN spaces ELSE spaces
    BY <1>4, <2>1
  <2> QED BY <1>1, <1>4, <1>5, <1>6, <2>2, <2>3, CommitKeeps
<1>9. CASE c # Crash
  <2>1. /\ T \in SUBSET Frames /\ root \notin spaces /\ Sound(c, T) /\ Keeps(ram, c, spaces)
        /\ \A a \in ToSet(UserPages) : Walk(c, root, a) = None
    BY <1>2, <1>3, <1>5, <1>9, CleanSound
  <2>2. root \in T /\ cr3 \in T /\ spaces \subseteq T
    BY <1>3, <1>7
  <2>3. ASSUME NEW a \in pages PROVE Walk(c, cr3, a) # None
    <3>1. a \in ToSet(UserPages) /\ Walk(ram, cr3, a) # None
      BY <1>2 DEF WalkedPages
    <3>2. <<cr3, a>> \in Nodes(spaces)
      BY <1>5, <1>7, <3>1, SoundPage
    <3>3. At(ram, <<cr3, a>>) = Walk(ram, cr3, a) /\ At(c, <<cr3, a>>) = Walk(c, cr3, a)
      BY DEF At
    <3> QED BY <2>1, <3>1, <3>2, <3>3 DEF Keeps
  <2>4. r = Crash \/ Sound(r, T)
    <3>1. PICK U : U = T \ {root}
      OBVIOUS
    <3>2. cr3 # root
      BY <1>7, <2>1
    <3>3. Clones(c, r, T, U, cr3, root, pages)
      BY <1>2, <1>9, <2>1, <2>2, <2>3, <3>1, <3>2 DEF Clones
    <3> QED BY <3>3, CloneSound
  <2> QED BY <1>1, <1>4, <1>6, <2>1, <2>2, <2>4, CommitKeeps
<1> QED BY <1>8, <1>9

\* A program stores into a page of its own.
LEMMA UserStoreKeeps ==
  ASSUME VmInv, NEW a \in ToSet(UserPages), NEW v \in Values, UserStore(a, v)
  PROVE  VmInv'
<1>1. /\ Settled /\ cr3 # KernelRoot /\ a \in WalkedPages(ram, cr3) /\ last' = "other"
      /\ cr3' = cr3 /\ spaces' = spaces /\ heap' = heap /\ mmio' = mmio /\ halted' = halted
  BY DEF UserStore, Quiet
<1>2. PICK f : f = Walk(ram, cr3, a).addr
  OBVIOUS
<1>3. ram' = [ram EXCEPT !.data[f] = v]
  BY <1>2 DEF UserStore
<1>4. spaces \in SUBSET Frames /\ Sound(ram, spaces)
  BY SpacesAre
<1>5. cr3 \in spaces /\ Walk(ram, cr3, a) # None
  BY <1>1 DEF Settled, WalkedPages
<1>6. f \in Frames
  BY <1>2, <1>4, <1>5, SoundPage
<1>7. PICK n : n = ram'
  OBVIOUS
<1>8. n = [ram EXCEPT !.data[f] = v] /\ v \in Values \cup {Junk}
  BY <1>3, <1>7
<1>9. Sound(n, spaces)
  BY <1>4, <1>6, <1>8, StoreSound
<1>10. n \in Ram /\ spaces \subseteq n.used /\ SharesKernelHalf(n, {cr3}) /\ cr3 \in Frames \cup {KernelRoot}
  BY <1>4, <1>5, <1>9, SoundGives
<1>11. TypeOK'
  BY <1>1, <1>7, <1>10 DEF VmInv, TypeOK
<1>12. Sound(ram, spaces)' /\ SharesKernelHalf(ram, {cr3})'
  BY <1>1, <1>7, <1>9, <1>10
<1> QED BY <1>11, <1>12 DEF VmInv

\* A process goes, its space with it; CR3 may keep the root.
LEMMA DropKeeps ==
  ASSUME VmInv, NEW root \in spaces, DropProcess(root)
  PROVE  VmInv'
<1>1. /\ last' = "other" /\ cr3' = cr3 /\ heap' = heap /\ mmio' = mmio /\ halted' = halted
      /\ ram' = remove_virtual_addressing(ram, root) /\ spaces' = spaces \ {root}
  BY DEF DropProcess, Quiet
<1>2. PICK n, T : n = ram' /\ T = spaces \ {root}
  OBVIOUS
<1>3. spaces \in SUBSET Frames /\ Sound(ram, spaces)
  BY SpacesAre
<1>4. Sound(n, T) /\ n.entry = ram.entry
  BY <1>1, <1>2, <1>3, RemoveSound
<1>5. T \in SUBSET Frames
  BY <1>2, <1>3
<1>6. n \in Ram /\ T \subseteq n.used
  <2>1. PICK R : R = KernelRoot
    OBVIOUS
  <2>2. R \in T \cup {KernelRoot}
    BY <2>1
  <2> QED BY <1>4, <1>5, <2>2, SoundGives
<1>7. SharesKernelHalf(n, {cr3})
  BY <1>4 DEF VmInv, SharesKernelHalf
<1>8. TypeOK'
  BY <1>1, <1>2, <1>6 DEF VmInv, TypeOK
<1>9. Sound(ram, spaces)' /\ SharesKernelHalf(ram, {cr3})'
  BY <1>1, <1>2, <1>4, <1>7
<1> QED BY <1>8, <1>9 DEF VmInv

\* Another process runs.
LEMMA SwitchKeeps ==
  ASSUME VmInv, NEW root \in spaces, set_pml4_phys(root)
  PROVE  VmInv'
<1>1. /\ last' = "other" /\ cr3' = root /\ heap' = heap /\ mmio' = mmio /\ halted' = halted
      /\ ram' = ram /\ spaces' = spaces
  BY DEF set_pml4_phys, Quiet
<1>2. spaces \in SUBSET Frames /\ Sound(ram, spaces)
  BY SpacesAre
<1>3. SharesKernelHalf(ram, {root}) /\ root \in Frames \cup {KernelRoot}
  BY <1>2, SoundGives
<1>4. TypeOK'
  BY <1>1, <1>3 DEF VmInv, TypeOK
<1>5. Sound(ram, spaces)' /\ SharesKernelHalf(ram, {cr3})'
  BY <1>1, <1>2, <1>3
<1> QED BY <1>4, <1>5 DEF VmInv

\* In every reachable state every used frame hangs in exactly one place, every
\* root has the kernel's tables in its upper half, and every table of a space
\* leads to one of its pages (map_page, clone_virtual_addressing,
\* remove_virtual_addressing and fill_kernel_pml4 of memory.c).
THEOREM VmInvariance == Spec => []VmInv
<1>1. Init => VmInv
  BY InitInv
<1>2. VmInv /\ [Next]_vars => VmInv'
  <2> SUFFICES ASSUME VmInv, [Next]_vars PROVE VmInv'
    OBVIOUS
  <2>1. CASE _malloc_expand_heap
    BY <2>1, HeapKeeps
  <2>2. CASE setup_mmio
    BY <2>2, MmioKeeps
  <2>3. CASE clone_virtual_addressing
    BY <2>3, ForkKeeps
  <2>4. CASE \E v \in Values, others \in SUBSET ToSet(Tail(UserPages)) : instantiate_ELF(v, others)
    BY <2>4, LoadKeeps
  <2>5. CASE \E a \in ToSet(UserPages) : syscall_request_page(a)
    BY <2>5, RequestKeeps
  <2>6. CASE \E a \in ToSet(UserPages), v \in Values : UserStore(a, v)
    BY <2>6, UserStoreKeeps
  <2>7. CASE \E root \in spaces : DropProcess(root) \/ set_pml4_phys(root)
    BY <2>7, DropKeeps, SwitchKeeps
  <2>8. CASE UNCHANGED vars
    BY <2>8 DEF vars, VmInv, TypeOK, Sound, Tree, SharesKernelHalf, NoUserHalf, TablesLeadToPages
  <2> QED BY <2>1, <2>2, <2>3, <2>4, <2>5, <2>6, <2>7, <2>8 DEF Next
<1> QED BY <1>1, <1>2, PTL DEF Spec

-----------------------------------------------------------------------------
(* What the invariant says of frames and of the kernel half.               *)

\* No frame is shared, leaked or freed while it is in use: FramesOwnedOnce holds
\* of every reachable state (malloc4k_phys and free4k_phys through memory.c).
THEOREM FramesCorrect == Spec => []FramesOwnedOnce
<1>1. VmInv => FramesOwnedOnce
  <2> SUFFICES ASSUME VmInv, NEW f \in Frames
               PROVE  Cardinality(Owners(f)) = IF f \in ram.used THEN 1 ELSE 0
    BY DEF FramesOwnedOnce
  <2>1. Tree(ram, spaces, {})
    BY DEF VmInv, Sound
  <2>2. f # KernelRoot /\ f # Device
    BY VirtualMemoryAssumption DEF Frames, KernelRoot, Device
  <2>3. CASE f \in ram.used
    <3>1. PICK n \in Nodes(spaces) : At(ram, n) # None /\ At(ram, n).addr = f
      BY <2>1, <2>3 DEF Tree
    <3>2. \A m \in Nodes(spaces) : At(ram, m) # None /\ At(ram, m).addr = f => m = n
      BY <2>1, <2>2, <3>1 DEF Tree
    <3>3. Owners(f) = {n}
      BY <3>1, <3>2 DEF Owners
    <3> QED BY <2>3, <3>3, FS_Singleton
  <2>4. CASE f \notin ram.used
    <3>1. Owners(f) = {}
      BY <2>1, <2>2, <2>4 DEF Owners, Tree
    <3> QED BY <2>4, <3>1, FS_EmptySet
  <2> QED BY <2>3, <2>4
<1> QED BY <1>1, VmInvariance, PTL

\* Two roots with the same entry i lead to the same below it.
LEMMA WalkShared ==
  ASSUME NEW r, NEW s \in Frames \cup {KernelRoot}, NEW t \in Frames \cup {KernelRoot}, NEW i,
         r.entry[s][i] = r.entry[t][i]
  PROVE  \A p \in Seq(Index) : Len(p) > 0 /\ p[1] = i => Walk(r, s, p) = Walk(r, t, p)
<1> DEFINE K == {k \in Nat : \A p \in Seq(Index) :
                     Len(p) = k + 1 /\ p[1] = i => Walk(r, s, p) = Walk(r, t, p)}
<1>1. ASSUME NEW u \in Frames \cup {KernelRoot}, NEW p \in Seq(Index), Len(p) = 1
      PROVE  Walk(r, u, p) = r.entry[u][p[1]]
  <2>1. Len(p) > 0 /\ Len(p) - 1 = 0
    BY <1>1
  <2>2. Front(p) \in Seq(Index) /\ Len(Front(p)) = 0
    BY <2>1, FrontIs
  <2>3. Front(p) = << >>
    BY <2>2
  <2>4. Pte(u, TRUE) \in [addr : Int, exec : BOOLEAN] /\ Pte(u, TRUE).addr = u
    BY DEF Pte, Frames, KernelRoot
  <2>5. Walk(r, u, Front(p)) = Pte(u, TRUE) /\ Pte(u, TRUE) # None
    BY <2>3, <2>4, WalkEmpty, VirtualMemoryAssumption
  <2>6. Walk(r, u, p) = IF Walk(r, u, Front(p)) = None THEN None
                        ELSE r.entry[Walk(r, u, Front(p)).addr][p[Len(p)]]
    BY <2>1, WalkFront
  <2> QED BY <1>1, <2>4, <2>5, <2>6
<1>2. 0 \in K
  BY <1>1
<1>3. ASSUME NEW k \in K PROVE k + 1 \in K
  <2> SUFFICES ASSUME NEW p \in Seq(Index), Len(p) = (k + 1) + 1, p[1] = i
               PROVE  Walk(r, s, p) = Walk(r, t, p)
    OBVIOUS
  <2>1. Len(p) > 0 /\ Len(p) - 1 = k + 1 /\ 1 \in 1..(Len(p) - 1)
    OBVIOUS
  <2>2. Front(p) \in Seq(Index) /\ Len(Front(p)) = k + 1 /\ Front(p)[1] = i
    BY <2>1, FrontIs
  <2>3. Walk(r, s, Front(p)) = Walk(r, t, Front(p))
    BY <2>2
  <2> QED BY <2>1, <2>3, WalkFront
<1> HIDE DEF K
<1>4. \A k \in Nat : k \in K
  <2>1. K \in SUBSET Nat
    BY DEF K
  <2> QED BY <1>2, <1>3, <2>1, Induction
<1> SUFFICES ASSUME NEW p \in Seq(Index), Len(p) > 0, p[1] = i PROVE Walk(r, s, p) = Walk(r, t, p)
  OBVIOUS
<1>5. PICK k \in Nat : Len(p) = k + 1
  <2>1. Len(p) - 1 \in Nat /\ Len(p) = (Len(p) - 1) + 1
    OBVIOUS
  <2> QED BY <2>1
<1>6. k \in K
  BY <1>4
<1> QED BY <1>5, <1>6 DEF K

\* Every space, and CR3 whatever it holds, sees the kernel's mappings:
\* KernelMappedEverywhere holds of every reachable state (fill_kernel_pml4,
\* generate_clean_virtual_addressing and map_page).
THEOREM KernelHalfCorrect == Spec => []KernelMappedEverywhere
<1>1. VmInv => KernelMappedEverywhere
  <2> SUFFICES ASSUME VmInv, NEW s \in spaces \cup {cr3}, NEW a \in ToSet(KernelHeap \o MmioPages)
               PROVE  Walk(ram, s, a) = Walk(ram, KernelRoot, a)
    BY DEF KernelMappedEverywhere
  <2>1. a \in ToSet(KernelHeap) \cup ToSet(MmioPages)
    BY PagesAre DEF ToSet
  <2>2. a \in Address /\ a[1] \in KernelIndex /\ a \in Seq(Index) /\ Len(a) = Levels
    BY <2>1, PagesAre, Whole
  <2>3. s \in Frames \cup {KernelRoot}
    BY DEF VmInv, TypeOK, Ram
  <2>4. PICK i, R : i = a[1] /\ R = KernelRoot
    OBVIOUS
  <2>5. ram.entry[s][i] = ram.entry[R][i] /\ R \in Frames \cup {KernelRoot}
    BY <2>2, <2>4 DEF VmInv, Sound, SharesKernelHalf
  <2>6. Len(a) > 0
    BY <2>2, VirtualMemoryAssumption
  <2>7. Walk(ram, s, a) = Walk(ram, R, a)
    BY <2>2, <2>3, <2>4, <2>5, <2>6, WalkShared
  <2> QED BY <2>4, <2>7
<1> QED BY <1>1, VmInvariance, PTL

-----------------------------------------------------------------------------
(* Address spaces are memories of their own.                               *)

\* What a program finds in the space at s of memory r, and what all spaces hold.
ViewOf(r, s) == [a \in WalkedPages(r, s) |->
                    [data |-> r.data[Walk(r, s, a).addr], exec |-> Walk(r, s, a).exec]]
MemOf(r, S) == [s \in S |-> ViewOf(r, s)]

\* MemOf is what the refinement mapping says, before a step and after it.
LEMMA MappingIs ==
  ASSUME NEW M, NEW N, M = [r \in spaces |-> View(r)], N = [r \in spaces |-> View(r)]'
  PROVE  M = MemOf(ram, spaces) /\ N = MemOf(ram', spaces')
BY DEF MemOf, ViewOf, View

\* Pages that show the same make the same view.
LEMMA SameView ==
  ASSUME NEW r, NEW n, NEW S, Shows(r, n, S, {}), NEW s \in S
  PROVE  ViewOf(n, s) = ViewOf(r, s)
<1>1. \A a \in ToSet(UserPages) :
         /\ Walk(n, s, a) = Walk(r, s, a)
         /\ Walk(r, s, a) # None => n.data[Walk(r, s, a).addr] = r.data[Walk(r, s, a).addr]
  BY DEF Shows
<1>2. WalkedPages(n, s) = WalkedPages(r, s)
  BY <1>1 DEF WalkedPages
<1>3. ASSUME NEW a \in WalkedPages(r, s)
      PROVE  /\ Walk(n, s, a) = Walk(r, s, a)
             /\ n.data[Walk(n, s, a).addr] = r.data[Walk(r, s, a).addr]
  <2>1. a \in ToSet(UserPages) /\ Walk(r, s, a) # None
    BY DEF WalkedPages
  <2> QED BY <1>1, <2>1
<1> QED BY <1>2, <1>3 DEF ViewOf

\* A view maps some of the user pages to contents and a permission.
LEMMA ViewTyped ==
  ASSUME NEW r, NEW S \in SUBSET Frames, Sound(r, S), NEW s \in S
  PROVE  /\ ViewOf(r, s) \in [WalkedPages(r, s) -> [data : Values \cup {Junk}, exec : BOOLEAN]]
         /\ WalkedPages(r, s) \in SUBSET ToSet(UserPages)
<1>1. WalkedPages(r, s) \in SUBSET ToSet(UserPages)
  BY DEF WalkedPages
<1>2. ASSUME NEW a \in WalkedPages(r, s)
      PROVE  [data |-> r.data[Walk(r, s, a).addr], exec |-> Walk(r, s, a).exec]
                \in [data : Values \cup {Junk}, exec : BOOLEAN]
  <2>1. a \in ToSet(UserPages) /\ Walk(r, s, a) # None
    BY DEF WalkedPages
  <2>2. r.data[Walk(r, s, a).addr] \in Values \cup {Junk} /\ Walk(r, s, a).exec \in BOOLEAN
    BY <2>1, SoundPage
  <2> QED BY <2>2
<1> QED BY <1>1, <1>2 DEF ViewOf

\* No space differs between the memories r and n, apart from the one at s.
AllBut(r, n, S, T, s) == \A t \in (S \cup T) \ {s} : t \in S /\ t \in T /\ ViewOf(n, t) = ViewOf(r, t)

\* A step that no program sees.
LEMMA InvisibleStep ==
  ASSUME spaces' = spaces, NEW n, n = ram', Shows(ram, n, spaces, {})
  PROVE  Private!Next
<1>1. PICK M, N : M = [r \in spaces |-> View(r)] /\ N = [r \in spaces |-> View(r)]'
  OBVIOUS
<1>2. M = MemOf(ram, spaces) /\ N = MemOf(ram', spaces')
  BY <1>1, MappingIs
<1>3. \A s \in spaces : ViewOf(n, s) = ViewOf(ram, s)
  BY SameView
<1>4. M = N
  BY <1>2, <1>3 DEF MemOf
<1> QED BY <1>1, <1>4 DEF Private!Next, Private!Invisible

\* A step that changes the space at s only.
LEMMA OnlyStep ==
  ASSUME NEW n, n = ram', NEW T, T = spaces', NEW s, AllBut(ram, n, spaces, T, s)
  PROVE  Private!Only(s)
<1>1. PICK M, N : M = [r \in spaces |-> View(r)] /\ N = [r \in spaces |-> View(r)]'
  OBVIOUS
<1>2. M = MemOf(ram, spaces) /\ N = MemOf(n, T)
  BY <1>1, MappingIs
<1>3. DOMAIN M = spaces /\ DOMAIN N = T
  BY <1>2 DEF MemOf
<1>4. \A t \in (DOMAIN M \cup DOMAIN N) \ {s} : t \in DOMAIN M /\ t \in DOMAIN N /\ N[t] = M[t]
  BY <1>2, <1>3 DEF AllBut, MemOf
<1> QED BY <1>1, <1>4 DEF Private!Only

\* The end of an operation of the kernel that shows nowhere.
LEMMA CommitInvisible ==
  ASSUME NEW n, n = Crash \/ Shows(ram, n, spaces, {}), Commit(n), spaces' = spaces
  PROVE  Private!Next
<1>1. PICK h : h = ram'
  OBVIOUS
<1>2. CASE n = Crash
  <2>1. h = ram
    BY <1>1, <1>2 DEF Commit
  <2>2. Shows(ram, h, spaces, {})
    BY <2>1 DEF Shows
  <2> QED BY <1>1, <2>2, InvisibleStep
<1>3. CASE n # Crash
  <2>1. h = n
    BY <1>1, <1>3 DEF Commit
  <2> QED BY <1>1, <1>3, <2>1, InvisibleStep
<1> QED BY <1>2, <1>3

\* What changes below the kernel's root shows in no space.
LEMMA KernelOnly ==
  ASSUME NEW r, NEW n, NEW S \in SUBSET Frames, NEW R, R = KernelRoot, NEW a, ShowsBut(r, n, S, R, a)
  PROVE  Shows(r, n, S, {})
<1>1. \A s \in S : s # R
  BY VirtualMemoryAssumption DEF Frames, KernelRoot
<1> QED BY <1>1 DEF Shows, ShowsBut

\* The heap grows where no program looks.
LEMMA HeapImplements ==
  ASSUME VmInv, _malloc_expand_heap
  PROVE  Private!Next
<1>1. Settled /\ heap < Len(KernelHeap) /\ spaces' = spaces
  BY DEF _malloc_expand_heap
<1>2. PICK n, a, x : /\ a = KernelHeap[heap + 1] /\ x = FALSE
                     /\ n = allocate_ram_page(ram, cr3, a, x)
  OBVIOUS
<1>3. Commit(n)
  BY <1>2 DEF _malloc_expand_heap
<1>4. spaces \in SUBSET Frames /\ Sound(ram, spaces)
  BY SpacesAre
<1>5. heap + 1 \in 1..Len(KernelHeap)
  BY <1>1, PagesAre DEF VmInv, TypeOK
<1>6. PICK R : R = KernelRoot
  OBVIOUS
<1>7. AddressOf(R, a)
  BY <1>2, <1>5, <1>6, PagesAre DEF AddressOf, ToSet
<1>8. n # Crash => Allocates(ram, n, spaces, R, cr3, a, x)
  BY <1>1, <1>2, <1>4, <1>6, <1>7 DEF Allocates, Settled
<1>9. n # Crash => ShowsBut(ram, n, spaces, R, a)
  BY <1>8, AllocateSound
<1>10. n = Crash \/ Shows(ram, n, spaces, {})
  BY <1>4, <1>6, <1>9, KernelOnly
<1> QED BY <1>1, <1>3, <1>10, CommitInvisible

\* So is a device mapped.
LEMMA MmioImplements ==
  ASSUME VmInv, setup_mmio
  PROVE  Private!Next
<1>1. Settled /\ mmio < Len(MmioPages) /\ spaces' = spaces
  BY DEF setup_mmio
<1>2. PICK n, a, x : /\ a = MmioPages[mmio + 1] /\ x = FALSE
                     /\ n = map_page(ram, cr3, a, Device, x)
  OBVIOUS
<1>3. Commit(n)
  BY <1>2 DEF setup_mmio
<1>4. spaces \in SUBSET Frames /\ Sound(ram, spaces)
  BY SpacesAre
<1>5. mmio + 1 \in 1..Len(MmioPages)
  BY <1>1, PagesAre DEF VmInv, TypeOK
<1>6. PICK R, E, f : R = KernelRoot /\ E = {} /\ f = Device
  OBVIOUS
<1>7. AddressOf(R, a)
  BY <1>2, <1>5, <1>6, PagesAre DEF AddressOf, ToSet
<1>8. Growing(ram, spaces, E, {})
  BY <1>4, <1>6, SoundIs
<1>9. n # Crash => Maps(ram, n, spaces, E, R, cr3, a, f, x)
  BY <1>1, <1>2, <1>4, <1>6, <1>7, <1>8 DEF Maps, Settled
<1>10. n # Crash => ShowsBut(ram, n, spaces, R, a)
  BY <1>9, MapGrows
<1>11. n = Crash \/ Shows(ram, n, spaces, {})
  BY <1>4, <1>6, <1>10, KernelOnly
<1> QED BY <1>1, <1>3, <1>11, CommitInvisible

\* A step that shows at page a of the space at s only leaves every other space as it is.
LEMMA PageOnly ==
  ASSUME NEW r, NEW n, NEW S, NEW s, NEW a, ShowsBut(r, n, S, s, a)
  PROVE  /\ AllBut(r, n, S, S, s)
         /\ s \in S => \A b \in ToSet(UserPages) : b # a =>
               /\ Walk(n, s, b) = Walk(r, s, b)
               /\ Walk(r, s, b) # None => n.data[Walk(r, s, b).addr] = r.data[Walk(r, s, b).addr]
<1>1. PICK U : U = S \ {s}
  OBVIOUS
<1>2. Shows(r, n, U, {})
  BY <1>1 DEF Shows, ShowsBut
<1>3. \A t \in U : ViewOf(n, t) = ViewOf(r, t)
  BY <1>2, SameView
<1>4. AllBut(r, n, S, S, s)
  BY <1>1, <1>3 DEF AllBut
<1> QED BY <1>4 DEF Shows, ShowsBut

\* A new page of a program is its own: one more page, not executable.
LEMMA RequestImplements ==
  ASSUME VmInv, NEW a \in ToSet(UserPages), syscall_request_page(a)
  PROVE  Private!Next
<1>1. Settled /\ cr3 # KernelRoot /\ last' = "other" /\ spaces' = spaces
  BY DEF syscall_request_page, Quiet
<1>2. PICK n, x : x = FALSE /\ n = allocate_ram_page(ram, cr3, a, x)
  OBVIOUS
<1>3. Commit(n)
  BY <1>2 DEF syscall_request_page
<1>4. spaces \in SUBSET Frames /\ Sound(ram, spaces)
  BY SpacesAre
<1>5. AddressOf(cr3, a) /\ cr3 \in spaces
  BY <1>1 DEF AddressOf, Settled
<1>6. CASE n = Crash
  BY <1>1, <1>3, <1>6, CommitInvisible
<1>7. CASE n # Crash
  <2>1. Allocates(ram, n, spaces, cr3, cr3, a, x)
    BY <1>2, <1>4, <1>5, <1>7 DEF Allocates
  <2>2. /\ Sound(n, spaces) /\ Walk(n, cr3, a) # None /\ Walk(n, cr3, a).exec = x
        /\ ShowsBut(ram, n, spaces, cr3, a) /\ Walk(ram, cr3, a) = None
    BY <2>1, AllocateSound
  <2>3. n = ram'
    BY <1>3, <1>7 DEF Commit
  <2>4. /\ AllBut(ram, n, spaces, spaces, cr3)
        /\ \A b \in ToSet(UserPages) : b # a =>
             /\ Walk(n, cr3, b) = Walk(ram, cr3, b)
             /\ Walk(ram, cr3, b) # None => n.data[Walk(ram, cr3, b).addr] = ram.data[Walk(ram, cr3, b).addr]
    BY <1>5, <2>2, PageOnly
  <2>5. Private!Only(cr3)
    BY <1>1, <2>3, <2>4, OnlyStep
  <2>6. PICK M, N : M = [r \in spaces |-> View(r)] /\ N = [r \in spaces |-> View(r)]'
    OBVIOUS
  <2>7. M = MemOf(ram, spaces) /\ N = MemOf(n, spaces)
    BY <1>1, <2>3, <2>6, MappingIs
  <2>8. /\ cr3 \in DOMAIN M /\ cr3 \in DOMAIN N
        /\ M[cr3] = ViewOf(ram, cr3) /\ N[cr3] = ViewOf(n, cr3)
    BY <1>5, <2>7 DEF MemOf
  <2>9. DOMAIN M[cr3] = WalkedPages(ram, cr3) /\ DOMAIN N[cr3] = WalkedPages(n, cr3)
    BY <2>8 DEF ViewOf
  <2>10. a \notin DOMAIN M[cr3] /\ DOMAIN N[cr3] = DOMAIN M[cr3] \cup {a}
    BY <2>2, <2>4, <2>9 DEF WalkedPages
  <2>11. N[cr3][a].data \in Values \cup {Junk} /\ ~N[cr3][a].exec
    <3>1. N[cr3][a] = [data |-> n.data[Walk(n, cr3, a).addr], exec |-> Walk(n, cr3, a).exec]
      BY <2>8, <2>9, <2>10 DEF ViewOf
    <3>2. n.data[Walk(n, cr3, a).addr] \in Values \cup {Junk}
      BY <1>4, <1>5, <2>2, SoundPage
    <3> QED BY <1>2, <2>2, <3>1, <3>2
  <2>12. ASSUME NEW b \in DOMAIN M[cr3] PROVE N[cr3][b] = M[cr3][b]
    <3>1. b \in ToSet(UserPages) /\ Walk(ram, cr3, b) # None /\ b # a
      BY <2>9, <2>10 DEF WalkedPages
    <3>2. b \in WalkedPages(ram, cr3) /\ b \in WalkedPages(n, cr3)
      BY <2>9, <2>10
    <3> QED BY <2>4, <2>8, <3>1, <3>2 DEF ViewOf
  <2>13. Private!Request(cr3)
    BY <1>1, <2>5, <2>6, <2>8, <2>10, <2>11, <2>12 DEF Private!Request
  <2> QED BY <2>6, <2>8, <2>13 DEF Private!Next
<1> QED BY <1>6, <1>7

\* A store changes the contents of one page of the space that runs.
LEMMA UserStoreImplements ==
  ASSUME VmInv, NEW a \in ToSet(UserPages), NEW v \in Values, UserStore(a, v)
  PROVE  Private!Next
<1>1. /\ Settled /\ cr3 # KernelRoot /\ a \in WalkedPages(ram, cr3) /\ last' = "other" /\ spaces' = spaces
  BY DEF UserStore, Quiet
<1>2. PICK f, n : f = Walk(ram, cr3, a).addr /\ n = ram'
  OBVIOUS
<1>3. n = [ram EXCEPT !.data[f] = v]
  BY <1>2 DEF UserStore
<1>4. spaces \in SUBSET Frames /\ Sound(ram, spaces)
  BY SpacesAre
<1>5. cr3 \in spaces /\ Walk(ram, cr3, a) # None
  BY <1>1 DEF Settled, WalkedPages
<1>6. Stores(ram, n, spaces, cr3, a, f, v)
  BY <1>2, <1>3, <1>4, <1>5 DEF Stores
<1>7. /\ ShowsBut(ram, n, spaces, cr3, a) /\ n.data[f] = v
      /\ \A root, p : Walk(n, root, p) = Walk(ram, root, p)
  BY <1>6, StoreShows
<1>8. /\ AllBut(ram, n, spaces, spaces, cr3)
      /\ \A b \in ToSet(UserPages) : b # a =>
           (Walk(ram, cr3, b) # None => n.data[Walk(ram, cr3, b).addr] = ram.data[Walk(ram, cr3, b).addr])
  BY <1>5, <1>7, PageOnly
<1>9. Private!Only(cr3)
  BY <1>1, <1>2, <1>8, OnlyStep
<1>10. PICK M, N : M = [r \in spaces |-> View(r)] /\ N = [r \in spaces |-> View(r)]'
  OBVIOUS
<1>11. M = MemOf(ram, spaces) /\ N = MemOf(n, spaces)
  BY <1>1, <1>2, <1>10, MappingIs
<1>12. /\ cr3 \in DOMAIN M /\ cr3 \in DOMAIN N
       /\ M[cr3] = ViewOf(ram, cr3) /\ N[cr3] = ViewOf(n, cr3)
  BY <1>5, <1>11 DEF MemOf
<1>13. WalkedPages(n, cr3) = WalkedPages(ram, cr3)
  BY <1>7 DEF WalkedPages
<1>14. a \in DOMAIN M[cr3]
  BY <1>1, <1>12 DEF ViewOf
<1>15. N[cr3] = [M[cr3] EXCEPT ![a].data = v]
  <2>1. PICK g, h, P : g = M[cr3] /\ h = N[cr3] /\ P = WalkedPages(ram, cr3)
    OBVIOUS
  <2>2. /\ g = [b \in P |-> [data |-> ram.data[Walk(ram, cr3, b).addr], exec |-> Walk(ram, cr3, b).exec]]
        /\ h = [b \in P |-> [data |-> n.data[Walk(ram, cr3, b).addr], exec |-> Walk(ram, cr3, b).exec]]
    BY <1>7, <1>12, <1>13, <2>1 DEF ViewOf
  <2>3. ASSUME NEW b \in P PROVE h[b] = [g EXCEPT ![a].data = v][b]
    <3>1. CASE b = a
      BY <1>2, <1>7, <2>2, <3>1
    <3>2. CASE b # a
      <4>1. b \in ToSet(UserPages) /\ Walk(ram, cr3, b) # None
        BY <2>1 DEF WalkedPages
      <4> QED BY <1>8, <2>2, <3>2, <4>1
    <3> QED BY <3>1, <3>2
  <2>4. h = [g EXCEPT ![a].data = v]
    BY <2>2, <2>3
  <2> QED BY <2>1, <2>4
<1>16. Private!Store(cr3)
  <2>1. v \in Values \cup {Junk}
    OBVIOUS
  <2> QED BY <1>1, <1>9, <1>10, <1>12, <1>14, <1>15, <2>1 DEF Private!Store
<1> QED BY <1>10, <1>12, <1>16 DEF Private!Next

\* A process that goes takes its own space with it and no other.
LEMMA DropImplements ==
  ASSUME VmInv, NEW root \in spaces, DropProcess(root)
  PROVE  Private!Next
<1>1. /\ last' = "other" /\ ram' = remove_virtual_addressing(ram, root) /\ spaces' = spaces \ {root}
  BY DEF DropProcess, Quiet
<1>2. PICK n, T : n = ram' /\ T = spaces \ {root}
  OBVIOUS
<1>3. spaces \in SUBSET Frames /\ Sound(ram, spaces)
  BY SpacesAre
<1>4. Shows(ram, n, T, {})
  BY <1>1, <1>2, <1>3, RemoveSound
<1>5. \A t \in T : ViewOf(n, t) = ViewOf(ram, t)
  BY <1>4, SameView
<1>6. AllBut(ram, n, spaces, T, root)
  BY <1>2, <1>5 DEF AllBut
<1>7. Private!Only(root)
  BY <1>1, <1>2, <1>6, OnlyStep
<1>8. PICK M, N : M = [r \in spaces |-> View(r)] /\ N = [r \in spaces |-> View(r)]'
  OBVIOUS
<1>9. M = MemOf(ram, spaces) /\ N = MemOf(n, T)
  BY <1>1, <1>2, <1>8, MappingIs
<1>10. root \in DOMAIN M /\ root \notin DOMAIN N
  BY <1>2, <1>9 DEF MemOf
<1>11. Private!Remove(root)
  BY <1>1, <1>7, <1>8, <1>10 DEF Private!Remove
<1> QED BY <1>8, <1>10, <1>11 DEF Private!Next

\* A switch of CR3, or a step that changes nothing.
LEMMA SwitchImplements ==
  ASSUME ram' = ram, spaces' = spaces
  PROVE  Private!Next
<1>1. PICK n : n = ram'
  OBVIOUS
<1>2. Shows(ram, n, spaces, {})
  BY <1>1 DEF Shows
<1> QED BY <1>1, <1>2, InvisibleStep

\* A step that adds the space at root to the others, which stay as they are.
LEMMA NewSpace ==
  ASSUME NEW n, n = ram', NEW root, root \notin spaces, NEW T, T = spaces \cup {root}, spaces' = T,
         Shows(ram, n, spaces, {}), NEW M, NEW N,
         M = [r \in spaces |-> View(r)], N = [r \in spaces |-> View(r)]'
  PROVE  /\ Private!Only(root) /\ root \notin DOMAIN M /\ root \in DOMAIN N
         /\ DOMAIN M = spaces /\ N[root] = ViewOf(n, root) /\ \A s \in spaces : M[s] = ViewOf(ram, s)
<1>1. \A t \in spaces : ViewOf(n, t) = ViewOf(ram, t)
  BY SameView
<1>2. AllBut(ram, n, spaces, T, root)
  BY <1>1 DEF AllBut
<1>3. Private!Only(root)
  BY <1>2, OnlyStep
<1>4. M = MemOf(ram, spaces) /\ N = MemOf(n, T)
  BY MappingIs
<1>5. /\ root \notin DOMAIN M /\ root \in DOMAIN N
      /\ DOMAIN M = spaces /\ N[root] = ViewOf(n, root) /\ \A s \in spaces : M[s] = ViewOf(ram, s)
  BY <1>4 DEF MemOf
<1> QED BY <1>3, <1>5

\* What shows through two steps.
LEMMA ShowsOn ==
  ASSUME NEW r, NEW h, NEW n, NEW S, Shows(r, h, S, {}), Shows(h, n, S, {})
  PROVE  Shows(r, n, S, {})
BY DEF Shows

\* What changes in a space outside of S does not show in S.
LEMMA Elsewhere ==
  ASSUME NEW r, NEW n, NEW T, NEW S, NEW s, S = T \ {s}, NEW a, ShowsBut(r, n, T, s, a)
  PROVE  Shows(r, n, S, {})
BY DEF Shows, ShowsBut

\* A loaded program gets a space of its own, and no other space changes.
LEMMA LoadImplements ==
  ASSUME VmInv, NEW v \in Values, NEW others, instantiate_ELF(v, others)
  PROVE  Private!Next
<1>1. Settled /\ last' = "load"
  BY DEF instantiate_ELF
<1>2. PICK root, a, c, seg, filled, r, x :
         /\ root = FirstFree(ram) /\ a = UserPages[1] /\ x = TRUE
         /\ c = generate_clean_virtual_addressing(ram)
         /\ seg = allocate_ram_page(c, root, a, x)
         /\ filled = IF seg = Crash THEN Crash ELSE [seg EXCEPT !.data[Walk(seg, root, a).addr] = v]
         /\ r = LoadPages(filled, root, others)
  OBVIOUS
<1>3. PICK T : T = spaces \cup {root}
  OBVIOUS
<1>4. Commit(r) /\ spaces' = IF r = Crash THEN spaces ELSE T
  BY <1>2, <1>3 DEF instantiate_ELF
<1>5. spaces \in SUBSET Frames /\ Sound(ram, spaces) /\ ram # Crash
  BY SpacesAre
<1>6. CASE r = Crash
  <2>1. spaces' = spaces
    BY <1>4, <1>6
  <2> QED BY <1>4, <1>6, <2>1, CommitInvisible
<1>7. CASE r # Crash
  <2>1. filled # Crash
    <3>1. LoadPages(Crash, root, others) = Crash
      BY LoadCrash
    <3>2. r = LoadPages(filled, root, others)
      BY <1>2
    <3> QED BY <1>7, <3>1, <3>2
  <2>2. seg # Crash
    BY <1>2, <2>1
  <2>3. c # Crash
    BY <1>2, <2>2 DEF allocate_ram_page
  <2>4. T \in SUBSET Frames /\ root \notin spaces /\ Sound(c, T) /\ Shows(ram, c, spaces, {})
    BY <1>2, <1>3, <1>5, <2>3, CleanSound
  <2>5. root \in T /\ root \in Frames /\ spaces = T \ {root}
    BY <1>3, <2>4
  <2>6. AddressOf(root, a) /\ a \in ToSet(UserPages)
    <3>1. UserPages \in Seq(Address) /\ UserPages # << >>
      BY PagesAre, VirtualMemoryAssumption
    <3>2. UserPages[1] \in ToSet(UserPages)
      BY <3>1 DEF ToSet
    <3>3. root # KernelRoot
      BY <2>5, VirtualMemoryAssumption DEF Frames, KernelRoot
    <3> QED BY <1>2, <3>2, <3>3 DEF AddressOf
  <2>7. Allocates(c, seg, T, root, root, a, x)
    BY <1>2, <2>2, <2>4, <2>5, <2>6 DEF Allocates
  <2>8. /\ Sound(seg, T) /\ Walk(seg, root, a) # None /\ Walk(seg, root, a).addr \in Frames
        /\ ShowsBut(c, seg, T, root, a)
    BY <2>7, AllocateSound
  <2>9. PICK f : f = Walk(seg, root, a).addr
    OBVIOUS
  <2>10. filled = [seg EXCEPT !.data[f] = v] /\ f \in Frames /\ v \in Values \cup {Junk}
    BY <1>2, <2>2, <2>8, <2>9
  <2>11. Sound(filled, T)
    BY <2>8, <2>10, StoreSound
  <2>12. ShowsBut(seg, filled, T, root, a)
    <3>1. Stores(seg, filled, T, root, a, f, v)
      BY <2>4, <2>5, <2>6, <2>8, <2>9, <2>10 DEF Stores
    <3> QED BY <3>1, StoreShows
  <2>13. Loads(filled, r, T, spaces, root, others)
    BY <1>2, <2>4, <2>5, <2>11 DEF Loads
  <2>14. Sound(r, T) /\ Shows(filled, r, spaces, {})
    BY <1>7, <2>13, LoadSound
  <2>15. Shows(ram, r, spaces, {})
    <3>1. Shows(c, seg, spaces, {})
      BY <2>5, <2>8, Elsewhere
    <3>2. Shows(seg, filled, spaces, {})
      BY <2>5, <2>12, Elsewhere
    <3>3. Shows(ram, seg, spaces, {})
      BY <2>4, <3>1, ShowsOn
    <3>4. Shows(ram, filled, spaces, {})
      BY <3>2, <3>3, ShowsOn
    <3> QED BY <2>14, <3>4, ShowsOn
  <2>16. r = ram' /\ spaces' = T
    BY <1>4, <1>7 DEF Commit
  <2>17. PICK M, N : M = [s \in spaces |-> View(s)] /\ N = [s \in spaces |-> View(s)]'
    OBVIOUS
  <2>18. Private!Only(root) /\ root \notin DOMAIN M /\ root \in DOMAIN N /\ N[root] = ViewOf(r, root)
    BY <1>3, <2>4, <2>15, <2>16, <2>17, NewSpace
  <2>19. /\ N[root] \in [WalkedPages(r, root) -> [data : Values \cup {Junk}, exec : BOOLEAN]]
         /\ WalkedPages(r, root) \in SUBSET ToSet(UserPages)
    BY <2>4, <2>5, <2>14, <2>18, ViewTyped
  <2>20. N[root] \in Private!Mapped
    BY <2>19 DEF Private!Mapped
  <2>21. Private!Load(root)
    BY <1>1, <2>17, <2>18, <2>20 DEF Private!Load
  <2> QED BY <2>17, <2>18, <2>21 DEF Private!Next
<1> QED BY <1>6, <1>7

\* A space with the parent's pages copied into it looks like the parent's.
LEMMA CopyView ==
  ASSUME NEW r, NEW n, NEW from, NEW to, NEW pages, pages = WalkedPages(r, from),
         Copied(r, n, from, to, pages, Len(UserPages))
  PROVE  ViewOf(n, to) = ViewOf(r, from)
<1>1. ASSUME NEW a \in pages PROVE Walk(n, to, a) # None /\ a \in ToSet(UserPages)
  <2>1. a \in ToSet(UserPages)
    BY DEF WalkedPages
  <2>2. PICK j \in 1..Len(UserPages) : a = UserPages[j]
    BY <2>1, PagesAre DEF ToSet
  <2> QED BY <2>1, <2>2 DEF Copied
<1>2. ASSUME NEW a \in ToSet(UserPages), Walk(n, to, a) # None
      PROVE  /\ a \in pages /\ Walk(n, to, a).exec = Walk(r, from, a).exec
             /\ n.data[Walk(n, to, a).addr] = r.data[Walk(r, from, a).addr]
  BY <1>2 DEF Copied
<1>3. WalkedPages(n, to) = pages
  BY <1>1, <1>2 DEF WalkedPages
<1>4. ASSUME NEW a \in pages
      PROVE  [data |-> n.data[Walk(n, to, a).addr], exec |-> Walk(n, to, a).exec]
                = [data |-> r.data[Walk(r, from, a).addr], exec |-> Walk(r, from, a).exec]
  BY <1>1, <1>2
<1> QED BY <1>3, <1>4 DEF ViewOf

\* A fork adds a copy of the space that runs, and no other space changes.
LEMMA ForkImplements ==
  ASSUME VmInv, clone_virtual_addressing
  PROVE  Private!Next
<1>1. Settled /\ cr3 # KernelRoot /\ last' = "clone"
  BY DEF clone_virtual_addressing
<1>2. PICK root, c, pages, r :
         /\ root = FirstFree(ram) /\ c = generate_clean_virtual_addressing(ram)
         /\ pages = WalkedPages(ram, cr3) /\ r = ClonePages(c, cr3, root, pages)
  OBVIOUS
<1>3. PICK T : T = spaces \cup {root}
  OBVIOUS
<1>4. Commit(r) /\ spaces' = IF r = Crash THEN spaces ELSE T
  BY <1>2, <1>3 DEF clone_virtual_addressing
<1>5. spaces \in SUBSET Frames /\ Sound(ram, spaces)
  BY SpacesAre
<1>6. cr3 \in spaces
  BY <1>1 DEF Settled
<1>7. CASE r = Crash
  <2>1. spaces' = spaces
    BY <1>4, <1>7
  <2> QED BY <1>4, <1>7, <2>1, CommitInvisible
<1>8. CASE r # Crash
  <2>1. c # Crash
    BY <1>2, <1>8, CloneCrash
  <2>2. /\ T \in SUBSET Frames /\ root \notin spaces /\ Sound(c, T) /\ Shows(ram, c, spaces, {})
        /\ \A a \in ToSet(UserPages) : Walk(c, root, a) = None
    BY <1>2, <1>3, <1>5, <2>1, CleanSound
  <2>3. root \in T /\ cr3 \in T /\ cr3 # root /\ spaces = T \ {root}
    BY <1>3, <1>6, <2>2
  <2>4. ViewOf(c, cr3) = ViewOf(ram, cr3) /\ pages = WalkedPages(c, cr3)
    <3>1. ViewOf(c, cr3) = ViewOf(ram, cr3)
      BY <1>6, <2>2, SameView
    <3>2. \A a \in ToSet(UserPages) : Walk(c, cr3, a) = Walk(ram, cr3, a)
      BY <1>6, <2>2 DEF Shows
    <3> QED BY <1>2, <3>1, <3>2 DEF WalkedPages
  <2>5. \A a \in pages : Walk(c, cr3, a) # None
    BY <2>4 DEF WalkedPages
  <2>6. Clones(c, r, T, spaces, cr3, root, pages)
    BY <1>2, <2>1, <2>2, <2>3, <2>5 DEF Clones
  <2>7. /\ Sound(r, T) /\ Shows(c, r, spaces, {})
        /\ Copied(c, r, cr3, root, pages, Len(UserPages))
    BY <1>8, <2>6, CloneSound
  <2>8. ViewOf(r, root) = ViewOf(ram, cr3)
    BY <2>4, <2>7, CopyView
  <2>9. Shows(ram, r, spaces, {})
    BY <2>2, <2>7, ShowsOn
  <2>10. r = ram' /\ spaces' = T
    BY <1>4, <1>8 DEF Commit
  <2>11. PICK M, N : M = [s \in spaces |-> View(s)] /\ N = [s \in spaces |-> View(s)]'
    OBVIOUS
  <2>12. /\ Private!Only(root) /\ root \notin DOMAIN M /\ root \in DOMAIN N /\ DOMAIN M = spaces
         /\ N[root] = ViewOf(r, root) /\ \A s \in spaces : M[s] = ViewOf(ram, s)
    BY <1>3, <2>2, <2>9, <2>10, <2>11, NewSpace
  <2>13. cr3 \in DOMAIN M /\ N[root] = M[cr3]
    BY <1>6, <2>8, <2>12
  <2>14. Private!Clone(cr3, root)
    BY <1>1, <2>11, <2>12, <2>13 DEF Private!Clone
  <2> QED BY <2>11, <2>12, <2>13, <2>14 DEF Private!Next
<1> QED BY <1>7, <1>8

\* Virtual memory gives every process a memory of its own: every step of memory.c
\* and of its callers, whatever the tables and frames it goes through, is a step
\* of PrivateMemory or shows in no space.
THEOREM PrivateMemoryCorrect == Spec => ImplementsPrivateMemory
<1>1. Init => Private!Init
  <2> SUFFICES ASSUME Init PROVE Private!Init
    OBVIOUS
  <2>1. spaces = {} /\ last = "other"
    BY DEF Init, Quiet
  <2> QED BY <2>1 DEF Private!Init
<1>2. VmInv /\ [Next]_vars => [Private!Next]_(Private!vars)
  <2> SUFFICES ASSUME VmInv, [Next]_vars PROVE Private!Next
    OBVIOUS
  <2>1. CASE _malloc_expand_heap
    BY <2>1, HeapImplements
  <2>2. CASE setup_mmio
    BY <2>2, MmioImplements
  <2>3. CASE clone_virtual_addressing
    BY <2>3, ForkImplements
  <2>4. CASE \E v \in Values, others \in SUBSET ToSet(Tail(UserPages)) : instantiate_ELF(v, others)
    BY <2>4, LoadImplements
  <2>5. CASE \E a \in ToSet(UserPages) : syscall_request_page(a)
    BY <2>5, RequestImplements
  <2>6. CASE \E a \in ToSet(UserPages), v \in Values : UserStore(a, v)
    BY <2>6, UserStoreImplements
  <2>7. CASE \E root \in spaces : DropProcess(root) \/ set_pml4_phys(root)
    <3>1. CASE \E root \in spaces : DropProcess(root)
      BY <3>1, DropImplements
    <3>2. CASE \E root \in spaces : set_pml4_phys(root)
      <4>1. ram' = ram /\ spaces' = spaces
        BY <3>2 DEF set_pml4_phys
      <4> QED BY <4>1, SwitchImplements
    <3> QED BY <2>7, <3>1, <3>2
  <2>8. CASE UNCHANGED vars
    <3>1. ram' = ram /\ spaces' = spaces
      BY <2>8 DEF vars
    <3> QED BY <3>1, SwitchImplements
  <2> QED BY <2>1, <2>2, <2>3, <2>4, <2>5, <2>6, <2>7, <2>8 DEF Next
<1> QED BY <1>1, <1>2, VmInvariance, PTL DEF Spec, ImplementsPrivateMemory, Private!Spec
=============================================================================
