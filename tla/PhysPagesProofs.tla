--------------------------- MODULE PhysPagesProofs ---------------------------
(***************************************************************************)
(* For every memory map, page size and sequence of allocations: no page is *)
(* held twice, and the flags say exactly which pages are held.             *)
(***************************************************************************)
EXTENDS PhysPages, SequenceTheorems, TLAPS

\* Rounding up leaves room for every flag, and never exceeds the region.
LEMMA RoundUp ==
  ASSUME NEW n \in Nat, NEW f \in Nat \ {0}
  PROVE  /\ (n + f - 1) \div f \in Nat
         /\ (n + f - 1) \div f <= n
         /\ n <= ((n + f - 1) \div f) * f
<1> DEFINE q == (n + f - 1) \div f
<1> DEFINE r == (n + f - 1) % f
<1>1. q \in Int /\ r \in 0..(f - 1) /\ n + f - 1 = f * q + r
  OBVIOUS
<1>2. f * q = q * f
  BY <1>1
<1> HIDE DEF q, r
<1>3. n <= q * f
  BY <1>1, <1>2
<1>4. q >= 0
  <2>1. SUFFICES ASSUME q <= -1 PROVE FALSE
    BY <1>1
  <2>2. q * f <= (-1) * f
    BY <1>1, <2>1
  <2> QED BY <1>1, <1>3, <2>2
<1>5. q <= n
  <2>1. SUFFICES ASSUME q >= n + 1 PROVE FALSE
    BY <1>1
  <2>2. q * f >= (n + 1) * f
    BY <1>1, <2>1
  <2>3. (n + 1) * f = n * f + f
    OBVIOUS
  <2>4. n * f >= n
    OBVIOUS
  <2>5. q * f <= n + f - 1
    BY <1>1, <1>2
  <2> QED BY <1>1, <2>2, <2>3, <2>4, <2>5
<1> QED BY <1>1, <1>3, <1>4, <1>5 DEF q

\* memory_init and init_physical_memory establish the invariant.
LEMMA InitPhysInv == ASSUME PagesInit PROVE PhysInv
<1>1. region \in [length : Nat, usable : BOOLEAN]
  <2>1. PICK m \in MemMaps : \E i \in 1..Len(m) : region = m[i]
    BY DEF PagesInit
  <2>2. m \in Seq([length : Nat, usable : BOOLEAN])
    BY PhysAssumption
  <2>3. PICK i \in 1..Len(m) : region = m[i]
    BY <2>1
  <2> QED BY <2>2, <2>3, ElementOfSeq
<1>2. region.length \in Nat /\ FlagsPerPage \in Nat \ {0}
  BY <1>1, PhysAssumption
<1>3. base \in Nat /\ base <= region.length /\ region.length <= base * FlagsPerPage
  BY <1>2, RoundUp DEF PagesInit, init_physical_memory, round_up_pages
<1>4. pages = region.length - base /\ flags = [p \in Page |-> 0] /\ held = {} /\ halted = FALSE
  BY DEF PagesInit, init_physical_memory, Page
<1>5. PagesTypeOK
  <2>1. flags \in [Page -> {0, 1}] /\ held \subseteq [start : Nat, len : Nat \ {0}] /\ halted \in BOOLEAN
    BY <1>4
  <2>2. pages \in Int
    BY <1>2, <1>3, <1>4
  <2> QED BY <1>1, <1>3, <1>4, <2>1, <2>2 DEF PagesTypeOK
<1>6. HeldDisjoint /\ FlagsMatchHeld
  BY <1>4 DEF HeldDisjoint, FlagsMatchHeld
<1>7. HeldInsideRegion
  <2>1. pages <= base * FlagsPerPage
    BY <1>2, <1>3, <1>4
  <2> QED BY <1>4, <2>1 DEF HeldInsideRegion
<1> QED BY <1>5, <1>6, <1>7 DEF PhysInv

\* Handing out a run of free pages keeps the invariant, wherever it starts.
LEMMA GiveOut ==
  ASSUME PhysInv,
         NEW s \in Nat, NEW n \in Nat \ {0},
         \A p \in s..(s + n - 1) : p \in Page /\ Free(p),
         flags' = [p \in Page |-> IF p \in s..(s + n - 1) THEN 1 ELSE flags[p]],
         held' = held \cup {[start |-> base + s, len |-> n]},
         UNCHANGED <<region, base, pages, halted>>
  PROVE  PhysInv'
<1> DEFINE new == [start |-> base + s, len |-> n]
<1> USE DEF PhysInv
<1>1. /\ base \in Nat /\ pages \in Int /\ region.length \in Nat /\ pages = region.length - base
      /\ flags \in [Page -> {0, 1}] /\ held \subseteq [start : Nat, len : Nat \ {0}]
  BY DEF PagesTypeOK
<1>2. Page' = Page /\ Page = 0..(pages - 1)
  BY DEF Page
<1>3. new \in [start : Nat, len : Nat \ {0}] /\ new.start = base + s /\ new.len = n
  BY <1>1
<1>4. \A q \in PagesOf(new) : q - base \in s..(s + n - 1) /\ q \in Int
  BY <1>1, <1>3 DEF PagesOf
<1>5. \A p \in Page : base + p \in PagesOf(new) <=> p \in s..(s + n - 1)
  BY <1>1, <1>2, <1>3 DEF PagesOf
<1> HIDE DEF new
<1>6. PagesTypeOK'
  BY <1>1, <1>2, <1>3 DEF PagesTypeOK, new
<1>7. \A r \in held : PagesOf(r) \cap PagesOf(new) = {}
  <2> SUFFICES ASSUME NEW r \in held, NEW q \in PagesOf(r), q \in PagesOf(new)
               PROVE  FALSE
    OBVIOUS
  <2>1. q - base \in s..(s + n - 1) /\ q \in Int
    BY <1>4
  <2>2. q - base \in Page /\ flags[q - base] = 0 /\ base + (q - base) = q
    BY <2>1, <1>1 DEF Free
  <2> QED BY <2>2, <1>1 DEF FlagsMatchHeld
<1>8. HeldDisjoint'
  <2> SUFFICES ASSUME NEW r \in held', NEW t \in held', r # t
               PROVE  PagesOf(r) \cap PagesOf(t) = {}
    BY DEF HeldDisjoint
  <2>1. CASE r \in held /\ t \in held
    BY <2>1 DEF HeldDisjoint
  <2>2. CASE r \in held /\ t = new
    BY <2>2, <1>7
  <2>3. CASE r = new /\ t \in held
    BY <2>3, <1>7
  <2> QED BY <2>1, <2>2, <2>3 DEF new
<1>9. FlagsMatchHeld'
  <2> SUFFICES ASSUME NEW p \in Page
               PROVE  flags'[p] = 1 <=> \E r \in held' : base + p \in PagesOf(r)
    BY <1>2 DEF FlagsMatchHeld
  <2>1. CASE p \in s..(s + n - 1)
    BY <2>1, <1>5 DEF new
  <2>2. CASE p \notin s..(s + n - 1)
    <3>1. flags'[p] = flags[p]
      BY <2>2
    <3>2. base + p \notin PagesOf(new)
      BY <2>2, <1>5
    <3>3. held' = held \cup {new}
      BY DEF new
    <3> QED BY <3>1, <3>2, <3>3 DEF FlagsMatchHeld
  <2> QED BY <2>1, <2>2
<1>10. HeldInsideRegion'
  <2>1. PagesOf(new) \subseteq base..(region.length - 1)
    <3> SUFFICES ASSUME NEW q \in PagesOf(new) PROVE q \in base..(region.length - 1)
      OBVIOUS
    <3>1. q - base \in Page /\ q \in Int
      BY <1>4
    <3> QED BY <3>1, <1>1, <1>2
  <2> QED BY <2>1 DEF HeldInsideRegion, new
<1> QED BY <1>6, <1>8, <1>9, <1>10

\* malloc4k_phys keeps the invariant, and so does its halt.
LEMMA Malloc4kPhysInv == ASSUME PhysInv, malloc4k_phys PROVE PhysInv'
<1>1. CASE UNCHANGED <<flags, held>>
  BY <1>1 DEF malloc4k_phys, PhysInv, PagesTypeOK, Page, HeldDisjoint, FlagsMatchHeld, HeldInsideRegion
<1>2. CASE UNCHANGED halted
  <2>1. PICK p \in Page : /\ Free(p)
                          /\ flags' = [flags EXCEPT ![p] = 1]
                          /\ held' = held \cup {[start |-> base + p, len |-> 1]}
                          /\ UNCHANGED <<region, base, pages, halted>>
    BY <1>2 DEF malloc4k_phys, PhysInv, PagesTypeOK, Page
  <2>2. p \in Nat /\ p..(p + 1 - 1) = {p}
    BY DEF Page
  <2>3. flags' = [q \in Page |-> IF q \in p..(p + 1 - 1) THEN 1 ELSE flags[q]]
    BY <2>1, <2>2 DEF PhysInv, PagesTypeOK
  <2>4. 1 \in Nat \ {0} /\ \A q \in p..(p + 1 - 1) : q \in Page /\ Free(q)
    BY <2>1, <2>2
  <2>5. UNCHANGED <<region, base, pages, halted>> /\ held' = held \cup {[start |-> base + p, len |-> 1]}
    BY <2>1
  <2>6. p \in Nat
    BY <2>2
  <2> QED BY <2>3, <2>4, <2>5, <2>6, GiveOut
<1> QED BY <1>1, <1>2 DEF malloc4k_phys

\* malloc_contiguous_phys keeps the invariant, and so does its halt.
LEMMA MallocContiguousPhysInv ==
  ASSUME PhysInv, NEW n \in 1..MaxPages, malloc_contiguous_phys(n) PROVE PhysInv'
<1>1. CASE UNCHANGED <<flags, held>>
  BY <1>1 DEF malloc_contiguous_phys, PhysInv, PagesTypeOK, Page, HeldDisjoint, FlagsMatchHeld, HeldInsideRegion
<1>2. CASE UNCHANGED halted /\ ~UNCHANGED <<flags, held>>
  <2>1. PICK p \in RunEnds(n) :
              /\ flags' = Marked(p - n + 1, n)
              /\ held' = held \cup {[start |-> base + p - n + 1, len |-> n]}
              /\ UNCHANGED <<region, base, pages, halted>>
    BY <1>2 DEF malloc_contiguous_phys
  <2>2. n \in Nat \ {0}
    BY PhysAssumption
  <2>3. p \in Page /\ p + 1 >= n /\ \A i \in (p - n + 1)..p : Free(i)
    BY DEF RunEnds
  <2>4. pages \in Int /\ base \in Nat
    BY DEF PhysInv, PagesTypeOK
  <2>5. p \in Nat /\ p <= pages - 1
    BY <2>3, <2>4 DEF Page
  <2> DEFINE s == p - n + 1
  <2>6. s \in Nat /\ s + n - 1 = p /\ base + p - n + 1 = base + s
    BY <2>2, <2>3, <2>4, <2>5
  <2>7. \A i \in s..p : i \in Page
    BY <2>4, <2>5, <2>6 DEF Page
  <2>8. flags' = [q \in Page |-> IF q \in s..(s + n - 1) THEN 1 ELSE flags[q]]
    BY <2>1 DEF Marked
  <2>9. held' = held \cup {[start |-> base + s, len |-> n]}
    BY <2>1, <2>6
  <2>10. \A i \in s..(s + n - 1) : i \in Page /\ Free(i)
    BY <2>3, <2>6, <2>7
  <2> HIDE DEF s
  <2> QED BY <2>1, <2>2, <2>6, <2>8, <2>9, <2>10, GiveOut
<1> QED BY <1>1, <1>2 DEF malloc_contiguous_phys

\* Taking a run back keeps the invariant: it frees the pages of nobody else.
LEMMA FreePhysInv ==
  ASSUME PhysInv, NEW r \in held, free_contiguous_phys(r) PROVE PhysInv'
<1> USE DEF PhysInv
<1>1. /\ flags' = [p \in Page |-> IF p \in Freed(r) THEN 0 ELSE flags[p]]
      /\ held' = held \ {r}
      /\ UNCHANGED <<region, base, pages, halted>>
  BY DEF free_contiguous_phys
<1>2. /\ base \in Nat /\ pages \in Int /\ r.start \in Nat /\ r.len \in Nat
      /\ flags \in [Page -> {0, 1}]
  BY DEF PagesTypeOK
<1>3. Page' = Page /\ Page \subseteq Int
  BY <1>1 DEF Page
<1>4. \A p \in Page : p \in Freed(r) <=> base + p \in PagesOf(r)
  BY <1>2, <1>3 DEF Freed, PagesOf
<1>5. PagesTypeOK'
  BY <1>1, <1>2, <1>3 DEF PagesTypeOK
<1>6. HeldDisjoint' /\ HeldInsideRegion'
  BY <1>1 DEF HeldDisjoint, HeldInsideRegion
<1>7. FlagsMatchHeld'
  <2> SUFFICES ASSUME NEW p \in Page
               PROVE  flags'[p] = 1 <=> \E t \in held \ {r} : base + p \in PagesOf(t)
    BY <1>1, <1>3 DEF FlagsMatchHeld
  <2>1. CASE p \in Freed(r)
    <3>1. \A t \in held \ {r} : base + p \notin PagesOf(t)
      BY <2>1, <1>4 DEF HeldDisjoint
    <3> QED BY <2>1, <3>1, <1>1
  <2>2. CASE p \notin Freed(r)
    <3>1. flags'[p] = flags[p]
      BY <2>2, <1>1
    <3> QED BY <2>2, <3>1, <1>4 DEF FlagsMatchHeld
  <2> QED BY <2>1, <2>2
<1> QED BY <1>5, <1>6, <1>7

\* Every reachable state of the allocator satisfies its invariant, for every
\* memory map, page size and sequence of allocations and returns.
THEOREM PhysInvariance == PagesSpec => []PhysInv
<1>1. PhysInv /\ [PagesNext]_pagesVars => PhysInv'
  <2> SUFFICES ASSUME PhysInv, [PagesNext]_pagesVars PROVE PhysInv'
    OBVIOUS
  <2>1. CASE UNCHANGED pagesVars
    BY <2>1 DEF pagesVars, PhysInv, PagesTypeOK, Page, HeldDisjoint, FlagsMatchHeld, HeldInsideRegion
  <2>2. CASE PagesNext
    BY <2>1, <2>2, Malloc4kPhysInv, MallocContiguousPhysInv, FreePhysInv DEF PagesNext, Stopped
  <2> QED BY <2>1, <2>2
<1> QED BY <1>1, InitPhysInv, PTL DEF PagesSpec

\* malloc4k_phys and malloc_contiguous_phys never hand a page to two holders,
\* the slab flags mark exactly the pages that are held, and nothing is handed
\* out outside the region or over the flags themselves.
THEOREM PagesCorrect == PagesSpec => []PagesOwnedOnce
<1>1. PhysInv => PagesOwnedOnce
  BY DEF PhysInv, PagesOwnedOnce
<1> QED BY <1>1, PhysInvariance, PTL

\* If malloc_contiguous_phys finds no run of n pages then every n adjacent pages
\* of the region include one that somebody holds.
LEMMA NoRunMeansHeld ==
  ASSUME PhysInv, NEW n \in 1..MaxPages, RunEnds(n) = {},
         NEW start \in Page, start + n <= pages
  PROVE  \E r \in held : PagesOf(r) \cap (base + start)..(base + start + n - 1) # {}
<1>1. /\ pages \in Int /\ base \in Nat /\ flags \in [Page -> {0, 1}] /\ n \in Nat \ {0}
      /\ start \in Nat
  BY PhysAssumption DEF PhysInv, PagesTypeOK, Page
<1> DEFINE last == start + n - 1
<1>2. last \in Page /\ last + 1 >= n /\ last - n + 1 = start
  BY <1>1 DEF Page
<1>3. PICK i \in start..last : ~Free(i)
  BY <1>2 DEF RunEnds
<1>4. i \in Page
  BY <1>1, <1>2 DEF Page
<1>5. PICK r \in held : base + i \in PagesOf(r)
  <2>1. flags[i] = 1
    BY <1>1, <1>3, <1>4 DEF Free
  <2> QED BY <1>4, <2>1 DEF PhysInv, FlagsMatchHeld
<1>6. base + i \in (base + start)..(base + start + n - 1)
  BY <1>1, <1>3
<1> QED BY <1>5, <1>6

\* malloc_contiguous_phys and malloc4k_phys halt the kernel only when there is no
\* room: whatever was allocated and returned before, a run of n pages without a
\* holder is always found, wherever it lies.
THEOREM HaltCorrect == PagesSpec => []HaltsOnlyWhenFull
<1>1. PhysInv => HaltsOnlyWhenFull
  BY NoRunMeansHeld DEF HaltsOnlyWhenFull
<1> QED BY <1>1, PhysInvariance, PTL
=============================================================================
