------------------------------ MODULE PhysPages ------------------------------
(***************************************************************************)
(* The physical page allocator: stuos/src/physical_slab_allocation.c, and  *)
(* the choice of the region it manages, memory_init in stuos/src/memory.c. *)
(* Addresses are page numbers relative to the start of the region.         *)
(***************************************************************************)
EXTENDS Integers, FiniteSets, Sequences

CONSTANTS
    MemMaps,       \* the memory maps the boot loader may hand over: sequences
                   \* of entries [length: Nat, usable: BOOLEAN], in pages
    Enough,        \* the smallest length memory_init looks for
    FlagsPerPage,  \* PAGE_SIZE: flag bytes that fit in one page
    MaxPages       \* largest num_pages a caller asks for

ASSUME PhysAssumption ==
    /\ Enough \in Nat /\ MaxPages \in Nat \ {0} /\ FlagsPerPage \in Nat \ {0}
    /\ \A m \in MemMaps :
          /\ m \in Seq([length : Nat, usable : BOOLEAN])
          /\ m # <<>>

VARIABLES
    region,        \* the memory map entry that memory_init settled for
    base,          \* physical_memory_base, in pages from the region's start
    pages,         \* physical_memory_pages
    flags,         \* slab_flags_base
    held,          \* history: runs [start, len] handed out and not yet freed
    halted         \* HCF

pagesVars == <<region, base, pages, flags, held, halted>>

\* Round num_bytes up; flags are bytes, one page of them covers FlagsPerPage.
round_up_pages(n) == (n + FlagsPerPage - 1) \div FlagsPerPage

Big(entry) == entry.length >= Enough /\ entry.usable

\* The loop leaves result at the first entry that is big and usable, and at
\* the last entry of the map when there is none.
StopsAt(m, i) ==
    /\ Big(m[i]) \/ i = Len(m)
    /\ \A j \in 1..(i - 1) : ~Big(m[j])

\* The flags live in the first pages of the region.
init_physical_memory(r) ==
    /\ base = round_up_pages(r.length)
    /\ pages = r.length - base
    /\ flags = [p \in 0..(pages - 1) |-> 0]

PagesInit ==
    /\ \E m \in MemMaps : \E i \in 1..Len(m) : StopsAt(m, i) /\ region = m[i]
    /\ init_physical_memory(region)
    /\ held = {}
    /\ halted = FALSE

Page == 0..(pages - 1)

Free(p) == flags[p] = 0

MutRunAnyFree(n) == {p \in Page : p + 1 >= n /\ Free(p)}

MutOneMore(n) == {p \in Page : p >= n /\ \A i \in (p - n)..p : Free(i)}

\* The pages at which run_length reaches n: the last n pages are all free.
RunEnds(n) == {p \in Page : p + 1 >= n /\ \A i \in (p - n + 1)..p : Free(i)}

Marked(start, n) == [p \in Page |-> IF p \in start..(start + n - 1) THEN 1 ELSE flags[p]]

\* Give out the run that is found first, or halt: out of memory.
malloc_contiguous_phys(n) ==
    /\ ~halted
    /\ \/ \E p \in RunEnds(n) :
             /\ \A q \in RunEnds(n) : p <= q
             /\ flags' = Marked(p - n + 1, n)
             /\ held' = held \cup {[start |-> base + p - n + 1, len |-> n]}
             /\ UNCHANGED halted
       \/ /\ RunEnds(n) = {}
          /\ halted' = TRUE
          /\ UNCHANGED <<flags, held>>
    /\ UNCHANGED <<region, base, pages>>

\* One page: the first free one.
malloc4k_phys ==
    /\ ~halted
    /\ \/ \E p \in Page :
             /\ Free(p) /\ \A q \in Page : Free(q) => p <= q
             /\ flags' = [flags EXCEPT ![p] = 1]
             /\ held' = held \cup {[start |-> base + p, len |-> 1]}
             /\ UNCHANGED halted
       \/ /\ \A p \in Page : ~Free(p)
          /\ halted' = TRUE
          /\ UNCHANGED <<flags, held>>
    /\ UNCHANGED <<region, base, pages>>

\* The flags that free4k_phys clears, one call per page of the run.
Freed(r) == (r.start - base)..(r.start - base + r.len - 1)

\* A holder returns what it was given (free4k_phys is the case len = 1).
free_contiguous_phys(r) ==
    /\ ~halted /\ r \in held
    /\ flags' = [p \in Page |-> IF p \in Freed(r) THEN 0 ELSE flags[p]]
    /\ held' = held \ {r}
    /\ UNCHANGED <<region, base, pages, halted>>

Stopped == halted /\ UNCHANGED pagesVars

PagesNext ==
    \/ malloc4k_phys
    \/ \E n \in 1..MaxPages : malloc_contiguous_phys(n)
    \/ \E r \in held : free_contiguous_phys(r)
    \/ Stopped

PagesSpec == PagesInit /\ [][PagesNext]_pagesVars

-----------------------------------------------------------------------------
PagesOf(r) == r.start..(r.start + r.len - 1)

\* The flag array has one entry per page handed out.
PagesTypeOK ==
    /\ region \in [length : Nat, usable : BOOLEAN]
    /\ base \in Nat /\ pages \in Int /\ pages = region.length - base
    /\ flags \in [Page -> {0, 1}]
    /\ held \subseteq [start : Nat, len : Nat \ {0}]
    /\ halted \in BOOLEAN

\* No page is given to two holders at once, however single pages and
\* contiguous runs are mixed.
HeldDisjoint ==
    \A r, s \in held : r # s => PagesOf(r) \cap PagesOf(s) = {}

\* A page is marked as used exactly while somebody holds it: nothing leaks,
\* and nothing in use can be handed out again.
FlagsMatchHeld ==
    \A p \in Page : flags[p] = 1 <=> \E r \in held : base + p \in PagesOf(r)

\* What is handed out lies in the region, behind the pages that hold the
\* flags; and the flags of all pages fit in front of it.
HeldInsideRegion ==
    /\ \A r \in held : PagesOf(r) \subseteq base..(region.length - 1)
    /\ pages <= base * FlagsPerPage

\* The kernel only halts for want of memory when there is no room: every run
\* of n pages with no holder would have been found.
HaltsOnlyWhenFull ==
    \A n \in 1..MaxPages : RunEnds(n) = {} =>
        \A start \in Page : start + n <= pages =>
            \E r \in held : PagesOf(r) \cap (base + start)..(base + start + n - 1) # {}

\* physical_slab_allocation.c: every page of the region has at most one holder,
\* and its flag says whether it has.
PagesOwnedOnce == HeldDisjoint /\ FlagsMatchHeld /\ HeldInsideRegion

\* The inductive invariant of the proofs.
PhysInv == PagesTypeOK /\ HeldDisjoint /\ FlagsMatchHeld /\ HeldInsideRegion

-----------------------------------------------------------------------------
\* The memory maps of the instance that is model-checked: the big region first,
\* behind a reserved one, and behind one that is too small, the second time with
\* one page more than fits under one page of flags.
GoodMaps ==
    LET usable(l) == [length |-> l, usable |-> TRUE]
    IN  {<<usable(7)>>,
         <<[length |-> 8, usable |-> FALSE], usable(6)>>,
         <<usable(2), usable(8), usable(7)>>}
=============================================================================
