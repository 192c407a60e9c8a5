-------------------------------- MODULE Malloc --------------------------------
(***************************************************************************)
(* The allocator that kernel and user programs share: custom_malloc/       *)
(* library.c and linked_list_item.c, with the heap growth of custom_libc/  *)
(* init.c and the RLIMIT_DATA accounting of stuos/src/processes.rs.        *)
(*                                                                         *)
(* The heap is a linked list of regions, each behind a header.  malloc     *)
(* walks the list, one step per iteration of its loops.                    *)
(***************************************************************************)
EXTENDS Integers

CONSTANTS
    Align,         \* MALLOC_ALIGNMENT, and the size of a header
    PageSize,
    HeapStart,     \* page-aligned, not NULL
    Sizes,         \* the sizes, in bytes, that callers ask for
    Limits         \* the RLIMIT_DATA limits, in pages, that are ever set

ASSUME MallocAssumption ==
    /\ Align \in Nat \ {0} /\ HeapStart \in Nat \ {0}
    /\ PageSize \in Nat /\ PageSize >= Align
    /\ Sizes \subseteq Nat \ {0} /\ Limits \subseteq Nat \ {0} /\ Limits # {}

VARIABLES
    list,          \* next and is_free of every header, and the tail
    heap_end,
    call,          \* the malloc under way: size asked for and rounded,
                   \* cursor, and the block realloc frees at the end
    blocks,        \* history: ptr -> size of the blocks callers hold
    charged,       \* LimitData.current_value, in pages
    limit,         \* rlim_cur, in pages
    aborted        \* a check of the allocator failed

vars == <<list, heap_end, call, blocks, charged, limit, aborted>>

Null == 0

Header == Align

Idle == [asked |-> 0, size |-> 0, cursor |-> Null, old |-> Null]

Headers(l) == DOMAIN l.next

\* lli_region_size's two cases.
RegionEnd(l, a, end) == IF l.next[a] = Null THEN end ELSE l.next[a]

lli_region_size(l, a, end) == RegionEnd(l, a, end) - (a + Header)

lli_insert_after(l, self, addr) ==
    [next    |-> [a \in Headers(l) \cup {addr} |->
                     IF a = self THEN addr ELSE IF a = addr THEN l.next[self] ELSE l.next[a]],
     is_free |-> [a \in Headers(l) \cup {addr} |-> IF a = addr THEN TRUE ELSE l.is_free[a]],
     tail    |-> IF l.next[self] = Null THEN addr ELSE l.tail]

\* The two checks of lli_insert_after.
BadInsert(l, self, addr) ==
    \/ self + Header > addr
    \/ l.next[self] # Null /\ addr + Header > l.next[self]

MutMergesUsed(l, self) == l.next[self] # Null /\ l.is_free[self]

\* Whether lli_try_merge_after merges.
CanMerge(l, self) == l.next[self] # Null /\ l.is_free[self] /\ l.is_free[l.next[self]]

\* What it does then: the header after self disappears.
lli_merge_after(l, self) ==
    LET gone == l.next[self] IN
    [next    |-> [a \in Headers(l) \ {gone} |-> IF a = self THEN l.next[gone] ELSE l.next[a]],
     is_free |-> [a \in Headers(l) \ {gone} |-> l.is_free[a]],
     tail    |-> IF gone = l.tail THEN self ELSE l.tail]

\* is_free of one header, set and cleared.
SetFree(l, self) == [l EXCEPT !.is_free[self] = TRUE]

SetUsed(l, self) == [l EXCEPT !.is_free[self] = FALSE]

\* Sizes are rounded up to the alignment.
Rounded(size) == ((size + Align - 1) \div Align) * Align

\* Enough is left for another header.
Splits(l, at, size, end) == lli_region_size(l, at, end) >= size + Header

\* The end of malloc: the region at `at' is used, and split if it can be.
Reserve(l, at, size, end) ==
    LET used == SetUsed(l, at) IN
    IF Splits(used, at, size, end)
    THEN lli_insert_after(used, at, at + Header + size) ELSE used

\* malloc answers with the block behind header `at'; realloc frees the old one.
Answer(l, at, end) ==
    /\ aborted' = (Splits(l, at, call.size, end) /\ BadInsert(l, at, at + Header + call.size))
    /\ list' = IF call.old = Null THEN Reserve(l, at, call.size, end)
               ELSE SetFree(Reserve(l, at, call.size, end), call.old - Header)
    /\ blocks' = [p \in (DOMAIN blocks \cup {at + Header}) \ {call.old} |->
                     IF p = at + Header THEN call.asked ELSE blocks[p]]
    /\ call' = Idle

\* init_memory_allocator: one page, one free region.
Init ==
    /\ list = [next |-> [a \in {HeapStart} |-> Null], is_free |-> [a \in {HeapStart} |-> TRUE],
               tail |-> HeapStart]
    /\ heap_end = HeapStart + PageSize
    /\ call = Idle
    /\ blocks = [p \in {} |-> 0]
    /\ charged = 1
    /\ limit \in Limits
    /\ aborted = FALSE

\* A call of malloc (old = NULL) or of realloc(old, size).
malloc(size, old) ==
    /\ ~aborted /\ call = Idle
    /\ call' = [asked |-> size, size |-> Rounded(size), cursor |-> HeapStart, old |-> old]
    /\ UNCHANGED <<list, heap_end, blocks, charged, limit, aborted>>

Scanning == ~aborted /\ call # Idle

MutMergesOnce ==
    /\ Scanning /\ CanMerge(list, call.cursor)
    /\ list' = lli_merge_after(list, call.cursor)
    /\ call' = IF list'.next[call.cursor] = Null THEN call
               ELSE [call EXCEPT !.cursor = list'.next[@]]
    /\ UNCHANGED <<heap_end, blocks, charged, limit, aborted>>

\* Coalesce at the cursor.
Coalesce ==
    /\ Scanning /\ CanMerge(list, call.cursor)
    /\ list' = lli_merge_after(list, call.cursor)
    /\ UNCHANGED <<heap_end, call, blocks, charged, limit, aborted>>

Fits(a) == list.is_free[a] /\ lli_region_size(list, a, heap_end) >= call.size

\* A region that is free and big enough.
TakeFit ==
    /\ Scanning /\ ~CanMerge(list, call.cursor) /\ Fits(call.cursor)
    /\ Answer(list, call.cursor, heap_end)
    /\ UNCHANGED <<heap_end, charged, limit>>

MutRestarts ==
    /\ Scanning /\ ~CanMerge(list, call.cursor) /\ ~Fits(call.cursor)
    /\ list.next[call.cursor] # Null
    /\ call' = [call EXCEPT !.cursor = HeapStart]
    /\ UNCHANGED <<list, heap_end, blocks, charged, limit, aborted>>

Advance ==
    /\ Scanning /\ ~CanMerge(list, call.cursor) /\ ~Fits(call.cursor)
    /\ list.next[call.cursor] # Null
    /\ call' = [call EXCEPT !.cursor = list.next[@]]
    /\ UNCHANGED <<list, heap_end, blocks, charged, limit, aborted>>

\* What the free region at the end already offers.
LastSize == IF list.is_free[list.tail] THEN lli_region_size(list, list.tail, heap_end) ELSE 0

\* actual_needed_bytes.
Needed == call.size - LastSize + Header

NeededPages == (Needed + PageSize - 1) \div PageSize

\* The pages that syscall_request_page grants before try_allocate refuses one.
Granted ==
    IF charged + NeededPages <= limit THEN NeededPages
    ELSE IF charged < limit THEN limit - charged ELSE 0

\* current_value after the requests: only granted pages are charged.
Charged == charged + Granted

\* The list is exhausted: grow the heap.
Expand ==
    /\ Scanning /\ ~CanMerge(list, call.cursor) /\ ~Fits(call.cursor)
    /\ list.next[call.cursor] = Null
    /\ heap_end' = heap_end + Granted * PageSize
    /\ charged' = Charged
    /\ \/ /\ Granted * PageSize < Needed
          /\ call' = Idle
          /\ UNCHANGED <<list, blocks, aborted>>
       \/ /\ Granted * PageSize >= Needed
          /\ LET grown == lli_insert_after(list, list.tail, heap_end)
                 l == IF CanMerge(grown, list.tail) THEN lli_merge_after(grown, list.tail) ELSE grown
             IN  IF /\ ~BadInsert(list, list.tail, heap_end)
                    /\ l.is_free[l.tail] /\ lli_region_size(l, l.tail, heap_end') >= call.size
                 THEN Answer(l, l.tail, heap_end')
                 ELSE aborted' = TRUE /\ UNCHANGED <<list, blocks, call>>
    /\ UNCHANGED limit

\* A caller frees a block it holds.
free(p) ==
    /\ ~aborted /\ call = Idle /\ p \in DOMAIN blocks
    /\ list' = SetFree(list, p - Header)
    /\ blocks' = [q \in DOMAIN blocks \ {p} |-> blocks[q]]
    /\ UNCHANGED <<heap_end, call, charged, limit, aborted>>

\* setrlimit between two calls.
try_update(n) ==
    /\ ~aborted /\ call = Idle
    /\ limit' = n
    /\ UNCHANGED <<list, heap_end, call, blocks, charged, aborted>>

Next ==
    \/ \E size \in Sizes : malloc(size, Null)
    \/ \E size \in Sizes : \E old \in DOMAIN blocks : malloc(size, old)
    \/ Coalesce \/ TakeFit \/ Advance \/ Expand
    \/ \E p \in DOMAIN blocks : free(p)
    \/ \E n \in Limits : try_update(n)

Spec == Init /\ [][Next]_vars

FairSpec == Spec /\ WF_vars(Coalesce \/ TakeFit \/ Advance \/ Expand)

-----------------------------------------------------------------------------
\* A list of headers: every next is a header or NULL, and there is a tail.
IsList(l) ==
    /\ Headers(l) \subseteq Nat \ {Null} /\ DOMAIN l.is_free = Headers(l)
    /\ l \in [next    : [Headers(l) -> Headers(l) \cup {Null}],
              is_free : [Headers(l) -> BOOLEAN], tail : Headers(l)]

\* The list, the pending call and the blocks have their types.
TypeOK ==
    /\ IsList(list)
    /\ heap_end \in Nat /\ charged \in Nat /\ limit \in Nat /\ aborted \in BOOLEAN
    /\ DOMAIN blocks \subseteq Nat \ {Null} /\ blocks \in [DOMAIN blocks -> Nat \ {0}]
    /\ \/ call = Idle
       \/ call \in [asked : Nat \ {0}, size : Nat, cursor : Headers(list),
                    old : DOMAIN blocks \cup {Null}]

\* The regions of l tile the heap up to end: the list starts at the head, runs
\* through every header in address order and ends at the tail.
Tiles(l, end) ==
    /\ HeapStart \in Headers(l)
    /\ l.next[l.tail] = Null
    /\ l.tail + Header <= end
    /\ \A a \in Headers(l) :
          /\ HeapStart <= a /\ a <= l.tail
          /\ a # l.tail =>
                /\ l.next[a] \in Headers(l)
                /\ a + Header <= l.next[a]
                /\ \A b \in Headers(l) : b <= a \/ l.next[a] <= b

\* The regions tile the heap whatever was split, merged or grown, and whether or
\* not an expansion failed half way.
ListTilesHeap == Tiles(list, heap_end)

\* The used regions of l are those of the blocks b, and every block fits.
Fills(l, b, end) ==
    /\ \A p \in DOMAIN b :
          /\ p - Header \in Headers(l) /\ ~l.is_free[p - Header]
          /\ p + b[p] <= RegionEnd(l, p - Header, end)
    /\ \A a \in Headers(l) : ~l.is_free[a] => a + Header \in DOMAIN b

\* A region is in use exactly while a caller holds the block in it, and the
\* block fits: a caller that stays inside its block overwrites no header (the
\* canary) and no other block.
BlocksFillUsedRegions == Fills(list, blocks, heap_end)

\* Between the ends of what one caller asked for and the start of the next block
\* there is room for a header.
BlocksDisjoint ==
    \A p, q \in DOMAIN blocks : p < q => p + blocks[p] + Header <= q

\* The checks that the code makes of itself ("MALLOC ABORT") never fail.
NeverAborts == ~aborted

\* Pages are charged exactly when the heap has them, also when an expansion is
\* refused part of what it asked for.
ChargeMatchesHeap == heap_end = HeapStart + charged * PageSize

\* custom_malloc: list, blocks and charged pages describe the same heap, whatever
\* was split, merged, grown, resized, freed or refused.
HeapConsistent == /\ ListTilesHeap /\ BlocksFillUsedRegions /\ BlocksDisjoint
                  /\ NeverAborts /\ ChargeMatchesHeap

\* Adjacent free regions.
FreeRun(a, b) ==
    /\ a \in Headers(list) /\ b \in Headers(list) /\ a <= b
    /\ \A c \in Headers(list) : a <= c /\ c <= b => list.is_free[c]

\* The heap only grows when no stretch of free memory, coalesced or not, could
\* hold the request: fragmentation by lazy merging costs no memory.
GrowsOnlyIfNeeded ==
    Scanning /\ ~CanMerge(list, call.cursor) /\ ~Fits(call.cursor)
             /\ list.next[call.cursor] = Null
    => \A a, b \in Headers(list) :
          FreeRun(a, b) => RegionEnd(list, b, heap_end) - (a + Header) < call.size

\* Every call of malloc and realloc ends, with a block or without.
CallsEnd == (call # Idle) ~> (call = Idle)

\* The size malloc works with is never below the size asked for.
SizeCoversRequest == call # Idle => call.size >= call.asked

\* What the walk leaves behind it: neither a region that would have done nor two
\* free regions in a row.
NothingLeftBehind ==
    Scanning => \A a \in Headers(list) :
                    a < call.cursor => ~CanMerge(list, a) /\ ~Fits(a)

\* The inductive invariant of the proofs.
MallocInv ==
    /\ TypeOK /\ ListTilesHeap /\ BlocksFillUsedRegions /\ NeverAborts
    /\ ChargeMatchesHeap /\ SizeCoversRequest /\ NothingLeftBehind
=============================================================================
