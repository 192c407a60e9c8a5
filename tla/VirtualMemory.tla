---------------------------- MODULE VirtualMemory ----------------------------
(***************************************************************************)
(* Address spaces: stuos/src/memory.c and its callers in elf.c,            *)
(* processes.rs, syscall_handlers.rs and kern_libc.c.  A page table is a   *)
(* page frame whose entries point to further frames, so that frames that   *)
(* are shared, leaked or used twice show up as such.                       *)
(*                                                                         *)
(* The code has four levels of 512 entries, of which the upper 256 of the  *)
(* root are the kernel's; an address here has one index per level.  ram is *)
(* what is in physical memory: used (the slab flags), entry (a frame read  *)
(* as a table), data (a frame read as a page).                             *)
(***************************************************************************)
EXTENDS Integers, Sequences, FiniteSets, SequencesExt

CONSTANTS
    NumFrames,     \* frames under the physical page allocator
    Levels,        \* levels of page tables
    IndexCount,    \* entries of a table
    KernelStart,   \* the first root entry of the kernel half
    UserPages,     \* user page addresses, in the order walk_virtual_tree visits them
    KernelHeap,    \* kernel heap page addresses, in the order the heap grows
    MmioPages,     \* addresses from mmio_start on
    Values,        \* what a program can store in a page
    Zero,          \* a zeroed page
    Junk,          \* 0xEE bytes, or what used to be a page table
    None,          \* an entry that is not present
    MaxSpaces      \* bound on the address spaces alive at once

Frames == 1..NumFrames

KernelRoot == 0    \* original_kernel_page_table: the boot loader's, not allocated

Device == -1       \* the physical address of a device

Index == 0..(IndexCount - 1)

KernelIndex == KernelStart..(IndexCount - 1)

Address == [1..Levels -> Index]

ASSUME VirtualMemoryAssumption ==
    /\ NumFrames \in Nat /\ Zero \in Values
    /\ Levels \in Nat /\ Levels >= 2
    /\ IndexCount \in Nat /\ KernelStart \in Nat /\ KernelStart <= IndexCount
    /\ UserPages \in Seq({a \in Address : a[1] \notin KernelIndex}) /\ UserPages # <<>>
    /\ KernelHeap \in Seq({a \in Address : a[1] \in KernelIndex}) /\ KernelHeap # <<>>
    /\ MmioPages \in Seq({a \in Address : a[1] \in KernelIndex})
    /\ None \notin [addr : Int, exec : BOOLEAN]

VARIABLES
    ram,
    cr3,
    spaces,        \* page_table_root of every process
    heap, mmio,    \* how many pages of KernelHeap and MmioPages are mapped
    last,          \* history: how the last step made a space, if it did
    halted         \* HCF

vars == <<ram, cr3, spaces, heap, mmio, last, halted>>

Quiet == "other"

-----------------------------------------------------------------------------
(* Physical memory and page tables.  An operation that runs into HCF yields *)
(* Crash, whatever follows it.                                             *)

Crash == [used |-> {}, entry |-> <<>>, data |-> <<>>]

Full(r) == r.used = Frames

FirstFree(r) == CHOOSE f \in Frames \ r.used : \A g \in Frames \ r.used : f <= g

Pte(f, x) == [addr |-> f, exec |-> x]

Blank == [i \in Index |-> None]

\* A new, empty table under entry i of table t.
setup_page_table_entry(r, t, i) ==
    IF r = Crash \/ Full(r) \/ r.entry[t][i] # None THEN Crash
    ELSE LET f == FirstFree(r) IN
         [r EXCEPT !.used = @ \cup {f}, !.data[f] = Junk, !.entry[f] = Blank,
                   !.entry[t][i] = Pte(f, TRUE)]

\* One level of map_page: enter the table under entry i, made if need be.
Descend(s, i) ==
    LET r == IF s.ram = Crash \/ s.ram.entry[s.table][i] # None THEN s.ram
             ELSE setup_page_table_entry(s.ram, s.table, i)
    IN  [ram |-> r, table |-> IF r = Crash THEN s.table ELSE r.entry[s.table][i].addr]

\* Map address a of the space at root to frame f; HCF if it is mapped.
map_page(r, root, a, f, x) ==
    LET d[k \in 0..(Levels - 1)] ==
            IF k = 0 THEN [ram |-> r, table |-> root] ELSE Descend(d[k - 1], a[k])
        s == d[Levels - 1]
    IN
    IF s.ram = Crash \/ s.ram.entry[s.table][a[Levels]] # None THEN Crash
    ELSE [s.ram EXCEPT !.entry[s.table][a[Levels]] = Pte(f, x)]

\* The frame keeps its old contents.
allocate_ram_page(r, root, a, x) ==
    IF r = Crash \/ Full(r) THEN Crash
    ELSE map_page([r EXCEPT !.used = @ \cup {FirstFree(r)}], root, a, FirstFree(r), x)

\* The entry that the (partial) address p leads to.
Walk(r, root, p) ==
    LET w[k \in 0..Len(p)] ==
            IF k = 0 THEN Pte(root, TRUE)
            ELSE IF w[k - 1] = None THEN None ELSE r.entry[w[k - 1].addr][p[k]]
    IN  w[Len(p)]

\* A copy of the kernel's root table, in the first free frame.
generate_clean_virtual_addressing(r) ==
    IF r = Crash \/ Full(r) THEN Crash
    ELSE [r EXCEPT !.used = @ \cup {FirstFree(r)}, !.data[FirstFree(r)] = Junk,
                   !.entry[FirstFree(r)] = r.entry[KernelRoot]]

MutClonesLinks(r, a, from, to) ==
    LET e == Walk(r, from, a) IN
    IF r = Crash THEN Crash ELSE map_page(r, to, a, e.addr, e.exec)

\* leaf_callback_clone_page: a page of its own for the clone, then the memcpy.
ClonePage(r, a, from, to) ==
    LET e == Walk(r, from, a)
        n == allocate_ram_page(r, to, a, e.exec)
    IN  IF n = Crash THEN Crash
        ELSE [n EXCEPT !.data[Walk(n, to, a).addr] = r.data[e.addr]]

\* What walk_virtual_tree visits: the pages of the lower half.
WalkedPages(r, root) == {a \in ToSet(UserPages) : Walk(r, root, a) # None}

MutFreesRootOnly(r, root) == {root}

\* The tables walk_virtual_tree hands to its second callback, the root last.
WalkedTables(r, root) ==
    {root} \cup UNION {{Walk(r, root, SubSeq(a, 1, k)).addr : k \in 1..(Levels - 1)} :
                          a \in WalkedPages(r, root)}

\* Pages are overwritten and freed, tables just freed.
remove_virtual_addressing(r, root) ==
    LET leaves == {Walk(r, root, a).addr : a \in WalkedPages(r, root)} IN
    [r EXCEPT !.used = @ \ (leaves \cup WalkedTables(r, root)),
              !.data = [f \in Frames |-> IF f \in leaves THEN Junk ELSE @[f]]]

-----------------------------------------------------------------------------
MutNoFill(r) == r

\* The table of one kernel entry of the root.
FillEntry(r, i) ==
    IF r # Crash /\ r.entry[KernelRoot][i] # None THEN r
    ELSE setup_page_table_entry(r, KernelRoot, i)

\* Every kernel entry of the root gets its table before any root is copied.
fill_kernel_pml4(r) ==
    LET m[k \in 0..(IndexCount - KernelStart)] ==
            IF k = 0 THEN r ELSE FillEntry(m[k - 1], KernelStart + k - 1)
    IN  m[IndexCount - KernelStart]

\* memory_init, with the first heap page of init_memory_allocator, on a machine
\* that has the memory for it.
Init ==
    /\ ram = allocate_ram_page(
                fill_kernel_pml4([used  |-> {},
                                  entry |-> [f \in Frames \cup {KernelRoot} |-> Blank],
                                  data  |-> [f \in Frames |-> Junk]]),
                KernelRoot, KernelHeap[1], FALSE)
    /\ ram # Crash
    /\ cr3 = KernelRoot
    /\ spaces = {}
    /\ heap = 1 /\ mmio = 0
    /\ last = Quiet
    /\ halted = FALSE

\* The end of a kernel operation that leaves r in memory, or that crashed.
Commit(r) ==
    /\ ram' = IF r = Crash THEN ram ELSE r
    /\ halted' = (r = Crash)

\* CR3 points to a live root.  Between the drop of the old space in execve and
\* the next process switch it does not, and the kernel allocates nothing.
Settled == ~halted /\ cr3 \in spaces \cup {KernelRoot}

\* _malloc_expand_heap, under whatever space is current.
_malloc_expand_heap ==
    /\ Settled /\ heap < Len(KernelHeap)
    /\ Commit(allocate_ram_page(ram, cr3, KernelHeap[heap + 1], FALSE))
    /\ heap' = heap + 1
    /\ last' = Quiet
    /\ UNCHANGED <<cr3, spaces, mmio>>

\* A driver maps its device while the kernel boots.
setup_mmio ==
    /\ Settled /\ spaces = {} /\ mmio < Len(MmioPages)
    /\ Commit(map_page(ram, cr3, MmioPages[mmio + 1], Device, FALSE))
    /\ mmio' = mmio + 1
    /\ last' = Quiet
    /\ UNCHANGED <<cr3, spaces, heap>>

\* Pages at the addresses others, one after another.
LoadPages(r, root, others) ==
    LET m[k \in 0..Len(UserPages)] ==
            IF k = 0 THEN r
            ELSE IF UserPages[k] \in others
                 THEN allocate_ram_page(m[k - 1], root, UserPages[k], FALSE)
                 ELSE m[k - 1]
    IN  m[Len(UserPages)]

\* A new space with one loaded, executable segment of contents v, and stack and
\* argument pages that hold what their frames held.  prev_cr3 is restored.
instantiate_ELF(v, others) ==
    /\ Settled /\ Cardinality(spaces) < MaxSpaces
    /\ LET root == FirstFree(ram)
           a == UserPages[1]
           seg == allocate_ram_page(generate_clean_virtual_addressing(ram), root, a, TRUE)
           filled == IF seg = Crash THEN Crash
                     ELSE [seg EXCEPT !.data[Walk(seg, root, a).addr] = v]
           r == LoadPages(filled, root, others)
       IN  /\ Commit(r)
           /\ spaces' = IF r = Crash THEN spaces ELSE spaces \cup {root}
    /\ last' = "load"
    /\ UNCHANGED <<cr3, heap, mmio>>

\* Copies of the given pages, one after another.
ClonePages(r, from, to, pages) ==
    LET m[k \in 0..Len(UserPages)] ==
            IF k = 0 THEN r
            ELSE IF m[k - 1] # Crash /\ UserPages[k] \in pages
                 THEN ClonePage(m[k - 1], UserPages[k], from, to)
                 ELSE m[k - 1]
    IN  m[Len(UserPages)]

\* syscall_fork's copy of the current space.
clone_virtual_addressing ==
    /\ Settled /\ cr3 # KernelRoot /\ Cardinality(spaces) < MaxSpaces
    /\ LET root == FirstFree(ram)
           r == ClonePages(generate_clean_virtual_addressing(ram), cr3, root,
                           WalkedPages(ram, cr3))
       IN  /\ Commit(r)
           /\ spaces' = IF r = Crash THEN spaces ELSE spaces \cup {root}
    /\ last' = "clone"
    /\ UNCHANGED <<cr3, heap, mmio>>

\* The program asks for page a; asking for a mapped page stops the kernel.
syscall_request_page(a) ==
    /\ Settled /\ cr3 # KernelRoot
    /\ Commit(allocate_ram_page(ram, cr3, a, FALSE))
    /\ last' = Quiet
    /\ UNCHANGED <<cr3, spaces, heap, mmio>>

\* The running program stores v in its page a.
UserStore(a, v) ==
    /\ Settled /\ cr3 # KernelRoot
    /\ a \in WalkedPages(ram, cr3)
    /\ ram' = [ram EXCEPT !.data[Walk(ram, cr3, a).addr] = v]
    /\ last' = Quiet
    /\ UNCHANGED <<cr3, spaces, heap, mmio, halted>>

\* Drop for Process: a reaped child, or the old program in execve, in which case
\* CR3 is set back to the root that has just been freed.
DropProcess(root) ==
    /\ Settled /\ root \in spaces
    /\ ram' = remove_virtual_addressing(ram, root)
    /\ spaces' = spaces \ {root}
    /\ last' = Quiet
    /\ UNCHANGED <<cr3, heap, mmio, halted>>

\* Process::poll, or userland being entered.
set_pml4_phys(root) ==
    /\ ~halted /\ root \in spaces /\ cr3' = root
    /\ last' = Quiet
    /\ UNCHANGED <<ram, spaces, heap, mmio, halted>>

\* HCF, or the last process is gone.
Stopped == halted \/ (spaces = {} /\ cr3 # KernelRoot)

Next ==
    \/ _malloc_expand_heap \/ setup_mmio \/ clone_virtual_addressing
    \/ \E v \in Values, others \in SUBSET ToSet(Tail(UserPages)) : instantiate_ELF(v, others)
    \/ \E a \in ToSet(UserPages) : syscall_request_page(a)
    \/ \E a \in ToSet(UserPages), v \in Values : UserStore(a, v)
    \/ \E root \in spaces : DropProcess(root) \/ set_pml4_phys(root)
    \/ Stopped /\ UNCHANGED vars

Spec == Init /\ [][Next]_vars

-----------------------------------------------------------------------------
\* What physical memory can hold.
Ram ==
    [used  : SUBSET Frames,
     entry : [Frames \cup {KernelRoot} ->
                [Index -> [addr : Frames \cup {Device}, exec : BOOLEAN] \cup {None}]],
     data  : [Frames -> Values \cup {Junk}]]

\* Types, and every process's root is a frame that is marked used.
TypeOK ==
    /\ ram \in Ram
    /\ spaces \subseteq ram.used /\ cr3 \in Frames \cup {KernelRoot}
    /\ heap \in 1..Len(KernelHeap) /\ mmio \in 0..Len(MmioPages)
    /\ last \in {"load", "clone", "other"} /\ halted \in BOOLEAN

PathsTo(pages) == {SubSeq(a, 1, k) : a \in ToSet(pages), k \in 1..Levels}

\* The kernel's paths, with those that are set up and not used yet.
KernelPaths == PathsTo(KernelHeap) \cup PathsTo(MmioPages) \cup {<<i>> : i \in KernelIndex}

\* Where tables and pages hang: below the roots S, and below the kernel's.
Nodes(S) ==
    (S \X (PathsTo(UserPages) \cup {<< >>})) \cup ({KernelRoot} \X (KernelPaths \cup {<< >>}))

At(r, n) == Walk(r, n[1], n[2])

\* Who holds frame f: a process as its root, or an entry on a path of one of
\* the spaces or of the kernel.
Owners(f) == {n \in Nodes(spaces) : At(ram, n) # None /\ At(ram, n).addr = f}

\* Every frame that is marked used has exactly one owner and every other frame
\* has none: spaces share no page and no table, a removed space gives all of
\* its frames back, and no frame of a live space or of the kernel is freed.
FramesOwnedOnce ==
    ~halted => \A f \in Frames : Cardinality(Owners(f)) = IF f \in ram.used THEN 1 ELSE 0

\* Whatever was mapped into the kernel half, at any time and under any space, is
\* seen by every space and through CR3, even while CR3 still holds the freed
\* root that execve leaves there.
KernelMappedEverywhere ==
    ~halted => \A r \in spaces \cup {cr3}, a \in ToSet(KernelHeap \o MmioPages) :
                  Walk(ram, r, a) = Walk(ram, KernelRoot, a)

-----------------------------------------------------------------------------
(* The inductive invariant of the proofs, for any memory r and roots S.    *)

\* No frame hangs in two places, and the used ones are those that hang somewhere
\* and those in E, which an operation under way has taken and not entered yet.
Tree(r, S, E) ==
    /\ \A n \in Nodes(S) : At(r, n) # None =>
          /\ At(r, n).addr \in (r.used \ E) \cup {KernelRoot, Device}
          /\ At(r, n).addr = Device => n[1] = KernelRoot /\ Len(n[2]) = Levels
    /\ \A m, n \in Nodes(S) :
          (At(r, m) # None /\ At(r, n) # None /\ At(r, m).addr = At(r, n).addr) =>
              m = n \/ At(r, m).addr = Device
    /\ \A f \in r.used : f \in E \/ \E n \in Nodes(S) : At(r, n) # None /\ At(r, n).addr = f
    /\ E \subseteq r.used

\* The roots R have the kernel's tables in the kernel half.
SharesKernelHalf(r, R) ==
    \A s \in R \cup {KernelRoot}, i \in KernelIndex :
        r.entry[s][i] = r.entry[KernelRoot][i] /\ r.entry[s][i] # None

\* The kernel's own root has nothing in the user half.
NoUserHalf(r) == \A i \in Index \ KernelIndex : r.entry[KernelRoot][i] = None

\* Every table of a space leads to a page, apart from those on the paths in X.
TablesLeadToPages(r, S, X) ==
    \A s \in S, p \in PathsTo(UserPages) :
        Walk(r, s, p) # None =>
            \/ <<s, p>> \in X
            \/ \E a \in ToSet(UserPages) : SubSeq(a, 1, Len(p)) = p /\ Walk(r, s, a) # None

Sound(r, S) ==
    /\ r \in Ram /\ Tree(r, S, {}) /\ SharesKernelHalf(r, S) /\ NoUserHalf(r)
    /\ TablesLeadToPages(r, S, {})

VmInv == TypeOK /\ Sound(ram, spaces) /\ SharesKernelHalf(ram, {cr3})

-----------------------------------------------------------------------------
\* What a program finds in its space.
View(r) == [a \in WalkedPages(ram, r) |->
               [data |-> ram.data[Walk(ram, r, a).addr], exec |-> Walk(ram, r, a).exec]]

Private == INSTANCE PrivateMemory
    WITH Pages <- ToSet(UserPages), Contents <- Values \cup {Junk},
         mem <- [r \in spaces |-> View(r)], op <- last

\* Address spaces behave as memories of their own, through every fork, exec,
\* allocation and exit and for every reuse of a frame.  What a new page holds is
\* not part of it: see NewPagesZeroed.
ImplementsPrivateMemory == Private!Spec

\* memory.h of allocate_ram_page: "allocates and zeroes a new page".  A page that a
\* program gets while it runs holds zeroes, whoever had the frame before.
NewPagesZeroed ==
    [][\A r \in spaces \cap spaces', a \in ToSet(UserPages) :
          Walk(ram, r, a) = None /\ Walk(ram', r, a) # None =>
              ram'.data[Walk(ram', r, a).addr] = Zero]_vars

-----------------------------------------------------------------------------
\* The instance that is model-checked has tables of three levels, the first of
\* which is split between the user and the kernel half: two user pages under two
\* tables of the last level, two heap pages under two root entries, and a device
\* page next to the second.
MCUserPages == << <<0, 0, 0>>, <<0, 1, 0>> >>
MCKernelHeap == << <<2, 0, 0>>, <<3, 0, 0>> >>
MCMmioPages == << <<3, 1, 0>> >>
=============================================================================
