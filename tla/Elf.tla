-------------------------------- MODULE Elf ---------------------------------
(***************************************************************************)
(* The program loader of elf.c: the list of regions it keeps of the new    *)
(* address space while it builds it, the pages it maps, and what it writes *)
(* to them.  A run of the loader is a state that each step takes on; once  *)
(* it has halted the kernel nothing changes any more.                      *)
(***************************************************************************)
EXTENDS Naturals, Integers, Sequences, SequencesExt

CONSTANTS PageSize, PtrSize,
          Top,          \* the end of the lower half: not the start of a page
          StackPages,
          RamSize,      \* how far the heap may grow
          HeaderSize    \* of one program header

NULL == 0
Unmapped == -1
\* A byte its page's last user left behind: allocate_ram_page does not clear pages, so it may be
\* any and nothing can be told from it.
Stale == -2
RoundDown(a) == a - (a % PageSize)
RoundUp(a) == RoundDown(a + PageSize - 1)

Region(free, start, end) == [free |-> free, start |-> start, end |-> end]

\* The tracker at first: one free region, without the page at 0.
NewSpace == [halted |-> FALSE, uaf |-> FALSE, regions |-> <<Region(TRUE, PageSize, Top)>>,
             mem |-> [a \in 0..Top |-> Unmapped], exec |-> {}]

Halt(s) == [s EXCEPT !.halted = TRUE]
Step(s, Op(_)) == IF s.halted THEN s ELSE Op(s)

Encloses(r, from, to) == r.start <= from /\ to <= r.end
\* The walk of allocate_virtual_range ends at the first region round the range.
FirstRound(regions, from, to) == SelectInSeq(regions, LAMBDA r : Encloses(r, from, to))

NextFree(r, to) == Region(TRUE, to, r.end)
Split(r, from, to) == <<Region(TRUE, r.start, from), Region(FALSE, from, to), NextFree(r, to)>>

allocate_virtual_range(s, from, to, can_execute) ==
    LET i == FirstRound(s.regions, from, to)
        passed == IF i = 0 THEN Len(s.regions) - 1 ELSE i - 1
        adjacent == \E k \in 1..passed : s.regions[k].free /\ s.regions[k + 1].free
    IN  IF \/ from % PageSize # 0 \/ to % PageSize # 0
           \/ i = 0 \/ adjacent
        THEN Halt(s)
        ELSE IF ~s.regions[i].free THEN Halt(s)
        ELSE [s EXCEPT !.regions = SubSeq(@, 1, i - 1) \o Split(@[i], from, to) \o SubSeq(@, i + 1, Len(@)),
                       !.mem = [a \in 0..Top |-> IF a \in from..(to - 1) THEN Stale ELSE @[a]],
                       !.exec = IF can_execute THEN @ \cup (from..(to - 1)) ELSE @]

\* The first free region that is large enough; two free neighbours before it would be merged,
\* and the second read after it was freed.
find_contiguous_virtual_range(regions, size) ==
    LET i == SelectInSeq(regions, LAMBDA r : r.free /\ r.end - r.start >= size)
        last == IF i = 0 THEN Len(regions) - 1 ELSE i - 1
    IN  [at |-> IF i = 0 THEN NULL ELSE regions[i].start,
         uaf |-> \E k \in 1..last : /\ regions[k].free /\ regions[k + 1].free
                                    /\ regions[k].end = regions[k + 1].start]

\* A write through the new page table: a page that is not mapped faults.
Put(s, at, bytes) ==
    IF \E a \in at..(at + Len(bytes) - 1) : a > Top \/ s.mem[a] = Unmapped THEN Halt(s)
    ELSE [s EXCEPT !.mem = [a \in 0..Top |-> IF a \in at..(at + Len(bytes) - 1) THEN bytes[a - at + 1] ELSE @[a]]]

Sum(f, n) == FoldLeft(LAMBDA t, i : t + f[i], 0, [i \in 1..n |-> i])
Zeros(n) == [i \in 1..n |-> 0]
Pointer(p) == <<p>> \o Zeros(PtrSize - 1)

(***************************************************************************)
(* The strings of argv or envp, with the array that points to them.        *)
(***************************************************************************)
ArgBytes(argv) == RoundUp(Sum([i \in 1..Len(argv) |-> PtrSize + Len(argv[i]) + 1], Len(argv)) + PtrSize)

\* Where string i goes: two bytes are left after the one before it.
StringAt(base, argv, i) ==
    base + (Len(argv) + 1) * PtrSize + Sum([k \in 1..Len(argv) |-> Len(argv[k]) + 2], i - 1)

StoreArg(s, base, argv, i) ==
    LET at == StringAt(base, argv, i)
        s1 == Put(s, base + (i - 1) * PtrSize, Pointer(at))
    IN  IF s1.halted THEN s1 ELSE Put(s1, at, Append(argv[i], 0))

PlaceArgs(s, argv, size, found) ==
    LET s1 == allocate_virtual_range([s EXCEPT !.uaf = @ \/ found.uaf], found.at, found.at + size, FALSE)
        s2 == FoldLeft(LAMBDA t, i : Step(t, LAMBDA u : StoreArg(u, found.at, argv, i)), s1, [i \in 1..Len(argv) |-> i])
    IN  [s |-> Step(s2, LAMBDA u : Put(u, found.at + Len(argv) * PtrSize, Pointer(NULL))), at |-> found.at]
setup_args_for_new_process(s, argv) ==
    PlaceArgs(s, argv, ArgBytes(argv), find_contiguous_virtual_range(s.regions, ArgBytes(argv)))

(***************************************************************************)
(* The program headers.  A file is its header (good, or with one field the *)
(* loader refuses), its program headers and its bytes.                     *)
(***************************************************************************)
\* read_file of fs_fat.c. From past the end the length wraps, and the chain of clusters is followed
\* to its end, where the kernel halts.
read_file(file, offset, num_bytes) ==
    LET past == offset + num_bytes > Len(file.bytes)
    IN  [halted |-> past /\ offset > Len(file.bytes),
         bytes |-> SubSeq(file.bytes, offset + 1, IF past THEN Len(file.bytes) ELSE offset + num_bytes)]

CheckHeader(file) == file.header = "good"

PhdrAsserted(file, h) ==
    /\ h.flags = {"r"}
    /\ h.offset = file.table_at
    /\ h.filesz = HeaderSize * Len(file.headers)
    /\ h.memsz = h.filesz

\* Mutant: the size alone is rounded.
MutPageEnd(h) == RoundDown(h.vaddr) + RoundUp(h.memsz)
PageEnd(h) == RoundUp(h.vaddr + h.memsz)

\* The rest of the segment is zeroed; a file size above the memory size makes its length wrap.
ZeroRest(s, h, read) ==
    CASE s.halted -> s
      [] read # h.filesz \/ h.filesz > h.memsz -> Halt(s)
      [] OTHER -> Put(s, h.vaddr + h.filesz, Zeros(h.memsz - h.filesz))
LoadSegment(s, file, h) ==
    LET read == read_file(file, h.offset, h.filesz)
    IN  ZeroRest(Step(allocate_virtual_range(s, RoundDown(h.vaddr), PageEnd(h), "x" \in h.flags),
                      LAMBDA u : IF read.halted THEN Halt(u) ELSE Put(u, h.vaddr, read.bytes)),
                 h, Len(read.bytes))

\* A table of program headers is checked and then loaded like any other segment.
ReadHeader(s, file, h) ==
    CASE h.type = "load" \/ (h.type = "phdr" /\ PhdrAsserted(file, h)) -> LoadSegment(s, file, h)
      [] h.type = "gnu_stack" -> s
      [] OTHER -> Halt(s)  \* an interpreter, or a type it does not know

\* The stack, the arguments and the environment are placed once the segments are, then the heap.
BuildStack(s) ==
    LET found == find_contiguous_virtual_range(s.regions, StackPages * PageSize)
    IN  [s |-> allocate_virtual_range([s EXCEPT !.uaf = @ \/ found.uaf], found.at, found.at + StackPages * PageSize, FALSE),
         at |-> found.at]

Failed(s) == [ok |-> FALSE, s |-> s, stack |-> 0, argv |-> 0, envp |-> 0, heap |-> 0]

WithEnvironment(stack, args, env) ==
    LET heap == find_contiguous_virtual_range(env.s.regions, RamSize)
    IN  IF env.s.halted THEN Failed(env.s)
        ELSE [ok |-> TRUE, s |-> [env.s EXCEPT !.uaf = @ \/ heap.uaf],
              stack |-> stack.at, argv |-> args.at, envp |-> env.at, heap |-> heap.at]
WithArguments(stack, args, envp) ==
    IF args.s.halted THEN Failed(args.s)
    ELSE WithEnvironment(stack, args, setup_args_for_new_process(args.s, envp))
WithStack(stack, argv, envp) ==
    IF stack.s.halted THEN Failed(stack.s)
    ELSE WithArguments(stack, setup_args_for_new_process(stack.s, argv), envp)
WithSegments(s, argv, envp) ==
    IF s.halted THEN Failed(s) ELSE WithStack(BuildStack(s), argv, envp)
instantiate_ELF(file, argv, envp) ==
    WithSegments(FoldLeft(LAMBDA s, h : Step(s, LAMBDA u : ReadHeader(u, file, h)),
                          IF CheckHeader(file) THEN NewSpace ELSE Halt(NewSpace), file.headers),
                 argv, envp)
=============================================================================
