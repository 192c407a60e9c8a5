------------------------------ MODULE Startup -------------------------------
(***************************************************************************)
(* What the kernel does before and below the first program: it reads the   *)
(* tables of the firmware, finds the devices and gives them vectors, walks *)
(* paths, and loads an executable.                                         *)
(***************************************************************************)
EXTENDS Caller, Naturals, Integers, Sequences, SequencesExt, FiniteSets

CONSTANTS PageSize, PtrSize, Top, StackPages, RamSize, HeaderSize,  \* for Elf
          Executables, Arguments,
          Root, NewFile, NoNode, MaxMounts, Tree,                   \* for Paths
          Cwds, PathNames, MountTables, OpenFlags,
          WordBits, PageBytes, IoPorts, FirstVector, LastVector, LapicAddress,  \* for Pci
          Machines,
          ByteRange, IoapicLength, TimerRange, CounterRange, Calibration,       \* for BootTables
          LargeLength, BigAmountOfRam, KernelText, HhdmOffset,
          Firmware, TimerPorts, MaxClock, MemoryMaps, Addresses,
          PointersPerPage, Descriptors, Controllers, Protocols,                 \* for UsbSetup
          InodeShift, DeviceTables,                                             \* for Volumes
          WordRange, DirentSize, MaxVolumes, NameChars, BootSectors, DirEntries

E == INSTANCE Elf
P == INSTANCE Paths
D == INSTANCE Pci
B == INSTANCE BootTables
U == INSTANCE UsbSetup
F == INSTANCE Volumes

StartupFamilies == {"load", "path", "boot", "timer", "usb"}

Load == Ready("load") /\ \E f \in Executables, argv \in Arguments, envp \in Arguments :
    Ask([op |-> "load", file |-> f, argv |-> argv, envp |-> envp], E!instantiate_ELF(f, argv, envp))

\* A path below a directory, another below that, and both at once.
Name == Ready("path") /\ \E c \in Cwds, p \in PathNames, q \in PathNames :
    LET cwd == P!make_cwd(c)
        one == P!with_cwd(cwd.data, p)
    IN  /\ cwd.err = ""
        /\ Ask([op |-> "name", cwd |-> cwd.data, p |-> p, q |-> q],
               [one |-> one, two |-> P!with_cwd(one.data, q),
                both |-> P!with_cwd(cwd.data, p \o <<"/">> \o q)])

\* make_cwd refuses the root, which AbsolutePath::root stands for.
MountPath(at) == IF at = <<"/">> THEN P!Ok(<< >>) ELSE P!make_cwd(at)
Mount == Ready("path") /\ \E c \in Cwds, p \in PathNames, t \in MountTables :
    LET cwd == P!make_cwd(c)
        full == P!with_cwd(cwd.data, p)
        mounts == FoldLeft(LAMBDA acc, m : P!rs_vfs_add_mount(acc, MountPath(m.at).data, m.replacement), << >>, t)
    IN  /\ cwd.err = "" /\ full.err = ""
        /\ Ask([op |-> "mount", path |-> full.data, mounts |-> mounts],
               [i |-> P!rs_vfs_resolve_mount(mounts, full.data), get |-> P!rs_vfs_get(Tree, mounts, cwd.data, p, {})])

\* The mounts are added one by one, each on the node its path leads to.
Mounted(t) ==
    FoldLeft(LAMBDA acc, m :
                LET at == P!vfs_get(Tree, acc.mounts, <<"/">>, m.at, {"O_DIRECTORY"})
                    r == P!vfs_add_mount(acc.mounts, at.node, m.replacement)
                IN  IF at.halted \/ acc.halted THEN [acc EXCEPT !.halted = TRUE] ELSE r,
             [halted |-> FALSE, overran |-> FALSE, mounts |-> << >>], t)
OpenPath == Ready("path") /\ \E t \in MountTables, c \in Cwds, p \in PathNames, flags \in OpenFlags :
    \E m \in {Mounted(t)} :
        /\ ~m.halted
        /\ \E r \in {P!vfs_get(Tree, m.mounts, c, p, flags)} :
              Ask([op |-> "open", mounts |-> m, cwd |-> c, path |-> p, flags |-> flags],
                  [first |-> r, again |-> P!vfs_get(r.tree, m.mounts, c, p, flags \ {"O_CREAT", "O_TRUNC"})])

\* stat of a name in /dev, and a listing of it from some entry on.
StatDevice == Ready("path") /\ \E devices \in DeviceTables, d \in 0..2, p \in 0..3, index \in 0..3, count \in 0..3 :
    Ask([op |-> "stat", devices |-> devices, name |-> <<d, p>>, index |-> index, count |-> count],
        [stat |-> F!syscall_stat(devices, <<d, p>>), list |-> F!devroot_read_dirents(devices, index, count)])

\* Two volumes one after the other; entries of the second are looked at.
MountVolumes == Ready("path") /\ \E g, h \in BootSectors :
    LET one == F!mount_fat16([i \in 1..MaxVolumes |-> F!Unused], g)
    IN  Ask([op |-> "volume", headers |-> <<g, h>>], <<one, F!mount_fat16(one.volumes, h)>>)
StatEntry == Ready("path") /\ \E d, e \in DirEntries :
    Ask([op |-> "entry", entries |-> <<d, e>>],
        [i \in 1..2 |-> LET x == <<d, e>>[i] IN [name |-> F!short_name(x.filename), stat |-> F!stat_file(F!Unused, FALSE, x),
                                                made |-> F!read_fat_mode(F!create_fat_mode(x.mode))]])

(***************************************************************************)
(* kmain: the tables, then function after function of the bus, then the    *)
(* keyboard controller.  Interrupts are on all the while.                  *)
(***************************************************************************)
BeginBoot == Ready("boot") /\ \E f \in Firmware, m \in Machines :
    Ask([op |-> "boot", firmware |-> f, acpi |-> B!handle_rsdp(f), machine |-> m, left |-> m,
         pci |-> D!NoDevices, ps2 |-> 0], << >>)

Running == call.op = "boot" /\ ~call.acpi.halted /\ ~call.acpi.endless /\ ~call.pci.halted

FindNext == /\ Running
            /\ call.pci.step = "search" /\ call.left # << >>
            /\ Ask([call EXCEPT !.pci = D!VisitFunction(@, Head(call.left)), !.left = Tail(@)], << >>)

\* The first steps of initialise_xhci; the device's interrupts are enabled already.
StartDriver == /\ Running
               /\ \/ /\ call.pci.step = "handler"
                     /\ Ask([call EXCEPT !.pci = D!SetHandler(@)], << >>)
                  \/ /\ call.pci.step = "controller"
                     /\ Ask([call EXCEPT !.pci = D!KeepController(@)], << >>)

\* The end of initialise_ps2: a vector, its handler, and the line of the I/O APIC.
KeyboardLine == 1
ConnectKeyboard == /\ Running
                   /\ call.pci.step = "search" /\ call.left = << >> /\ call.ps2 = 0
                   /\ LET p == D!allocate_free_idt_entry(call.pci)
                          q == D!initialise_idt_entry(p, p.vector, "handle_incoming_byte")
                      IN  Ask([call EXCEPT !.pci = IF p.halted THEN p ELSE q, !.ps2 = p.vector,
                                           !.acpi = B!map_ioapic_interrupt(@, KeyboardLine, p.vector)], << >>)

\* A device whose interrupts are enabled sends its message at any time, driver or not.
Sent(id, vector) == LET to == D!Receive(call.pci, vector)
                    IN  Ask([call EXCEPT !.pci.halted = to = "halted"], <<id, to>>)
Interrupt == /\ Running
             /\ \/ \E i \in 1..Len(call.pci.found) : /\ call.pci.found[i].vector # D!NoVector
                                                    /\ Sent(call.pci.found[i].id, call.pci.found[i].table[1].vector)
                \/ call.ps2 # 0 /\ Sent("keyboard", call.acpi.ioapic.redirect[KeyboardLine])

\* Timer interrupts come with some ticks of the clock between them.
BeginTimer == Ready("timer") /\ \E c \in 0..(TimerRange - 1), port \in TimerPorts :
    Ask([op |-> "timer", port |-> port, clock |-> c, t |-> B!Untrained, from |-> 0, to |-> 0], << >>)
TimerInterrupt == /\ call.op = "timer" /\ ~call.t.halted
                  /\ \E k \in 1..(TimerRange - 1) :
                        LET now == call.clock + k
                        IN  /\ now <= MaxClock
                            /\ Ask([call EXCEPT !.clock = now, !.t = B!apic_timer_counter(@, call.port, now),
                                       !.from = IF call.t.interrupts = Calibration THEN now ELSE @,
                                       !.to = IF call.t.interrupts = Calibration + 1 THEN now ELSE @], << >>)

ReadConfig == Ready("usb") /\ \E ds \in Descriptors :
    LET r == U!read_configuration_descriptor(ds)
    IN  Ask([op |-> "config", ds |-> ds], [cfg |-> r, driver |-> U!ChooseDriver(r, Cardinality(DOMAIN r.interfaces))])
StartUsb == Ready("usb") /\ \E c \in Controllers, regs \in Protocols :
    Ask([op |-> "usb", regs |-> regs, params |-> c],
        [usb3 |-> U!ReadCapabilities(regs, 8, [p \in 0..(c.max_ports - 1) |-> FALSE]), start |-> U!StartController(c)])

\* Each of two vectors has a handler of its own.
TakeMemory == Ready("usb") /\ \E map \in MemoryMaps, tss, h1, h2 \in Addresses :
    Ask([op |-> "memory", map |-> map, tss |-> tss, handlers |-> <<h1, h2>>],
        [mem |-> B!memory_init(map, tss, h1), idt |-> B!setup_idt(<<h1, h2>>)])

Done == family \in {"load", "path", "usb"} /\ Forget

StartUp == Load \/ Name \/ Mount \/ OpenPath \/ StatDevice \/ MountVolumes \/ StatEntry \/ BeginBoot \/ FindNext \/ StartDriver \/ ConnectKeyboard \/ Interrupt
           \/ BeginTimer \/ TimerInterrupt \/ ReadConfig \/ StartUsb \/ TakeMemory \/ Done

(***************************************************************************)
(* Properties.                                                             *)
(***************************************************************************)
Segments(file) == {i \in 1..Len(file.headers) : file.headers[i].type \in {"load", "phdr"}}
Pages(h) == {a \in 0..(Top + PageSize) : a \div PageSize \in (h.vaddr \div PageSize)..((h.vaddr + h.memsz - 1) \div PageSize)}
\* Executables the loader supports: their segments are not empty and share no page.
Supported(file) ==
    /\ file.header = "good"
    /\ \A i \in 1..Len(file.headers) :
          LET h == file.headers[i]
          IN  /\ h.type \in {"load", "gnu_stack", "phdr"}
              /\ h.type = "phdr" => h.offset = file.table_at /\ h.flags = {"r"} /\ h.memsz = h.filesz
                                    /\ h.filesz = HeaderSize * Len(file.headers)
              /\ h.type # "gnu_stack" =>
                    /\ h.memsz > 0 /\ h.filesz <= h.memsz /\ h.offset + h.filesz <= Len(file.bytes)
                    /\ Pages(h) \subseteq PageSize..(Top - 1)
                    /\ \A j \in Segments(file) \ {i} : Pages(h) \cap Pages(file.headers[j]) = {}
\* The strings, with the gap the loader leaves between two, fit the pages taken for them.
Fitting(argv) == LET n == Len(argv)
                 IN  n = 0 \/ E!StringAt(0, argv, n) + Len(argv[n]) + 1 <= E!ArgBytes(argv)
StringIn(mem, at) == LET end == CHOOSE e \in at..Top : mem[e] = 0 /\ \A x \in at..(e - 1) : mem[x] # 0
                     IN  [i \in 1..(end - at) |-> mem[at + i - 1]]
Handed(mem, at, argv) ==
    /\ \A i \in 1..Len(argv) : StringIn(mem, mem[at + (i - 1) * PtrSize]) = argv[i]
    /\ mem[at + Len(argv) * PtrSize] = E!NULL

\* elf.c: a supported executable is loaded; in the new space each segment holds its bytes of the
\* file and then zeros, no page serves two purposes, there is a stack, the program finds its
\* arguments and its environment if they fit the pages taken for them, the room for the heap is untouched and only code may be executed.  The list of
\* regions never has two free neighbours, whose merging reads freed memory.
LoadsProgram ==
    call.op = "load" =>
        LET r == answer
            mem == r.s.mem
            stack == r.stack..(r.stack + StackPages * PageSize - 1)
            all == Segments(call.file)
        IN  /\ ~r.s.uaf
            /\ Fitting(call.argv) /\ Fitting(call.envp) =>
                  /\ Supported(call.file) => r.ok
                  /\ r.ok =>
                        /\ \A i \in all :
                              LET h == call.file.headers[i]
                              IN  /\ \A k \in 0..(h.memsz - 1) :
                                        mem[h.vaddr + k] = IF k < h.filesz THEN call.file.bytes[h.offset + k + 1] ELSE 0
                                  /\ h.memsz > 0 => Pages(h) \cap stack = {}
                        /\ \A a \in stack : mem[a] # E!Unmapped
                        /\ Handed(mem, r.argv, call.argv) /\ Handed(mem, r.envp, call.envp)
                        /\ r.heap # E!NULL => \A a \in r.heap..(r.heap + RamSize - 1) : mem[a] = E!Unmapped
                        /\ r.s.exec \subseteq UNION {Pages(call.file.headers[i]) : i \in {j \in all : "x" \in call.file.headers[j].flags}}

PlainName(p) == p # << >> /\ \A s \in {P!into_iter(p)[i] : i \in 1..Len(P!into_iter(p))} : s # << >>
\* Ancestors by name, not by character.
Below(path, m) == m = << >> \/ IsPrefix(P!into_iter(m), P!into_iter(path))

\* The node a list of names leads to; a mount hides the directory it is on.
RECURSIVE Through(_, _)
Through(mounts, n) == LET i == P!MountOn(mounts, n) IN IF i = 0 THEN n ELSE Through(mounts, mounts[i].replacement)
RECURSIVE Reach(_, _, _, _)
Reach(tree, mounts, n, names) ==
    IF names = << >> \/ n = NoNode THEN n
    ELSE Reach(tree, mounts, P!directory_lookup(tree, Through(mounts, n), Head(names)), Tail(names))
Names(p) == SelectSeq(P!into_iter(p), LAMBDA s : s # << >>)
LedTo(tree, mounts, cwd, path) ==
    LET from == IF path # << >> /\ path[1] = "/" THEN Root ELSE Reach(tree, mounts, Root, Names(cwd))
    IN  Reach(tree, mounts, from, Names(path))
Reached(tree, mounts, cwd, path) == Through(mounts, LedTo(tree, mounts, cwd, path))

\* The last name is that of a directory something is mounted on: step_path2 stops at the directory
\* and does not cross.
EndsAtMount(tree, mounts, cwd, path) ==
    Names(path) # << >> /\ P!MountOn(mounts, LedTo(tree, mounts, cwd, path)) # 0

\* A mount just below the root counts as deep as the root and loses to it when that is added later.
LosesToRoot(mounts) == \E i, j \in 1..Len(mounts) : i < j /\ mounts[j].at = << >> /\ Len(Names(mounts[i].at)) = 1

\* Somewhere on the way there are more ".." than directories to leave.
Climbs(cwd, names) ==
    \E k \in 1..Len(names) :
        LET up == Cardinality({i \in 1..k : names[i] = P!DotDot})
            down == Cardinality({i \in 1..k : names[i] \notin {P!Dot, P!DotDot}})
        IN  up > Len(cwd) + down

\* A volume whose places can be counted in 16 bits, and whose table has entries only for clusters
\* that are there.
Formatted(h) == LET data == h.reserved + h.fats * h.per_fat + (h.root_entries * DirentSize + h.bytes - 1) \div h.bytes
                    entries == (h.per_fat * h.bytes) \div 2
                IN  /\ h.fats >= 1 /\ data < WordRange /\ entries < WordRange
                    /\ data + (entries - 2) * h.per_cluster <= h.sectors
\* No byte of a volume serves two purposes, and all are on it.
VolumeLaidOut(vol, h) ==
    LET clusters == 2..(F!num_clusters(vol) - 1)
        roots == 0..(h.root_entries - 1)
        places == {F!fat_entry(vol, c) : c \in clusters} \cup {F!root_entry(vol, i) : i \in roots}
                  \cup {F!src_addr(vol, c) : c \in clusters}
        used == UNION places
    IN  /\ \A s \in places : s \subseteq (h.reserved * h.bytes)..(h.sectors * h.bytes - 1)
        /\ Cardinality(used) = 2 * Cardinality(clusters) + DirentSize * Cardinality({i \in roots : F!root_entry(vol, i) # {}})
                               + h.bytes * h.per_cluster * Cardinality(clusters)
Padded(filename) == \A s \in {SubSeq(filename, 1, NameChars), SubSeq(filename, NameChars + 1, Len(filename))} :
                       \A i \in 2..Len(s) : s[i - 1] = F!Blank => s[i] = F!Blank

\* path.rs, mounting.rs, fs.c: an accepted path is free of empty and dotted segments, naming in
\* two steps is naming in one, and a relative path is refused exactly if it leaves the root; the
\* mount found is the deepest that the path is below, unless it loses to the root; a walk ends at
\* the node the names lead to, whatever is mounted on the way, unless the last name is that of a
\* directory with a mount, and what open creates is what the same path then leads to; a
\* name in /dev, found by listing one entry at a time, stands for its own partition; a mounted
\* volume's tables, root directory and clusters share no byte, and short names stay apart.
PathsResolve ==
    /\ call.op = "name" =>
          /\ (answer.one.err = "" /\ answer.one.data # << >>) =>
                 \A i \in 1..Len(P!into_iter(answer.one.data)) : P!into_iter(answer.one.data)[i] \notin {<< >>, P!Dot, P!DotDot}
          /\ (PlainName(call.p) /\ PlainName(call.q) /\ answer.one.err = "" /\ answer.one.data # << >>) =>
                 answer.both = answer.two
          /\ (PlainName(call.p) /\ PlainName(call.q)) =>
                 (answer.both.err = "") = ~Climbs(P!into_iter(call.cwd), P!into_iter(call.p) \o P!into_iter(call.q))
    /\ call.op = "mount" =>
          LET over == {i \in 1..Len(call.mounts) : Below(call.path, call.mounts[i].at)}
              depth(i) == Len(Names(call.mounts[i].at))
              like == {i \in 1..Len(call.mounts) : IsPrefix(call.mounts[i].at, call.path)}
          IN  (like = over /\ ~LosesToRoot(call.mounts)) =>
                  IF over = {} THEN answer.i = 0
                  ELSE answer.i \in over /\ \A j \in over : depth(j) <= depth(answer.i)
    /\ call.op = "open" =>
          LET n == Reached(answer.first.tree, call.mounts.mounts, call.cwd, call.path)
              short == EndsAtMount(answer.first.tree, call.mounts.mounts, call.cwd, call.path)
          IN  /\ Len(call.mounts.mounts) <= MaxMounts => ~call.mounts.overran
              /\ (~answer.first.halted /\ ~short /\ PlainName(Tail(call.cwd) \o <<"x">>) /\ \A i \in 1..(Len(call.path) - 1) : ~(call.path[i] = "/" /\ call.path[i + 1] = "/")) =>
                    /\ answer.first.node = n
                    /\ P!S_ISDIR(Tree[n]) = ("O_DIRECTORY" \in call.flags)
                    /\ answer.again.halted \/ answer.again.node = n
    /\ call.op = "volume" =>
          /\ \A k \in 1..2 : answer[k].id # 0 /\ Formatted(call.headers[k]) =>
                 VolumeLaidOut(answer[k].volumes[answer[k].id], call.headers[k])
          /\ (\A k \in 1..2 : answer[k].id # 0 /\ Formatted(call.headers[k])) => answer[1].id # answer[2].id
    /\ call.op = "entry" =>
          /\ \A k \in 1..2 : answer[k].made = call.entries[k].mode
          /\ (\A k \in 1..2 : Padded(call.entries[k].filename)) =>
                 (answer[1].name = answer[2].name) = (call.entries[1].filename = call.entries[2].filename)
    /\ call.op = "stat" =>
          LET there(d, p) == d < Len(call.devices) /\ p < Len(call.devices[d + 1])
              slots == Cardinality(UNION {{<<d, p>> : p \in 1..Len(call.devices[d])} : d \in 1..Len(call.devices)})
          IN  /\ IF there(call.name[1], call.name[2])
                 THEN answer.stat.st_size = call.devices[call.name[1] + 1][call.name[2] + 1].byte_length
                 ELSE answer.stat.st_mode = F!Halt
              /\ Len(answer.list) = (IF slots <= call.index THEN 0
                                     ELSE IF slots - call.index < call.count THEN slots - call.index ELSE call.count)
              /\ \A i, j \in 1..Len(answer.list) : answer.list[i].d_ino = answer.list[j].d_ino => i = j

\* The base and size of each register slot of a device.
SlotBars(bars) == FlattenSeq([i \in 1..Len(bars) |-> IF bars[i].kind = "mem64" THEN <<bars[i], bars[i]>> ELSE <<bars[i]>>])
DeviceNamed(machine, id) == machine[CHOOSE i \in 1..Len(machine) : machine[i].id = id]

\* Machines the kernel can start on: memory BARs are of one or two words and begin at a page, one controller, with messages for
\* its interrupts, and vectors enough.
Serviceable(machine) ==
    LET seen == {i \in 1..Len(machine) : machine[i].present /\ machine[i].header_type = 0}
    IN  /\ \A i \in seen : /\ ~machine[i].enabled
                           /\ \A k \in 1..Len(machine[i].bars) :
                                 /\ machine[i].bars[k].kind \notin {"below1M", "reserved"}
                                 /\ machine[i].bars[k].kind \in {"mem32", "mem64"} => machine[i].bars[k].base % PageBytes = 0
                           /\ machine[i].class = "xhci" => machine[i].caps # << >>
        /\ Cardinality({i \in seen : machine[i].class = "xhci"}) <= 1
        /\ Cardinality({i \in seen : machine[i].listed}) <= LastVector - FirstVector

\* A driver's access to a register of its device reaches that device at that register; no two
\* devices share a vector, and a device sends the one it was given and nothing else.
DevicesReached ==
    LET found == call.pci.found
    IN  /\ \A i \in 1..Len(found) :
              LET slots == SlotBars(DeviceNamed(call.machine, found[i].id).bars)
              IN  \A k \in {x \in 1..Len(slots) : slots[x].kind # "none"} :
                     \A o \in {x \in 0..(slots[k].size - 1) : x % 4 = 0} :
                        D!read_bar_32(call.pci, found[i].bars[k], o)
                            = [space |-> IF slots[k].kind = "io" THEN "io" ELSE "mem", at |-> slots[k].base + o]
        /\ \A i, j \in 1..Len(found) : i # j /\ found[i].vector # 0 => found[i].vector # found[j].vector
        /\ \A i \in 1..Len(found) : \A k \in 1..Len(found[i].table) :
              found[i].table[k].masked \/ found[i].table[k].vector = found[i].vector

\* Has the device a driver that is done with setting up its handler?
Served(id) ==
    LET last == call.pci.found[Len(call.pci.found)].id
    IN  DeviceNamed(call.machine, id).class = "xhci" /\ (id = last => call.pci.step = "search")
\* An interrupt reaches the driver of the device it is from and no other; if there is none, or
\* none yet, the kernel halts.
InterruptsReach ==
    answer[2] = CASE answer[1] = "keyboard" -> "handle_incoming_byte"
                  [] answer[1] # "keyboard" /\ Served(answer[1]) -> "handle_incoming_event"
                  [] OTHER -> "halted"
Unserved == answer # << >> /\ answer[2] = "halted"

RootWellformed(f) == f.root_signature = (IF f.revision = 2 THEN "XSDT" ELSE "RSDT")
Wellformed(t) == /\ t.sum % ByteRange = 0
                 /\ t.signature = "APIC" => Cardinality(t.ioapics) <= 1 /\ t.bytes[2] # 0
                 /\ t.signature = "FACP" => t.timer_length = 4
TablesRead ==
    LET tables == call.firmware.tables
    IN  \A i \in 1..Len(tables) :
           /\ tables[i].signature = "APIC" /\ tables[i].ioapics # {} => tables[i].ioapics = {call.acpi.ioapic.at}
           /\ tables[i].signature = "FACP" => call.acpi.port = tables[i].timer_port

\* The endpoints of an interface are those that follow its last descriptor.
EndpointsRead ==
    LET begins == {i \in 1..Len(call.ds) : call.ds[i].type = "interface"}
        last(n) == CHOOSE i \in begins : call.ds[i].num = n /\ \A j \in begins : call.ds[j].num = n => j <= i
        own(n) == SelectSeq([i \in 1..Len(call.ds) |->
                                IF i > last(n) /\ ~\E j \in begins : last(n) < j /\ j <= i THEN call.ds[i] ELSE call.ds[last(n)]],
                            LAMBDA d : d.type = "endpoint")
    IN  \A n \in DOMAIN answer.cfg.interfaces :
           answer.cfg.interfaces[n].endpoints = [k \in 1..Len(own(n)) |-> own(n)[k].endpoint]

\* With some large usable region, the kernel takes one, and its heap and its device memory lie apart
\* from it; a gate leads to its handler in the kernel's code segment, and the selectors of
\* lowlevel.asm name segments of the right kind and privilege.
SegmentsServe ==
    LET gdt == answer.mem.gdt
    IN  /\ \A vec \in 1..2 : /\ B!GateTarget(answer.idt[vec]) = call.handlers[vec]
                            /\ answer.idt[vec].selector = B!KERN_CS
        /\ ~answer.mem.halted =>
              /\ B!TssBase(gdt.tss_descriptor) = call.tss
              /\ \A s \in {B!KERN_CS, B!KERN_SS, B!USER_CS, B!USER_SS} :
                    /\ B!SegmentOf(gdt, s).present /\ B!SegmentOf(gdt, s).DPL = s % 4
                    /\ B!SegmentOf(gdt, s).code = (s \in {B!KERN_CS, B!USER_CS})
              /\ (\E i \in 1..Len(call.map) : B!Suits(call.map[i])) =>
                    /\ B!Suits(answer.mem.region)
                    /\ answer.mem.region.length <= BigAmountOfRam =>
                          answer.mem.region.base + HhdmOffset + answer.mem.region.length <= answer.mem.kheap_start

=============================================================================
