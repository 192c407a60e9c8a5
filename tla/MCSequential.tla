----------------------------- MODULE MCSequential ----------------------------
(***************************************************************************)
(* Library: integers of 3 to 6 bits, a conversion buffer of 12 characters, *)
(* numbers in eighths, strings of up to 3 or 4 characters.  Kernel: twelve *)
(* pages of 8 bytes, paths of up to 5 characters, words of 8 bits, at most *)
(* three devices and five vectors.                                         *)
(***************************************************************************)
EXTENDS CLibrary, Startup

\* The sequential code of library and kernel, one family at a time.
Init == /\ family \in LibraryFamilies \cup StartupFamilies
        /\ call = Idle
        /\ answer = << >>

Next == UseLibrary \/ StartUp

Spec == Init /\ [][Next]_vars

Upto(set, n) == UNION {[1..k -> set] : k \in 0..n}

Directive(flags, width, precision, length, spec) ==
    [flags |-> flags, width |-> "num", num |-> width, precision |-> precision[1], decimals |-> precision[2],
     length |-> length, spec |-> spec, char |-> spec]
MCDirectives ==
    {Directive(f, w, p, l, s) : f \in SUBSET {"0", "-", "+", "#"}, w \in {0, 3, 6},
                                p \in {<<"none", 0>>, <<"num", 0>>, <<"num", 3>>},
                                l \in {"", "hh", "z"}, s \in {"d", "X", "o"}}
    \cup {Directive(f, w, p, "", s) : f \in SUBSET {"0", "-", " ", "#"}, w \in {0, 9},
                                      p \in {<<"none", 0>>, <<"num", 0>>, <<"num", 1>>, <<"num", 3>>},
                                      s \in {"f", "e", "G"}}
MCTextDirectives == {[Directive(f, w, p, "", s) EXCEPT !.width = star] :
                        f \in SUBSET {"-"}, w \in {0, 4}, p \in {<<"none", 0>>, <<"num", 0>>, <<"num", 1>>},
                        s \in {"s", "c"}, star \in {"num", "*"}}
                    \cup {Directive({}, 0, <<"none", 0>>, "", "p")}
MCStrings == {<< >>, <<"a", "b">>}
MCNumbers == {0, 5, 8, -1, -16}
MCFloats == [kind : {"number"}, negative : {FALSE, TRUE}, mag : {0, 1, 4, 12, 20, 76, 79, 796, 799, 7999}]

\* "-", "0", "1", "7", "x" and a space; ".", "e" and digits.
MCNumerals == Upto({45, 48, 49, 55, 120}, 3)
MCDecimals == Upto({45, 46, 49, 48, 101}, 4)
MCBases == {0, 2, 8, 10, 16, 37}

Argument(type, size, align) == [type |-> type, size |-> size, align |-> align]
MCArgLists == Upto({Argument("gen", 1, 1), Argument("gen", 2, 1), Argument("float", 1, 1), Argument("float", 2, 1),
                    Argument("stack", 2, 2), Argument("stack", 3, 1)}, 5)
MCMemory == {<<1, 2, 3, 4>>}
MCWords == Upto({1, 2}, 3) \cup Upto({1, 200}, 2)
\* A table of ASCII and Latin-1 with four exceptions, one of them of neither case.
Rule(type, delta) == [type |-> type, delta |-> delta, base |-> 0, count |-> 4]
MCexceptions == << <<181, Rule(0, 743)>>, <<200, Rule(2, 0)>>, <<223, Rule(1, 7615)>>, <<255, Rule(0, 121)>> >>
MCRuleOf == [c \in 0..255 |-> CASE c \in 65..90 -> Rule(1, 32) [] c \in 97..122 -> Rule(0, -32)
                                [] c \in {181, 200, 223, 255} -> Rule(2, 0) [] OTHER -> Rule(0, 0)]
MCalpha == (65..90) \cup (97..122) \cup (192..255)
MCpunct == (33..47) \cup (58..64) \cup (91..96) \cup (123..126)
MCCharacters == (0..255) \cup {8232, 65533, 200000}
MCTexts == Upto({1, 5}, 4)
MCDelims == <<5>>

\* Bytes that begin and continue sequences of two, three and four, one that overlong sequences
\* begin with, and ASCII; all strings of two characters or fragments of them.
MCFragments == {<<65>>, <<195, 169>>, <<226, 130, 172>>, <<240, 159, 152, 128>>, <<192, 128>>, <<224, 128, 128>>,
                <<128>>, <<255>>, <<226, 130>>, <<0>>}
MCByteStrings == {a \o b : a, b \in MCFragments}

MCChars == {0, 65, 233, 8364, 128512}

MCFiles == {<<1, 10>>, <<10, 1, 2, 10>>, <<1, 2, 10, 10, 2, 10>>}

(***************************************************************************)
(* Executables of up to two segments in a file of nine bytes.              *)
(***************************************************************************)
Header(type, flags, vaddr, offset, filesz, memsz) ==
    [type |-> type, flags |-> flags, vaddr |-> vaddr, offset |-> offset, filesz |-> filesz, memsz |-> memsz]
MCHeaders == {Header("load", f, v, o, fs, ms) : f \in {{"r"}, {"r", "x"}}, v \in {8, 14, 24, 88}, o \in {1},
                                                fs \in {0, 3, 9}, ms \in {0, 3, 9}}
MCOthers == {Header("gnu_stack", {"r"}, 0, 0, 0, 0), Header("interp", {"r"}, 0, 0, 1, 1),
             Header("phdr", {"r"}, 64, 2, 4, 4), Header("phdr", {"r"}, 64, 2, 2, 2),
             Header("load", {"r"}, 24, 10, 1, 2), Header("load", {"r"}, 24, 9, 0, 2)}
MCFile(hs, header) == [header |-> header, table_at |-> 2, headers |-> hs, bytes |-> <<11, 12, 13, 14, 15, 16, 17, 18, 19>>]
MCExecutables ==
    {MCFile(<<h>>, g) : h \in MCHeaders \cup MCOthers, g \in {"good", "bad"}}
    \cup {MCFile(<<g, h>>, "good") : g \in {x \in MCHeaders : x.filesz < 9}, h \in {x \in MCHeaders : x.flags = {"r"}} \cup MCOthers}
\* The last overruns its page.
MCArguments == {<< >>, << <<1, 2>>, <<3>> >>, << <<1>>, << >>, <<2, 3>> >>, << << >>, << >>, << >>, << >> >>}

(***************************************************************************)
(* Paths of the characters "/", "." and two others.                        *)
(***************************************************************************)
MCCwds == {<<"/">>, <<"/", "d">>, <<"/", "d", "/", "e", "/">>, <<"d">>}
MCPathNames == Upto({"/", ".", "d", "e"}, 3) \cup {<<"/", "d", "/", "e", "/">>, <<"d", "/", "e", "d">>}
Entry(name, node) == [name |-> name, node |-> node]
Node(mode, lists, creates, entries) == [mode |-> mode, lists |-> lists, creates |-> creates, entries |-> entries]
\* The root holds d, a directory without functions; two file systems can be mounted.
MCTree == [root |-> Node("S_IFDIR", TRUE, FALSE, <<Entry(<<"d">>, "dev")>>),
           dev |-> Node("S_IFDIR", FALSE, FALSE, << >>),
           devfs |-> Node("S_IFDIR", TRUE, FALSE, <<Entry(<<"e">>, "disk")>>),
           disk |-> Node("S_IFBLK", FALSE, FALSE, << >>),
           fat |-> Node("S_IFDIR", TRUE, TRUE, <<Entry(<<"d">>, "dir"), Entry(<<"e">>, "file")>>),
           dir |-> Node("S_IFDIR", TRUE, TRUE, <<Entry(<<".">>, "dir"), Entry(<<".", ".">>, "fat"), Entry(<<"e">>, "file2")>>),
           file |-> Node("S_IFREG", FALSE, FALSE, << >>),
           file2 |-> Node("S_IFREG", FALSE, FALSE, << >>),
           new |-> Node("S_IFREG", FALSE, FALSE, << >>)]
MountAt(at, replacement) == [at |-> at, replacement |-> replacement]
\* kmain mounts /dev first and the disk on / after it.
MCMountTables == {<< >>, <<MountAt(<<"/", "d">>, "devfs")>>, <<MountAt(<<"/", "d">>, "devfs"), MountAt(<<"/">>, "fat")>>,
                  <<MountAt(<<"/">>, "fat"), MountAt(<<"/", "d">>, "devfs")>>}
MCOpenFlags == {{}, {"O_DIRECTORY"}, {"O_CREAT"}, {"O_CREAT", "O_TRUNC"}, {"O_TRUNC"}, {"O_APPEND"}}

\* Up to two block devices with up to two partitions besides the whole disk.
Partitions(n, first) == <<[byte_length |-> 0]>> \o [p \in 1..n |-> [byte_length |-> first + p]]
MCDeviceTables == {<< >>} \cup {<<Partitions(m, 10)>> : m \in 0..2}
                  \cup {<<Partitions(m, 10), Partitions(n, 20)>> : m, n \in 0..2}

\* Volumes of up to 20 sectors of 8 bytes; names of two characters and types of one.
MCBootSectors == {[reserved |-> r, fats |-> f, per_fat |-> p, root_entries |-> e, bytes |-> 8, per_cluster |-> c,
                   sectors |-> s, large_sectors |-> 0, signed |-> g] :
                     r \in 0..2, f \in 0..2, p \in {0, 1, 2, 4}, e \in {0, 3}, c \in 1..2, s \in {0, 20}, g \in {TRUE}}
                 \cup {[reserved |-> 1, fats |-> 2, per_fat |-> 1, root_entries |-> 3, bytes |-> 8, per_cluster |-> 1,
                        sectors |-> 20, large_sectors |-> 0, signed |-> FALSE]}
MCDirEntries == {[filename |-> <<a, b, t>>, attributes |-> IF m = "S_IFDIR" THEN {"DIRECTORY"} ELSE {"ARCHIVE"}, size |-> 5, mode |-> m] :
                    a \in {"A", "B"}, b, t \in {"A", "B", " "}, m \in {"S_IFDIR", "S_IFREG"}}

(***************************************************************************)
(* Devices with one or two BARs.                                           *)
(***************************************************************************)
Bar(kind, base, size, prefetch) == [kind |-> kind, base |-> base, size |-> size, prefetch |-> prefetch]
MCBars == {Bar("none", 0, 0, 0), Bar("io", 32, 16, 0), Bar("mem32", 64, 64, 0), Bar("mem32", 128, 32, 8),
           Bar("mem64", 512, 64, 8), Bar("mem64", 96, 32, 0), Bar("mem32", 16, 16, 0), Bar("below1M", 64, 64, 0)}
Device(id, class, bars, caps, entries) ==
    [id |-> id, present |-> TRUE, header_type |-> 0, class |-> class, bars |-> bars, listed |-> caps # << >>, caps |-> caps,
     enabled |-> FALSE, wide |-> TRUE, table_bar |-> 1, table_offset |-> 0, entries |-> entries]
MCControllers(id) == {Device(id, "xhci", <<b>>, c, 2) : b \in {Bar("mem64", 512, 64, 8), Bar("mem32", 64, 64, 0)},
                                                        c \in {<< >>, <<"msi">>, <<"pm", "msix", "msi">>}}
MCOthersOn(id) == {Device(id, "other", <<a, b>>, c, 1) : a \in MCBars, b \in MCBars, c \in {<< >>, <<"msi">>}}
                  \cup {[Device(id, "other", << >>, << >>, 0) EXCEPT !.present = FALSE],
                        [Device(id, "other", << >>, <<"msi">>, 0) EXCEPT !.enabled = TRUE],
                        Device(id, "other", <<Bar("reserved", 64, 64, 0)>>, << >>, 0),
                        [Device(id, "bridge", << >>, <<"msi">>, 0) EXCEPT !.header_type = 1]}
MCMachines == {<<a, b>> : a \in MCOthersOn("a"), b \in MCControllers("b")}
              \cup {<<a, b, c>> : a \in MCControllers("a"), b \in {x \in MCOthersOn("b") : x.caps # << >>},
                                  c \in MCControllers("c") \cup {Device("c", "other", << >>, <<"msi">>, 0)}}

(***************************************************************************)
(* Firmware tables, the timer, USB controllers and configurations.         *)
(***************************************************************************)
Table(signature, bytes, ioapics) == [signature |-> signature, sum |-> 0, bytes |-> bytes, ioapics |-> ioapics, entries |-> 3,
                                     timer_length |-> 4, timer_port |-> 0]
Lapic == <<0, 8, 0, 0, 0, 0, 0, 0>>
Ioapic(at) == <<1, 12, 0, 0, at, 0, 0, 0, 0, 0, 0, 0>>
MCMadts == {Table("APIC", Lapic \o Ioapic(7) \o <<2, 4, 0, 0>>, {7}), Table("APIC", Ioapic(6), {6}),
            Table("APIC", Lapic, {}), Table("APIC", Ioapic(6) \o Ioapic(7), {6, 7}), Table("APIC", <<0, 0>>, {}),
            [Table("APIC", Ioapic(6), {6}) EXCEPT !.sum = 3, !.entries = 1]}
MCFacps == {[Table("FACP", << >>, {}) EXCEPT !.timer_port = 5, !.timer_length = l] : l \in {2, 4}}
MCLists == {<<f, m>> : f \in MCFacps, m \in MCMadts} \cup {<<m, Table("HPET", << >>, {}), f>> : f \in MCFacps, m \in MCMadts}
MCFirmware == {[signature |-> "RSD PTR ", sum |-> 0, revision |-> r, long_sum |-> 0, root_sum |-> 0,
                root_signature |-> g, tables |-> l] : r \in {0, 2}, g \in {"XSDT", "RSDT"}, l \in MCLists}
MCTimerPorts == {0, 5}

MCControllerParams == [wide_addresses : {TRUE, FALSE}, large_contexts : {FALSE}, max_ports : {4}, scratchpads : {0, 2, 9}]
Capability(id, next, major, first, ports) ==
    [id |-> id, next |-> next, major |-> major, first |-> first, ports |-> ports, bios |-> FALSE]
MCProtocols == {[a \in {8, 12} |-> IF a = 8 THEN c ELSE d] : c \in {Capability(i, n, m, f, 2) : i \in 1..2, n \in {0, 12}, m \in 2..3, f \in {1, 3}},
                                                           d \in {Capability(2, 0, 3, 1, 2), Capability(5, 0, 0, 1, 0)}}
MCDescriptor == {[type |-> "interface", num |-> n, num_endpoints |-> e, class |-> c, endpoint |-> 0] : n \in 0..1, e \in {1, 2, 17}, c \in {"storage", "keyboard"}}
                \cup {[type |-> "endpoint", num |-> 0, num_endpoints |-> 0, class |-> "", endpoint |-> e] : e \in 1..2}
                \cup {[type |-> "hid", num |-> 0, num_endpoints |-> 0, class |-> "", endpoint |-> 0]}
MCDescriptors == Upto(MCDescriptor, 3) \cup {<<i>> \o ds : i \in {d \in MCDescriptor : d.type = "interface" /\ d.num_endpoints = 2},
                                                           ds \in Upto({d \in MCDescriptor : d.type # "interface" \/ d.num_endpoints = 1}, 3)}

\* Regions of memory and addresses, all of whose bytes differ.
MCMemoryMaps == UNION {[1..n -> [base : {0, 8}, length : {1, 4}, usable : BOOLEAN]] : n \in 0..2}
MCAddresses == {[i \in 1..8 |-> i], [i \in 1..8 |-> 9 - i]}
=============================================================================
