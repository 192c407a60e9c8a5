----------------------------- MODULE BootTables -----------------------------
(***************************************************************************)
(* Tables the kernel reads and builds when it starts.  It reads those of   *)
(* the firmware, for the I/O APIC and the timer (apic.c): bytes are        *)
(* numbers below ByteRange, a table is a signature and the bytes after its *)
(* header, whose sum with the header's is in sum.  It takes its memory     *)
(* from the boot loader's map (memory_init, memory.c) and builds its       *)
(* segments, task state and gates (setup_idt, idt.c): an address that is   *)
(* split over the fields of a descriptor is the sequence of its 8 bytes,   *)
(* the least significant first; a place in memory is a number of units.    *)
(***************************************************************************)
EXTENDS Naturals, Integers, Sequences, SequencesExt, TLC

CONSTANTS ByteRange, IoapicLength,     \* of an I/O APIC's record: 12
          TimerRange, CounterRange,    \* of the timer (2^24) and of unsigned int
          Calibration,                 \* the interrupt at which the timer is first read: 100
          LargeLength,                 \* 1000000000
          BigAmountOfRam,              \* BIG_AMOUNT_OF_RAM
          KernelText,                  \* 0xffffffff80000000
          HhdmOffset

NoPort == 0
NoIoapic == [at |-> 0, max |-> 0, redirect |-> << >>]
Start == [halted |-> FALSE, endless |-> FALSE, port |-> NoPort, ioapic |-> NoIoapic]

matches_checksum(sum) == sum % ByteRange = 0

detect_pm_timer(acpi, table) ==
    IF table.timer_length # 4 THEN [acpi EXCEPT !.halted = TRUE] ELSE [acpi EXCEPT !.port = table.timer_port]

\* There is room for one. Its last redirection entry is in bits 16 and up of the version.
setup_ioapic(acpi, at, entries) ==
    IF acpi.ioapic # NoIoapic THEN [acpi EXCEPT !.halted = TRUE]
    ELSE [acpi EXCEPT !.ioapic = [at |-> at, max |-> entries - 1, redirect |-> [i \in 0..(entries - 1) |-> 0]]]

IrqFits(ioapic, irq) == irq < ioapic.max
map_ioapic_interrupt(acpi, irq, vector) ==
    IF ~IrqFits(acpi.ioapic, irq) THEN [acpi EXCEPT !.halted = TRUE]
    ELSE [acpi EXCEPT !.ioapic.redirect = (irq :> vector) @@ @]

(***************************************************************************)
(* The records of a MADT: a type, a length, and what they hold.            *)
(***************************************************************************)
Ignored == {0, 2, 3, 4, 5, 9}

NextRecord(bytes, i) == i + bytes[i + 1]

AtRecord(acpi, bytes, i, entries) ==
    CASE bytes[i] \in Ignored -> acpi
      [] bytes[i] = 1 -> IF bytes[i + 1] # IoapicLength THEN [acpi EXCEPT !.halted = TRUE]
                         ELSE setup_ioapic(acpi, bytes[i + 4], entries)
      [] OTHER -> [acpi EXCEPT !.halted = TRUE]

\* A record of length 0 is looked at for ever.
RECURSIVE ReadMadt(_, _, _, _)
ReadMadt(acpi, bytes, i, entries) ==
    CASE acpi.halted \/ i > Len(bytes) -> acpi
      [] NextRecord(bytes, i) = i -> LET a == AtRecord(acpi, bytes, i, entries) IN [a EXCEPT !.endless = ~a.halted]
      [] OTHER -> ReadMadt(AtRecord(acpi, bytes, i, entries), bytes, NextRecord(bytes, i), entries)

handle_sdt(acpi, table) ==
    CASE acpi.halted \/ acpi.endless -> acpi
      [] ~matches_checksum(table.sum) -> [acpi EXCEPT !.halted = TRUE]
      [] table.signature = "APIC" -> ReadMadt(acpi, table.bytes, 1, table.entries)
      [] table.signature = "FACP" -> detect_pm_timer(acpi, table)
      [] OTHER -> acpi

\* Revision 2 and only 2 has a second checksum and the table with wide addresses; the fields
\* root_signature, root_sum and tables are those of the table that is looked at.
handle_rsdp(rsdp) ==
    IF \/ rsdp.signature # "RSD PTR " \/ ~matches_checksum(rsdp.sum)
       \/ rsdp.revision = 2 /\ ~matches_checksum(rsdp.long_sum)
       \/ rsdp.root_signature # (IF rsdp.revision = 2 THEN "XSDT" ELSE "RSDT")
       \/ ~matches_checksum(rsdp.root_sum)
    THEN [Start EXCEPT !.halted = TRUE]
    ELSE FoldLeft(handle_sdt, Start, rsdp.tables)

(***************************************************************************)
(* The length of a tick is measured once, between two interrupts.          *)
(***************************************************************************)
\* Without a port it is read through an address nothing ever sets: the null pointer.
TimerReadable(port) == port # NoPort
read_pm_timer(clock) == clock % TimerRange

Untrained == [halted |-> FALSE, interrupts |-> 0, training |-> 0, ticks |-> 0]
Elapsed(now, before) == (now - before) % CounterRange
apic_timer_counter(t, port, clock) ==
    IF t.interrupts \in {Calibration, Calibration + 1} /\ ~TimerReadable(port) THEN [t EXCEPT !.halted = TRUE]
    ELSE [t EXCEPT !.interrupts = @ + 1,
                   !.training = IF t.interrupts = Calibration THEN read_pm_timer(clock) ELSE @,
                   !.ticks = IF t.interrupts = Calibration + 1 THEN Elapsed(read_pm_timer(clock), t.training) ELSE @]
\* In ticks of the timer.
get_uptime_ms(t) == t.interrupts * t.ticks

(***************************************************************************)
(* Descriptors.                                                            *)
(***************************************************************************)
generate_gdt_entry(is_code, privilege_level) ==
    [read_write |-> TRUE, conforming |-> FALSE, code |-> is_code, code_data_segment |-> TRUE,
     DPL |-> privilege_level, present |-> TRUE, long_mode |-> is_code, big |-> ~is_code]

\* (x >> 8*from) & the mask of n bytes.
Field(x, from, n) == SubSeq(x, from + 1, from + n)
TssSize == 104
init_tss_descriptor(tss) ==
    [base_low |-> Field(tss, 0, 2), base_middle |-> Field(tss, 2, 1), base_high |-> Field(tss, 3, 1),
     base_upper |-> Field(tss, 4, 4), limit |-> TssSize - 1, type |-> 9, dpl |-> 0, present |-> TRUE]

\* The table the selectors of lowlevel.asm count in, by 8 bytes.
KERN_CS == 8
KERN_SS == 16
USER_CS == 27
USER_SS == 35
GdtTable(tss) ==
    [segments |-> <<generate_gdt_entry(TRUE, 0), generate_gdt_entry(FALSE, 0),
                    generate_gdt_entry(TRUE, 3), generate_gdt_entry(FALSE, 3)>>,
     tss_descriptor |-> init_tss_descriptor(tss)]
TssEntry(stack_top) == [rsp0 |-> stack_top, iomap_base |-> TssSize]

set_idt_entry(h) == [address_low |-> Field(h, 0, 2), selector |-> KERN_CS, ist |-> 0,
                     address_mid |-> Field(h, 2, 2), address_high |-> Field(h, 4, 4)]
setup_idt(vector_n_handlers) == [vec \in DOMAIN vector_n_handlers |-> set_idt_entry(vector_n_handlers[vec])]

(***************************************************************************)
(* Memory.                                                                 *)
(***************************************************************************)
Suits(entry) == entry.length >= LargeLength /\ entry.usable
\* The loop leaves result at the entry it stopped at: the last one, if none suits.
ChosenEntry(map) == IF \E i \in 1..Len(map) : Suits(map[i])
                    THEN map[CHOOSE i \in 1..Len(map) : Suits(map[i]) /\ \A j \in 1..(i - 1) : ~Suits(map[j])]
                    ELSE map[Len(map)]

memory_init(map, tss, stack_top) ==
    IF map = << >> THEN [halted |-> TRUE]
    ELSE LET region == ChosenEntry(map)
             kheap_start == region.base + HhdmOffset + BigAmountOfRam
             mmio_start == kheap_start + BigAmountOfRam
         IN  IF mmio_start + BigAmountOfRam >= KernelText THEN [halted |-> TRUE]
             ELSE [halted |-> FALSE, region |-> region, kheap_start |-> kheap_start, mmio_start |-> mmio_start,
                   gdt |-> GdtTable(tss), tss |-> TssEntry(stack_top)]

(***************************************************************************)
(* The processor: the address a gate or descriptor holds, and the segment  *)
(* a selector names.                                                       *)
(***************************************************************************)
GateTarget(gate) == gate.address_low \o gate.address_mid \o gate.address_high
TssBase(d) == d.base_low \o d.base_middle \o d.base_high \o d.base_upper
SegmentOf(gdt, selector) == gdt.segments[selector \div 8]
=============================================================================
