-------------------------------- MODULE Pci ---------------------------------
(***************************************************************************)
(* The PCI functions of pci.c and the interrupt vectors of idt.c.  A       *)
(* device is its configuration space: identity, six base address registers *)
(* (BARs) and a list of capabilities.  Words have WordBits bits.           *)
(***************************************************************************)
EXTENDS Naturals, Integers, Sequences, SequencesExt

CONSTANTS WordBits, PageBytes, IoPorts,  \* the port space of IN and OUT
          FirstVector, LastVector,
          LapicAddress

Word == 2 ^ WordBits
Not(v, n) == n - 1 - v
FlagBits == 16

(***************************************************************************)
(* A BAR decodes addresses of size bytes; external: what the register does.*)
(* Its lowest bits are flags that cannot be written.                       *)
(***************************************************************************)
Flags(b) == CASE b.kind = "io" -> 1
              [] b.kind = "mem64" -> 4 + b.prefetch
              [] b.kind = "mem32" -> b.prefetch
              [] b.kind = "below1M" -> 2
              [] b.kind = "reserved" -> 6
              [] OTHER -> 0

\* The registers of a BAR: its low and, if it has one, high word.
Registers(b) == CASE b.kind = "none" -> <<0>>
                  [] b.kind = "mem64" -> <<(b.base % Word) + Flags(b), b.base \div Word>>
                  [] OTHER -> <<b.base + Flags(b)>>
\* What is read after all ones were written: the bits that are decoded.
Probed(b) == LET mask == Word * Word - b.size
             IN  CASE b.kind = "none" -> <<0>>
                   [] b.kind = "mem64" -> <<(mask % Word) + Flags(b), mask \div Word>>
                   [] OTHER -> <<(mask % Word) + Flags(b)>>

(***************************************************************************)
(* handle_bar.                                                             *)
(***************************************************************************)
SizeOf(v, n) == (Not(v, n) + 1) % n

get_bar_size_32(b) == SizeOf(Probed(b)[1], Word)
get_bar_size_64(b) == SizeOf(Probed(b)[2] * Word + Probed(b)[1], Word * Word)

\* Pages from mmio_start on, one for each page of the range; the address must be aligned.
setup_mmio(pci, address, size) ==
    LET pages == (size + PageBytes - 1) \div PageBytes
        mapped == [i \in 1..pages |-> address + (i - 1) * PageBytes]
    IN  IF address % PageBytes # 0 THEN [pci EXCEPT !.halted = TRUE]
        ELSE [pci EXCEPT !.mmio = @ \o mapped]

BarInfo(pci, size, address, io) ==
    [size |-> size, address |-> address, virtual |-> Len(pci.mmio) * PageBytes, io |-> io]

\* The port mask clears two bits that are part of the address.
Masked(v) == v - (v % FlagBits)
IsIo(low) == low % 2 = 1
\* 0 is an address of one word and 2 of two; the others are refused.
MemoryType(low) == (low \div 2) % 4
AddBar(pci, b) ==
    LET low == Registers(b)[1]
        wide == ~IsIo(low) /\ MemoryType(low) = 2
        address == IF wide THEN Registers(b)[2] * Word + Masked(low) ELSE Masked(low)
        size == IF wide THEN get_bar_size_64(b) ELSE get_bar_size_32(b)
        info == BarInfo(pci, size, address, IsIo(low))
        mapped == IF IsIo(low) THEN pci ELSE setup_mmio(pci, address, size)
    IN  CASE pci.halted -> pci
          [] ~IsIo(low) /\ MemoryType(low) \in {1, 3} -> [pci EXCEPT !.halted = TRUE]
          [] OTHER -> [mapped EXCEPT !.bars = @ \o IF wide THEN <<info, info>> ELSE <<info>>]

handle_bar(pci, bars) == FoldLeft(AddBar, [pci EXCEPT !.bars = << >>], bars)

Refused == [space |-> "halted", at |-> 0]
\* Where an access of a driver to a BAR goes: a port, or the device's memory behind a page.
read_bar_32(pci, info, offset) ==
    CASE offset % 4 # 0 -> Refused
      [] info.io -> IF info.address + offset > IoPorts THEN Refused
                    ELSE [space |-> "io", at |-> info.address + offset]
      [] OTHER -> LET v == info.virtual + offset
                  IN  IF v \div PageBytes >= Len(pci.mmio) THEN Refused
                      ELSE [space |-> "mem", at |-> pci.mmio[1 + (v \div PageBytes)] + (v % PageBytes)]

(***************************************************************************)
(* idt.c: a handler for each vector.                                       *)
(***************************************************************************)
Unused == "unused"
Allocated == "allocated"
setup_idt == [v \in FirstVector..LastVector |-> Unused]

FreeVectors(handlers) == {v \in DOMAIN handlers : handlers[v] = Unused}
allocate_free_idt_entry(pci) ==
    LET free == FreeVectors(pci.handlers)
        v == CHOOSE x \in free : \A y \in free : x <= y
    IN  IF free = {} THEN [pci EXCEPT !.halted = TRUE]
        ELSE [pci EXCEPT !.handlers[v] = Allocated, !.vector = v]

initialise_idt_entry(pci, vector, handler) ==
    IF vector \notin DOMAIN pci.handlers THEN [pci EXCEPT !.halted = TRUE]
    ELSE IF pci.handlers[vector] # Allocated THEN [pci EXCEPT !.halted = TRUE]
    ELSE [pci EXCEPT !.handlers[vector] = handler]

\* unused_general_purpose_slot and allocated_general_purpose_slot halt.
Deliver(pci, vector) == IF pci.handlers[vector] \in {Unused, Allocated} THEN "halted" ELSE pci.handlers[vector]

(***************************************************************************)
(* initialise_pci, for one function of a device.                           *)
(***************************************************************************)
NoVector == 0
\* The walk of the capabilities keeps the last of each kind.
HasCapability(dev, id) == dev.listed /\ \E i \in 1..Len(dev.caps) : dev.caps[i] = id

\* The message the device sends: it is written to the table in a BAR or to the capability; every
\* other entry of an MSI-X table is masked.
Message(pci, dev, entry) == [address |-> LapicAddress, vector |-> pci.vector, masked |-> entry # 1]
EnableMsix(pci, dev) ==
    LET p == allocate_free_idt_entry(pci)
        bar == dev.table_bar
        at(i) == read_bar_32(p, p.bars[bar], dev.table_offset + 16 * (i - 1) + 12)
    IN  CASE dev.enabled \/ p.halted -> [pci EXCEPT !.halted = TRUE]
          [] \E i \in 1..dev.entries : at(i) = Refused -> [pci EXCEPT !.halted = TRUE]
          [] OTHER -> [p EXCEPT !.table = [i \in 1..dev.entries |-> Message(p, dev, i)]]
EnableMsi(pci, dev) ==
    LET p == allocate_free_idt_entry(pci)
    IN  IF dev.enabled \/ p.halted \/ (~dev.wide /\ LapicAddress >= Word) THEN [pci EXCEPT !.halted = TRUE]
        ELSE [p EXCEPT !.table = <<Message(p, dev, 1)>>]

EnableInterrupts(pci, dev) ==
    CASE pci.halted -> pci
      [] HasCapability(dev, "msix") -> EnableMsix(pci, dev)
      [] HasCapability(dev, "msi") -> EnableMsi(pci, dev)
      [] OTHER -> pci

\* Vendor 0xFFFF is no device; other header types are skipped, also of devices with several functions.
Skipped(dev) == ~dev.present \/ dev.header_type # 0

\* From here on the device may send its message; its driver comes after.
VisitFunction(pci, dev) ==
    IF pci.halted \/ Skipped(dev) THEN pci
    ELSE LET fresh == [pci EXCEPT !.vector = NoVector, !.table = << >>]
             p == EnableInterrupts(handle_bar(fresh, dev.bars), dev)
         IN  [p EXCEPT !.found = Append(@, [id |-> dev.id, bars |-> p.bars, vector |-> p.vector, table |-> p.table]),
                       !.step = IF dev.class = "xhci" THEN "handler" ELSE "search"]

\* The driver of an xHCI controller sets its handler before anything else,
SetHandler(pci) == [initialise_idt_entry(pci, pci.vector, "handle_incoming_event") EXCEPT !.step = "controller"]
\* and then the controller the handler works on, of which there can be one.
KeepController(pci) ==
    [pci EXCEPT !.halted = @ \/ pci.controller # NoVector, !.controller = pci.vector, !.step = "search"]

\* The handler called before that reads through a null pointer.
Receive(pci, vector) ==
    IF Deliver(pci, vector) = "handle_incoming_event" /\ pci.controller = NoVector THEN "halted"
    ELSE Deliver(pci, vector)

NoDevices == [halted |-> FALSE, mmio |-> << >>, bars |-> << >>, handlers |-> setup_idt, vector |-> NoVector,
              table |-> << >>, controller |-> NoVector, found |-> << >>, step |-> "search"]
=============================================================================
