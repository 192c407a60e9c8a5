------------------------------ MODULE UsbSetup ------------------------------
(***************************************************************************)
(* What xhci_driver.c reads before it talks to a device: the registers and *)
(* extended capabilities of the controller, which it resets and starts,    *)
(* and the configuration of a device, a list of descriptors one after the  *)
(* other.                                                                  *)
(***************************************************************************)
EXTENDS Naturals, Integers, Sequences, SequencesExt, TLC

CONSTANTS PointersPerPage  \* pointers that fit a page

(***************************************************************************)
(* Extended capabilities: registers maps an offset to the word there, with *)
(* an id, the offset of the next and, of a supported protocol, its major   *)
(* version and ports.  Any offset holds something.                         *)
(***************************************************************************)
NoCapability == [id |-> 0, next |-> 0, major |-> 0, first |-> 1, ports |-> 0, bios |-> FALSE]
WordAt(regs, at) == IF at \in DOMAIN regs THEN regs[at] ELSE NoCapability

\* The firmware gives the controller up when asked to.
TakeOver(c) == IF c.id = 1 THEN [c EXCEPT !.bios = FALSE] ELSE c

PortsOf(c) == (c.first - 1)..(c.first + c.ports - 2)
Classify(usb3, c) == IF c.id # 2 THEN usb3
                     ELSE [p \in DOMAIN usb3 |-> IF p \in PortsOf(c) THEN c.major = 3 ELSE usb3[p]]

\* The next offset is taken as it stands in the word, from the start of the registers.
RECURSIVE ReadCapabilities(_, _, _)
ReadCapabilities(regs, at, usb3) ==
    IF at = 0 THEN usb3
    ELSE LET c == TakeOver(WordAt(regs, at))
         IN  ReadCapabilities(regs, c.next, Classify(usb3, c))

(***************************************************************************)
(* initialise_xhci: pages are handed out in order.                         *)
(***************************************************************************)
Scratchpads(required) ==
    IF required = 0 THEN << >> ELSE [i \in 1..required |-> "scratchpad"]

\* Halted first, then reset, then given its memory, then started with interrupts on.
StartController(params) ==
    IF \/ ~params.wide_addresses \/ params.large_contexts
       \/ params.max_ports >= PointersPerPage \/ params.scratchpads >= PointersPerPage
    THEN [halted |-> TRUE, writes |-> << >>, pages |-> << >>]
    ELSE [halted |-> FALSE,
          writes |-> <<"halt", "reset", "notifications", "ports", "contexts", "commands", "interrupter",
                       "events", "dequeue", "segments", "acknowledge", "run">>,
          pages |-> <<"contexts">> \o (IF params.scratchpads > 0 THEN <<"pointers">> ELSE << >>)
                    \o Scratchpads(params.scratchpads) \o <<"commands", "events", "segments">>]

(***************************************************************************)
(* read_configuration_descriptor: descriptors are records with a length; a *)
(* descriptor is read where the one before it says that it ends.           *)
(***************************************************************************)
Interface(d) == [endpoints |-> << >>, announced |-> d.num_endpoints, class |-> d.class]
MaxEndpoints == 16

NoConfig == [halted |-> FALSE, current |-> -1, interfaces |-> << >>]
AddEndpoint(cfg, d) == [cfg EXCEPT !.interfaces[cfg.current].endpoints = Append(@, d.endpoint)]

ReadDescriptor(cfg, d) ==
    CASE cfg.halted -> cfg
      [] d.type = "interface" ->
           IF d.num_endpoints > MaxEndpoints THEN [cfg EXCEPT !.halted = TRUE]
           ELSE [cfg EXCEPT !.current = d.num, !.interfaces = (d.num :> Interface(d)) @@ @]
      [] cfg.current = -1 -> [cfg EXCEPT !.halted = TRUE]  \* the first is asserted to be an interface
      [] d.type = "endpoint" ->
           IF Len(cfg.interfaces[cfg.current].endpoints) >= cfg.interfaces[cfg.current].announced
           THEN [cfg EXCEPT !.halted = TRUE] ELSE AddEndpoint(cfg, d)
      [] OTHER -> cfg

read_configuration_descriptor(descriptors) == FoldLeft(ReadDescriptor, NoConfig, descriptors)

\* The driver a configuration gets: the first interface that has one.
DriverOf(cfg, i) == IF i \notin DOMAIN cfg.interfaces THEN "none"
                    ELSE CASE cfg.interfaces[i].class = "storage" -> "initialise_msd"
                           [] cfg.interfaces[i].class = "keyboard" -> "initialise_keyboard"
                           [] OTHER -> "none"
ChooseDriver(cfg, num_interfaces) ==
    LET known == {i \in 0..(num_interfaces - 1) : DriverOf(cfg, i) # "none"}
    IN  IF known = {} THEN "none" ELSE DriverOf(cfg, CHOOSE i \in known : \A j \in known : i <= j)
=============================================================================
