------------------------------- MODULE Storage ------------------------------
(***************************************************************************)
(* The storage stack: devfs over a USB disk behind the xHCI controller, or  *)
(* over a virtio disk.  The kernel starts its drivers, then serves file    *)
(* operations one at a time (a system call is never preempted); interrupts, *)
(* controller and devices run in between.                                  *)
(***************************************************************************)
EXTENDS UsbStorage, Virtio, FsDev

CONSTANTS Offsets, Lengths,     \* what callers ask for
          MaxOps                \* bound on the file operations
(* An offset is an off_t, a partition's place a dword and a length that of  *)
(* a buffer: their sum, a 64-bit word, does not wrap.                      *)
ASSUME CallAssumption ==
    /\ Offsets \subseteq Nat /\ Lengths \subseteq Nat /\ MaxOps \in Nat
    /\ \A o \in Offsets, n \in Lengths : o + DwordSpan + n <= WordSpan
VARIABLES backend,              \* which disk this machine has
          ops,                  \* file operations begun
          before                \* the medium when the operation in progress began

vars == <<xhciVars, usbVars, virtioVars, fsVars, blk, disk, faults, backend, ops, before>>

(* Every byte is told apart from every other. *)
FirstDisk == [l \in 0 .. LastLba |-> [i \in 1 .. SectorSize |-> SectorSize * l + i]]

Init ==
    /\ backend \in {"usb", "virtio"}
    /\ initialise_xhci
    /\ UsbInit /\ initialise_queue /\ FsDevInit
    /\ blk = NoCall /\ faults = 0 /\ halted = FALSE /\ ops = 0
    /\ disk = FirstDisk
    /\ before = disk

UsbRest == UNCHANGED <<virtioVars, fsVars, backend, ops, before>>
XhciRest == UNCHANGED <<usbVars, blk, disk, faults>>

(* The kernel's own steps. *)
UsbKernel ==
    /\ backend = "usb"
    /\ UsbRest
    /\ \/ /\ XhciRest
          /\ fs.st = "idle"
          /\ set_up_port
       \/ /\ XhciRest
          /\ \/ send_command_ring_trb \/ send_control_transfer \/ Complete \/ arm_keyboard
       \/ read_capacity \/ send_bbb \/ block_call \/ BulkDone

VirtioKernel ==
    /\ backend = "virtio"
    /\ UNCHANGED <<busVars, drvVars, usbVars, fsVars, backend, ops, before>>
    /\ virtio_block_call \/ virtio_poll

(* A driver that is done registers its disk. *)
Register ==
    /\ UNCHANGED <<busVars, slots, req, cur, port, reports, stale, usbVars, virtioVars,
                   backend, ops, before>>
    /\ \/ /\ backend = "virtio" \/ (todo # <<>> /\ Head(todo) = "register")
          /\ fs_dev_add_block_device
          /\ UNCHANGED todo
       \/ /\ device_added
          /\ todo' = IF backend = "virtio" THEN todo ELSE Tail(todo)

(* A process reads or writes a device file.  Every byte written is new, so *)
(* that none can stand in for another.                                     *)
Started == parts # <<>> /\ todo = <<>> /\ (backend = "usb" => port + 1 \notin Ports)
Fresh(n) == [i \in 1 .. n |-> 100 * (ops + 1) + i]
Ask ==
    /\ Started /\ ops < MaxOps
    /\ ops' = ops + 1
    /\ before' = disk
    /\ \E op \in {"read", "write"}, p \in 0 .. Len(parts) - 1, o \in Offsets, n \in Lengths :
         blockdev_file(op, p, o, n, IF op = "write" THEN Fresh(n) ELSE <<>>)
    /\ UNCHANGED <<busVars, drvVars, usbVars, virtioVars, backend>>

FsKernel ==
    /\ FsDevStep
    /\ before' = IF fs'.st = "idle" THEN FirstDisk ELSE before
    /\ UNCHANGED <<busVars, drvVars, usbVars, virtioVars, backend, ops>>

Kernel == UsbKernel \/ VirtioKernel \/ Register \/ FsKernel
Interrupt == handle_incoming_event /\ XhciRest /\ UsbRest
Controller ==
    /\ UsbRest
    /\ \/ XhciController /\ XhciRest
       \/ \E s \in Slots, e \in {InIndex, OutIndex} : CtlBulk(s, e)
VirtioDevice ==
    /\ backend = "virtio"
    /\ VirtioFetch \/ VirtioServe \/ VirtioUsed
    /\ UNCHANGED <<busVars, drvVars, usbVars, fsVars, backend, ops, before>>

(* What goes on without a caller asking for more. *)
System == Kernel \/ Interrupt \/ Controller \/ VirtioDevice
Next == System \/ Ask

(* The processor and the devices do not stop while one of them can go on. *)
Spec == Init /\ [][Next]_vars /\ WF_vars(System)

-----------------------------------------------------------------------------
(* Properties.                                                             *)

(* The interrupt handler writes a completion only into a frame that still  *)
(* waits for it (fetch_and_copy writes through a pointer into the          *)
(* requester's stack).                                                     *)
NoStaleCompletion == ~stale

(* The drivers' assertions hold: the kernel stops only when the medium     *)
(* refused a command or the request's last byte, in the code's wrapping    *)
(* arithmetic, is not on the medium.                                       *)
HaltsOnlyForCause == halted => faults > 0 \/ fs.last > LastLba

(* Between file operations a valid cached sector is the sector on the      *)
(* medium, although it is marked valid before it is read and is shared by  *)
(* all partitions.                                                         *)
CacheCoherent == cache.valid /\ fs.st \in {"idle", "loop"} => cache.data = disk[cache.sector]

(* A device file is an array of bytes: the detailed stack implements the   *)
(* abstract store.  A write counts when its call returns.                  *)
Bytes(d) == [i \in 0 .. SectorSize * (LastLba + 1) - 1 |-> d[i \div SectorSize][(i % SectorSize) + 1]]
Busy == fs.ask # NoAsk
Image == IF Busy THEN Bytes(before) ELSE Bytes(disk)
Answer == IF Busy THEN <<>> ELSE fs.out
Store == INSTANCE ByteStore WITH
    Size <- SectorSize * (LastLba + 1),
    Contents <- {Bytes(FirstDisk)},
    Requests <- [op : {"read", "write"}, off : Nat, num : Nat, buf : Seq(Nat)],
    image <- Image, request <- fs.ask, answer <- Answer
ImplementsByteStore == Store!Spec

(* Start-up is got through and every file operation returns, again and     *)
(* again, unless the kernel stops for a cause: no completion is lost, no   *)
(* ring or event is left unserved.                                         *)
Settles == []<>((Started /\ ~Busy) \/ halted)

-----------------------------------------------------------------------------
(* The instance that is model-checked: a disk on the first port and a      *)
(* keyboard on the second, and overlapping partitions.                     *)
MCPlugged == [p \in Ports |-> <<"disk", "keyboard">>[p + 1]]
MCByte == 0 .. 100 * (MaxOps + 1)
MCTable == <<[start |-> 1, count |-> 2], [start |-> 0, count |-> 0], [start |-> 2, count |-> 1]>>
=============================================================================
