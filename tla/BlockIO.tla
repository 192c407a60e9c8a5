------------------------------ MODULE BlockIO -------------------------------
(***************************************************************************)
(* What devfs and the two block drivers share: the call of a driver's      *)
(* block_read / block_write function (struct BlockDevice of fs_dev.c), the *)
(* medium behind it, and the kernel's halt.  A driver call moves exactly   *)
(* one sector; a sector is a sequence of bytes.                            *)
(***************************************************************************)
EXTENDS Integers, Sequences

CONSTANTS
    SectorSize,     \* BLOCK_DEVICE_READ_SIZE
    LastLba,        \* the last sector of the medium
    Byte,           \* the byte values told apart
    MaxFaults       \* bound on the commands the medium refuses

ASSUME SectorAssumption ==
    /\ SectorSize \in Nat \ {0} /\ LastLba \in Nat /\ MaxFaults \in Nat
    /\ Byte # {}

VARIABLES
    blk,            \* the driver call in progress: st, op, lba, data
    disk,           \* the medium: disk[lba] is a sector
    faults,         \* commands the medium has refused
    halted          \* an assertion failed or HCF was reached

Sector == [1 .. SectorSize -> Byte]
NoCall == [st |-> "idle", op |-> "none", lba |-> 0, data |-> <<>>]
Call(op, lba, data) == blk' = [st |-> "call", op |-> op, lba |-> lba, data |-> data]
Accept == blk' = [blk EXCEPT !.st = "busy"]
Return(data) == blk' = [blk EXCEPT !.st = "done", !.data = data]

(* The medium (external): a sector it does not have is an error, and it may *)
(* fail any command.                                                       *)
Refuses(lba, bad) == bad \/ lba > LastLba
MayFail == IF faults < MaxFaults THEN BOOLEAN ELSE {FALSE}
=============================================================================
