-------------------------------- MODULE FsDev -------------------------------
(***************************************************************************)
(* devfs (fs_dev.c): the table of block devices with their partitions, the *)
(* one-sector cache, and byte-granular reads and writes on top of a        *)
(* driver's sector calls.                                                  *)
(***************************************************************************)
EXTENDS BlockIO

CONSTANTS
    WordSpan,       \* offsets count modulo this (2^64)
    DwordSpan,      \* a partition's place and size are computed modulo this (2^32)
    PartitionTable, \* the entries of the disk's boot sector: start, count in sectors
    BootSignature,  \* whether it carries 0xAA55
    MaxPartitions   \* MAX_PARTITIONS

(* The boot sector has four entries, a device has room for eight and itself. *)
ASSUME DeviceAssumption ==
    /\ WordSpan \in Nat \ {0} /\ DwordSpan \in Nat \ {0}
    /\ PartitionTable \in Seq([start : Nat, count : Nat])
    /\ BootSignature \in BOOLEAN
    /\ MaxPartitions \in Nat /\ Len(PartitionTable) < MaxPartitions

VARIABLES
    parts,          \* the device's partitions, 0 the whole disk; <<>> until added
    cache,          \* struct SectorCache: data, sector, valid
    fs              \* the frame of the file operation in progress
fsVars == <<parts, cache, fs>>

Zeroes == [i \in 1 .. SectorSize |-> 0]
NoAsk == [op |-> "none", off |-> 0, num |-> 0, buf |-> <<>>]
IdleFs == [st |-> "idle", ask |-> NoAsk, sector |-> 0, last |-> 0, inSector |-> 0,
           done |-> 0, out |-> <<>>]

(* The entries up to the first empty one. *)
Entries == IF ~BootSignature THEN <<>>
           ELSE LET n == CHOOSE n \in 0 .. Len(PartitionTable) :
                           /\ \A i \in 1 .. n : PartitionTable[i].count # 0
                           /\ n = Len(PartitionTable) \/ PartitionTable[n + 1].count = 0
                IN SubSeq(PartitionTable, 1, n)

(* fs_dev_add_block_device: the boot sector is read by the driver ... *)
fs_dev_add_block_device ==
    /\ ~halted /\ fs.st = "idle" /\ parts = <<>> /\ blk.st = "idle"
    /\ Call("read", 0, Zeroes)
    /\ fs' = [fs EXCEPT !.st = "table"]
    /\ UNCHANGED <<parts, cache, disk, faults, halted>>
(* ... and the device is entered with partition 0 and those found. *)
device_added ==
    /\ ~halted /\ fs.st = "table" /\ blk.st = "done"
    /\ blk' = NoCall
    /\ parts' = <<[off |-> 0, len |-> 0]>> \o
                [i \in 1 .. Len(Entries) |-> [off |-> (Entries[i].start * SectorSize) % DwordSpan,
                                              len |-> (Entries[i].count * SectorSize) % DwordSpan]]
    /\ halted' = /\ BootSignature
                 /\ \E i \in 1 .. Len(PartitionTable) :
                       i <= Len(Entries) + 1 /\ i >= MaxPartitions
    /\ fs' = IdleFs
    /\ UNCHANGED <<cache, disk, faults>>

(* The sector of the last byte; an empty transfer at 0 wraps. *)
LastSector(off, num) == ((off + num - 1) % WordSpan) \div SectorSize

(* blockdev_read_file and blockdev_write_file, called for partition p. *)
blockdev_file(op, p, offset, num, buf) ==
    /\ ~halted /\ fs.st = "idle" /\ p < Len(parts)
    /\ LET off == offset + parts[p + 1].off IN
       fs' = [st |-> "loop", ask |-> [op |-> op, off |-> off, num |-> num, buf |-> buf],
              sector |-> off \div SectorSize, last |-> LastSector(off, num),
              inSector |-> off % SectorSize, done |-> 0, out |-> <<>>]
    /\ UNCHANGED <<parts, cache, blk, disk, faults, halted>>

(* Bytes of the current sector the transfer covers. *)
Span == LET room == SectorSize - fs.inSector
            left == fs.ask.num - fs.done
        IN IF room < left THEN room ELSE left
(* Mutant: the next sector is entered in the middle. *)
MutAdvance(f) == [f EXCEPT !.st = "loop", !.sector = @ + 1, !.done = @ + Span]
(* On to the start of the next sector. *)
Advance(f) == [f EXCEPT !.st = "loop", !.sector = @ + 1, !.inSector = 0, !.done = @ + Span]

(* Copy what the transfer covers of sector data d to the caller. *)
CopyOut(d) == fs' = [Advance(fs) EXCEPT
                !.out = @ \o SubSeq(d, fs.inSector + 1, fs.inSector + Span)]
CopyIn(d) == [i \in 1 .. SectorSize |->
                IF i - fs.inSector \in 1 .. Span
                THEN fs.ask.buf[fs.done + i - fs.inSector] ELSE d[i]]

InLoop(op) == ~halted /\ fs.st = "loop" /\ fs.ask.op = op /\ fs.sector <= fs.last

(* The read loop: a sector that is not in the cache is entered in it, and   *)
(* then read.                                                              *)
Cached == cache.valid /\ cache.sector = fs.sector
read_cached ==
    /\ InLoop("read") /\ Cached
    /\ CopyOut(cache.data)
    /\ UNCHANGED <<parts, cache, blk, disk, faults, halted>>
read_uncached ==
    /\ InLoop("read") /\ ~Cached
    /\ cache' = [cache EXCEPT !.sector = fs.sector, !.valid = TRUE]
    /\ Call("read", fs.sector, cache.data)
    /\ fs' = [fs EXCEPT !.st = "fill"]
    /\ UNCHANGED <<parts, disk, faults, halted>>
filled ==
    /\ ~halted /\ fs.st = "fill" /\ blk.st = "done"
    /\ cache' = [cache EXCEPT !.data = blk.data]
    /\ CopyOut(blk.data)
    /\ blk' = NoCall
    /\ UNCHANGED <<parts, disk, faults, halted>>

(* The write loop: read the sector, change it, write it back, forget the   *)
(* cached one.                                                             *)
read_before_write ==
    /\ InLoop("write")
    /\ Call("read", fs.sector, Zeroes)
    /\ fs' = [fs EXCEPT !.st = "modify"]
    /\ UNCHANGED <<parts, cache, disk, faults, halted>>
modify ==
    /\ ~halted /\ fs.st = "modify" /\ blk.st = "done"
    /\ Call("write", fs.sector, CopyIn(blk.data))
    /\ fs' = [fs EXCEPT !.st = "put"]
    /\ UNCHANGED <<parts, cache, disk, faults, halted>>
(* Mutant: the cache is left alone. *)
MutForget == cache' = cache
Forget == cache' = [cache EXCEPT !.valid = FALSE]
written ==
    /\ ~halted /\ fs.st = "put" /\ blk.st = "done"
    /\ Forget
    /\ fs' = Advance(fs)
    /\ blk' = NoCall
    /\ UNCHANGED <<parts, disk, faults, halted>>

(* The loop ends and the call returns.  A read's bytes stay in out. *)
file_return ==
    /\ ~halted /\ fs.st = "loop" /\ fs.sector > fs.last
    /\ fs' = [IdleFs EXCEPT !.out = fs.out]
    /\ UNCHANGED <<parts, cache, blk, disk, faults, halted>>

FsDevInit ==
    /\ parts = <<>>
    /\ cache = [data |-> Zeroes, sector |-> 0, valid |-> FALSE]
    /\ fs = IdleFs
FsDevStep == \/ read_cached \/ read_uncached \/ filled
             \/ read_before_write \/ modify \/ written \/ file_return
=============================================================================
