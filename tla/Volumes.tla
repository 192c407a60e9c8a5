------------------------------ MODULE Volumes -------------------------------
(***************************************************************************)
(* What lies on block devices before a file system is in use: the directory*)
(* /dev (fs_dev.c) and the mounting of a FAT16 volume (fs_fat.c).          *)
(***************************************************************************)
EXTENDS Naturals, Sequences, SequencesExt

(***************************************************************************)
(* /dev over the table of block devices, each a sequence of partitions with*)
(* the whole disk first.  A name is the letter of the device and the digit *)
(* of the partition; an inode holds both.                                  *)
(***************************************************************************)
CONSTANT InodeShift  \* 2^16, the place of the device in an inode

Halt == "halt"

\* Every partition of every device in the order of the two loops.
Slots(devices) == FlattenSeq([d \in 1..Len(devices) |-> [p \in 1..Len(devices[d]) |-> <<d - 1, p - 1>>]])
Listed(slot) == [d_name |-> <<slot[1], slot[2]>>, d_ino |-> slot[1] * InodeShift + slot[2]]

\* index entries are skipped, and at most count written.
devroot_read_dirents(devices, index, count) ==
    LET rest == SubSeq(Slots(devices), index + 1, Len(Slots(devices)))
    IN  [i \in 1..(IF Len(rest) < count THEN Len(rest) ELSE count) |-> Listed(rest[i])]

get_block_device(devices, ino) ==
    LET d == (ino \div InodeShift) % InodeShift
        p == ino % InodeShift
    IN  IF d >= Len(devices) \/ p >= Len(devices[d + 1]) THEN Halt ELSE devices[d + 1][p + 1]

blockdev_stat(devices, ino) ==
    LET part == get_block_device(devices, ino)
    IN  [st_ino |-> ino, st_mode |-> "S_IFBLK", st_size |-> part.byte_length]

\* One entry is asked for at a time until the name is met or none is left.
RECURSIVE directory_lookup(_, _, _)
directory_lookup(devices, name, index) ==
    LET found == devroot_read_dirents(devices, index, 1)
    IN  IF found = << >> THEN << >>
        ELSE IF found[1].d_name = name THEN found ELSE directory_lookup(devices, name, index + 1)

syscall_stat(devices, name) ==
    LET found == directory_lookup(devices, name, 0)
    IN  IF found = << >> THEN [st_mode |-> Halt] ELSE blockdev_stat(devices, found[1].d_ino)

(***************************************************************************)
(* Which boot sectors are accepted, where the file allocation tables, the  *)
(* root directory and the clusters then are on the block device, and what an*)
(* entry says of its file.                                                 *)
(***************************************************************************)
CONSTANTS WordRange,   \* 2^16
          DirentSize,  \* sizeof(struct Fat16DirectoryEntry)
          MaxVolumes,  \* MAX_FAT_MOUNTS
          NameChars    \* of the 8 and 3 characters of a short name, the 8

Unused == [fats |-> 0]

mount_ok(hdr) == /\ hdr.reserved >= 1 /\ hdr.root_entries >= 1
                 /\ hdr.sectors # 0 \/ hdr.large_sectors # 0
                 /\ hdr.per_fat >= 1 /\ hdr.signed

\* A volume without tables is accepted, and leaves its slot looking free.
mount_fat16(volumes, hdr) ==
    LET free == {i \in 1..MaxVolumes : volumes[i].fats = 0 /\ \A j \in 1..(i - 1) : volumes[j].fats # 0}
        vol == [start |-> hdr.reserved, fats |-> hdr.fats, per_fat |-> hdr.per_fat, bytes |-> hdr.bytes,
                per_cluster |-> hdr.per_cluster,
                root_sectors |-> (hdr.root_entries * DirentSize + hdr.bytes - 1) \div hdr.bytes]
    IN  IF ~mount_ok(hdr) \/ free = {} THEN [id |-> 0, volumes |-> volumes]
        ELSE LET i == CHOOSE i \in free : TRUE IN [id |-> i, volumes |-> [volumes EXCEPT ![i] = vol]]

\* Bytes of the device: an entry of the first table, of the root directory, and of a cluster.
fat_entry(vol, cluster) == LET at == vol.start * vol.bytes + 2 * cluster IN at..(at + 1)
root_dir_start_byte(vol) == (vol.start + vol.per_fat * vol.fats) * vol.bytes
root_entry(vol, i) == LET at == root_dir_start_byte(vol) + i * DirentSize
                      IN  IF (i + 1) * DirentSize >= vol.root_sectors * vol.bytes THEN {} ELSE at..(at + DirentSize - 1)
calculate_data_section_start(vol) == ((vol.start + vol.fats * vol.per_fat + vol.root_sectors) % WordRange) * vol.bytes
src_addr(vol, cluster) == LET size == vol.bytes * vol.per_cluster
                              at == calculate_data_section_start(vol) + size * (cluster - 2)
                          IN  at..(at + size - 1)
num_clusters(vol) == ((vol.per_fat * vol.bytes) \div 2) % WordRange

\* The modes of an entry, and its short name in small letters, with a dot if it has a type.
read_fat_mode(attributes) ==
    IF attributes \cap {"RO", "HIDDEN", "SYSTEM", "VOLUMEID"} # {} THEN Halt
    ELSE IF "DIRECTORY" \in attributes THEN "S_IFDIR" ELSE "S_IFREG"
create_fat_mode(mode) == IF mode = "S_IFDIR" THEN {"DIRECTORY"} ELSE {}

Blank == " "
UpToBlank(s) == LET i == SelectInSeq(s, LAMBDA c : c = Blank) IN IF i = 0 THEN s ELSE SubSeq(s, 1, i - 1)
tolower(c) == IF c = "A" THEN "a" ELSE IF c = "B" THEN "b" ELSE c
short_name(filename) ==
    LET name == SubSeq(filename, 1, NameChars)
        type == SubSeq(filename, NameChars + 1, Len(filename))
        lower(s) == [i \in 1..Len(s) |-> tolower(s[i])]
    IN  lower(UpToBlank(name)) \o (IF type[1] = Blank THEN << >> ELSE <<".">>) \o lower(UpToBlank(type))

stat_file(vol, is_root, entry) ==
    IF is_root THEN [st_mode |-> "S_IFDIR", st_size |-> vol.root_sectors * vol.bytes]
    ELSE [st_mode |-> read_fat_mode(entry.attributes), st_size |-> entry.size]
=============================================================================
