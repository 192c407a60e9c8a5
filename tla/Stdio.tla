------------------------------- MODULE Stdio --------------------------------
(***************************************************************************)
(* The streams of the C library (stdio.c) over the system calls of         *)
(* unistd.c.  Nothing is buffered: a stream is a descriptor, every call a  *)
(* system call, fgets one for each byte.  Newline is the byte NL.  Below   *)
(* them, what a descriptor of a file does (pipes_and_files.c): the bytes of*)
(* the vnode and the offset the open file keeps.  Descriptors that were    *)
(* duplicated or inherited share both.                                     *)
(***************************************************************************)
EXTENDS Integers, SequencesExt

CONSTANT DirentBytes  \* sizeof(struct dirent)

SEEK_SET == 0
Halted == -4

Lesser(a, b) == IF a < b THEN a ELSE b
Greater(a, b) == IF a < b THEN b ELSE a

\* Opening for append halts: the offset would have to be the end.
fop_generate_file(data, flags) ==
    [data |-> IF "O_TRUNC" \in flags THEN << >> ELSE data, dir |-> "O_DIRECTORY" \in flags,
     offset |-> IF "O_APPEND" \in flags THEN Halted ELSE 0]

\* What the file system's read_file and write_file do at an offset that is not past the end.  A
\* directory is read in whole entries.
read_file(data, offset, num) == SubSeq(data, offset + 1, Lesser(offset + num, Len(data)))
write_file(data, offset, bytes) ==
    LET end == offset + Len(bytes)
    IN  [i \in 1..Greater(end, Len(data)) |-> IF i \in (offset + 1)..end THEN bytes[i - offset] ELSE data[i]]

file_read(file, num) ==
    LET bytes == read_file(file.data, file.offset, num)
    IN  IF file.dir /\ (file.offset % DirentBytes # 0 \/ num % DirentBytes # 0)
        THEN [bytes |-> << >>, file |-> [file EXCEPT !.offset = Halted]]
        ELSE [bytes |-> bytes, file |-> [file EXCEPT !.offset = @ + Len(bytes)]]

\* Mutant: every write appends.
MutAppends(file, bytes) == [file EXCEPT !.data = @ \o bytes]
\* The offset stays: the next write, or read, is at the same place.
file_write(file, bytes) == [file EXCEPT !.data = write_file(@, file.offset, bytes)]

file_lseek(file, off, whence) == [file EXCEPT !.offset = IF whence = SEEK_SET THEN off ELSE Halted]

(***************************************************************************)
(* stdio.c.                                                                *)
(***************************************************************************)
CONSTANT NL
EOF == -1
Trap == -2   \* division by zero
Abort == -3

Least(S) == CHOOSE x \in S : \A y \in S : x <= y
Left(file) == Len(file.data) - file.offset
ReadFD(file, n) == file_read(file, n)
WriteFD(file, bytes) == file_write(file, bytes)

\* The flags for open; anything but w, a, r, b and + aborts the program.
fopen_flags(mode) ==
    IF \E i \in 1..Len(mode) : mode[i] \notin {"w", "a", "r", "b", "+"} THEN {"abort"}
    ELSE UNION {CASE mode[i] = "w" -> {"O_CREAT", "O_TRUNC"}
                  [] mode[i] = "a" -> {"O_CREAT", "O_APPEND"}
                  [] OTHER -> {} : i \in 1..Len(mode)}

fgetc(file) == LET r == ReadFD(file, 1)
               IN  [ret |-> IF r.bytes = << >> THEN EOF ELSE Head(r.bytes), file |-> r.file]

fread(file, size, nmemb) ==
    LET r == ReadFD(file, size * nmemb)
    IN  [ret |-> IF size = 0 THEN Trap ELSE IF Len(r.bytes) % size # 0 THEN Abort ELSE Len(r.bytes) \div size,
         bytes |-> r.bytes, file |-> r.file]

\* Bytes go to s one by one until a newline, the end of the file or size - 1 of them; curr
\* stays at a newline and goes past any other byte, and the terminator is put at curr[1].
\* s has a byte more than size, to show what is written beyond it.
fgets(file, size, s) ==
    LET most == Least({size - 1, Left(file)})
        lines == {i \in 1..most : file.data[file.offset + i] = NL}
        n == IF lines = {} THEN most ELSE Least(lines)
        curr == IF lines = {} THEN n ELSE n - 1
        filled == [i \in DOMAIN s |-> IF i <= n THEN file.data[file.offset + i] ELSE s[i]]
    IN  IF size = 0 THEN [s |-> [s EXCEPT ![1] = 0], file |-> file]
        ELSE [s |-> [filled EXCEPT ![curr + 2] = 0], file |-> [file EXCEPT !.offset = @ + n]]

\* fwrite hands all bytes to one system call, which writes them all.
fwrite(file, size, nmemb, bytes) ==
    [ret |-> IF size = 0 THEN Trap ELSE nmemb, file |-> WriteFD(file, SubSeq(bytes, 1, size * nmemb))]
fputs(file, str) == LET w == fwrite(file, Len(str), 1, str)
                    IN  [w EXCEPT !.ret = IF @ = 1 THEN 0 ELSE IF @ = Trap THEN Trap ELSE Abort]
fputc(file, c) == [ret |-> c, file |-> WriteFD(file, <<c>>)]

fseek(file, offset, whence) == file_lseek(file, offset, whence)

(***************************************************************************)
(* fcntl.c and dirent.c.                                                   *)
(***************************************************************************)
open(data, flags) == fop_generate_file(data, flags)
opendir(data) == open(data, {"O_DIRECTORY"})
readdir(dirp) == LET r == ReadFD(dirp, DirentBytes)
                 IN  [ret |-> IF Len(r.bytes) # DirentBytes THEN << >> ELSE r.bytes, file |-> r.file]
=============================================================================
