-------------------------------- MODULE Fat16 --------------------------------
(***************************************************************************)
(* The FAT16 driver, stuos/src/fs_fat.c, one disk write at a time.  An     *)
(* operation reads the disk, then carries out its writes in the code's     *)
(* order; the power may go between any two of them.  The unit of size is   *)
(* the directory entry (sizeof(struct Fat16DirectoryEntry)); a file's unit *)
(* is a byte.  A byte is represented by the file and the offset it was     *)
(* written for.  A cluster is one sector, so that a write of one cluster   *)
(* either happens or does not.                                             *)
(***************************************************************************)
EXTENDS Integers, Sequences, FiniteSets

CONSTANTS
    NumClusters,   \* entries of the file allocation table
    ClusterSize,   \* units in a cluster
    RootSize,      \* units in the root directory
    Names,         \* names of files and directories
    LfnCount,      \* LfnCount[n]: long-file-name entries that n takes
    Offsets,       \* where files are read and written
    WriteLens,     \* how much is read and written
    TruncLens,     \* what ftruncate is called with
    MaxCuts        \* bound on the power cuts

\* The mark of a chain's last cluster; write_fat accepts numbers below 0xFFF7.
EndOfChain == 65528

ASSUME Fat16Assumption ==
    /\ NumClusters \in 3..(EndOfChain - 1) /\ ClusterSize \in Nat \ {0} /\ RootSize \in Nat \ {0}
    /\ LfnCount \in [Names -> Nat \ {0}]
    /\ Offsets \subseteq Nat /\ WriteLens \subseteq Nat /\ TruncLens \subseteq Nat
    /\ MaxCuts \in Nat

VARIABLES
    fat,           \* the first file allocation table, the only one in use
    root,          \* the units of the root directory
    data,          \* data[c]: the units of cluster c
    todo,          \* the writes the running operation has left
    op,            \* the running operation
    made,          \* history: [dir, at, name] of every finished creation
    torn,          \* history: directories in which a creation was cut short
    written,       \* history: <<inode, offset>> of every byte on the disk
    cuts,          \* power cuts so far
    halted         \* "no", or why the kernel stopped (HCF)

vars == <<fat, root, data, todo, op, made, torn, written, cuts, halted>>

disk == <<fat, root, data>>

Clusters == 2..(NumClusters - 1)

\* is_invalid_cluster_num, is_free_cluster_num and is_end_of_ll_num.
is_invalid_cluster_num(n) == n \notin Clusters

is_free_cluster_num(n) == n < 2

is_end_of_ll_num(n) == n >= EndOfChain

\* make_inode: the first cluster of the directory (0 is the root directory) and
\* the index of the entry in it; the root directory itself is <<1, 0>>.
RootDir == <<1, 0>>

\* What a unit of a directory or a file holds.  Sentinel is an all-zero entry;
\* Junk is what no directory holds, attributes that are never set for instance;
\* Gone is a read that stops the kernel.
Sentinel == [kind |-> "end"]

Junk == [kind |-> "junk"]

Gone == [kind |-> "gone"]

Lfn(name, seq) == [kind |-> "lfn", name |-> name, seq |-> seq]

Entry(kind, cluster, size) == [kind |-> kind, cluster |-> cluster, size |-> size]

Byte(inode, offset) == [kind |-> "byte", of |-> inode, at |-> offset]

\* A freshly formatted volume: no clusters in use, and a data area that was zeroed
\* or that holds whatever was there before.
Init ==
    /\ fat = [c \in Clusters |-> 0]
    /\ root = [i \in 0..(RootSize - 1) |-> Sentinel]
    /\ \E u \in {Sentinel, Junk} : data = [c \in Clusters |-> [k \in 0..(ClusterSize - 1) |-> u]]
    /\ todo = <<>>
    /\ op = {}
    /\ made = {} /\ torn = {} /\ written = {}
    /\ cuts = 0
    /\ halted = "no"

Idle == todo = <<>> /\ halted = "no"

Halt(why) ==
    /\ halted' = why
    /\ todo' = <<>> /\ op' = {}
    /\ UNCHANGED <<disk, made, torn, written, cuts>>

-----------------------------------------------------------------------------
(* Reading *)

\* The n-th cluster of the chain that starts at c; 0 past the end of the chain,
\* where read_fat stops the kernel.
Nth(c, n) ==
    LET follow[k \in 0..n] ==
            IF k = 0 THEN c
            ELSE IF is_invalid_cluster_num(follow[k - 1]) THEN 0 ELSE fat[follow[k - 1]]
    IN  IF is_invalid_cluster_num(follow[n]) THEN 0 ELSE follow[n]

\* read_from_root_dir and read_from_cluster_chain of one unit.
DirUnit(c, i) ==
    IF c = 0 THEN IF i + 1 < RootSize THEN root[i] ELSE Gone
    ELSE IF Nth(c, i \div ClusterSize) = 0 THEN Gone
    ELSE data[Nth(c, i \div ClusterSize)][i % ClusterSize]

\* read_parent_dirent.
read_parent_dirent(inode) == DirUnit(inode[1], inode[2])

\* The first cluster of directory d, 0 for the root directory.
ClusterOf(d) == IF d = RootDir THEN 0 ELSE read_parent_dirent(d).cluster

Positions == 0..(RootSize + ClusterSize * NumClusters)

\* The loop of read_dirents gets past unit i: an entry, or part of a long file name
\* that is all there and is followed by something else.
Passes(c, i) ==
    LET u == DirUnit(c, i) IN
    \/ u.kind \in {"file", "dir"}
    \/ /\ u.kind = "lfn"
       /\ \A k \in 1..(u.seq - 1) : DirUnit(c, i + k).kind = "lfn"
       /\ DirUnit(c, i + u.seq).kind # "lfn"

\* ... and so reaches unit i.
InUse(c, i) == \A j \in 0..(i - 1) : Passes(c, j)

\* The entries it reaches.
Walked(c) == {i \in Positions : DirUnit(c, i).kind \in {"file", "dir"} /\ InUse(c, i)}

\* The all-zero entry it ends at; if there is none it ends by stopping the kernel.
SentinelAt(c) == {i \in Positions : DirUnit(c, i) = Sentinel /\ InUse(c, i)}

\* read_dirents, asked for one entry after another: the positions for which it
\* answers.  It does so only when it has come to the entry after the one asked for,
\* or to the end.
read_dirents(d) ==
    LET c == ClusterOf(d) IN
    {i \in Walked(c) : SentinelAt(c) # {} \/ \E j \in Walked(c) : i < j}

\* The name read_dirents puts together from the entries before position i.
HasName(c, i, name) ==
    \A k \in 1..LfnCount[name] : i >= k /\ DirUnit(c, i - k) = Lfn(name, k)

Inodes(d, kind) ==
    {<<ClusterOf(d), i>> : i \in {j \in read_dirents(d) : DirUnit(ClusterOf(d), j).kind = kind}}

\* Directories are opened at most two levels deep, files in any of them.
Dirs == {RootDir} \cup Inodes(RootDir, "dir")

Files == UNION {Inodes(d, "file") : d \in Dirs}

MutOnlyEndsTaken == {c \in Clusters : fat[c] # EndOfChain}

\* find_free_cluster_number takes the lowest.
FreeClusters == {c \in Clusters : is_free_cluster_num(fat[c])}

FirstFree == CHOOSE c \in FreeClusters : \A d \in FreeClusters : c <= d

\* The clusters that read_from_cluster_chain of n units from offset needs.
ReadsPastEnd(c, offset, n) ==
    n > 0 /\ Nth(c, (offset + n - 1) \div ClusterSize) = 0

TooMany == ClusterSize * NumClusters + 1

\* read_file.  Past the end of the file the unsigned subtraction wraps.
read_file(inode, offset, n) ==
    /\ Idle
    /\ LET e == read_parent_dirent(inode)
           num == IF offset + n <= e.size THEN n
                  ELSE IF offset <= e.size THEN e.size - offset ELSE TooMany
       IN  /\ ReadsPastEnd(e.cluster, offset, num)
           /\ Halt("wild")

-----------------------------------------------------------------------------
(* The writes of an operation *)

MarkTask(c) == [task |-> "mark", cluster |-> c]

RootTask(i, units) == [task |-> "root", at |-> i, units |-> units]

MutSkipsOne(c, index, offset, units) ==
    IF units = <<>> THEN <<>>
    ELSE <<[task |-> IF index > offset \div ClusterSize THEN "write" ELSE "next",
            cluster |-> c, index |-> index, at |-> offset, units |-> units]>>

\* The top of write_to_cluster_chain's loop: leave it when there is nothing left,
\* write in a cluster that is far enough, otherwise just follow the chain.
AtTop(c, index, offset, units) ==
    IF units = <<>> THEN <<>>
    ELSE <<[task |-> IF index >= offset \div ClusterSize THEN "write" ELSE "next",
            cluster |-> c, index |-> index, at |-> offset, units |-> units]>>

ChainTask(c, offset, units) == AtTop(c, 0, offset, units)

\* write_parent_dirent.
DirentTask(inode, e) ==
    IF inode[1] = 0 THEN <<RootTask(inode[2], <<e>>)>> ELSE ChainTask(inode[1], inode[2], <<e>>)

\* An operation that allocates its first cluster, if it needs one.
MarkIf(needed) == IF needed THEN <<MarkTask(FirstFree)>> ELSE <<>>

\* write_file, past the check that the inode is no directory.
write_file(inode, offset, n) ==
    /\ Idle
    /\ LET e == read_parent_dirent(inode)
           needed == is_invalid_cluster_num(e.cluster)
           c == IF needed THEN FirstFree ELSE e.cluster
           size == IF offset + n > e.size THEN offset + n ELSE e.size
       IN  \/ needed /\ FreeClusters = {} /\ Halt("full")
           \/ /\ needed => FreeClusters # {}
              /\ todo' = MarkIf(needed) \o DirentTask(inode, Entry("file", c, size))
                    \o ChainTask(c, offset, [k \in 1..n |-> Byte(inode, offset + k - 1)])
              /\ op' = {}
              /\ UNCHANGED <<disk, made, torn, written, cuts, halted>>

\* A lookup in directory d of what is not in it, or of its last entry, goes on to
\* the end, and stops the kernel if it finds none.
LookUp(d) ==
    /\ Idle
    /\ SentinelAt(ClusterOf(d)) = {}
    /\ Halt("wild")

\* The units create_inode inserts: the long file name, the entry, a sentinel.
Inserted(lfn, e) == lfn \o <<e, Sentinel>>

MutKeepsSentinel(size) == size

\* Where the entries go in a directory of that size: over its sentinel.
InsertAt(size) == size - 1

\* create_inode, called when the name was looked up and not found.  A directory
\* gets a cluster with a sentinel; the root directory is scanned for its
\* sentinel, any other ends where its size says.
create_inode(d, kind, name) ==
    /\ Idle /\ SentinelAt(ClusterOf(d)) # {}
    /\ \A i \in read_dirents(d) : ~HasName(ClusterOf(d), i, name)
    /\ LET count == LfnCount[name]
           lfn == [k \in 1..count |-> Lfn(name, count + 1 - k)]
           isDir == kind = "dir"
           e == Entry(kind, IF isDir THEN FirstFree ELSE 0, IF isDir THEN 1 ELSE 0)
           units == Inserted(lfn, e)
           parent == read_parent_dirent(d)
           at == IF d = RootDir THEN CHOOSE i \in SentinelAt(0) : TRUE ELSE InsertAt(parent.size)
       IN  \/ isDir /\ FreeClusters = {} /\ Halt("full")
           \/ /\ isDir => FreeClusters # {}
              /\ todo' = MarkIf(isDir)
                    \o (IF isDir THEN ChainTask(FirstFree, 0, <<Sentinel>>) ELSE <<>>)
                    \o (IF d = RootDir THEN <<RootTask(at, units)>>
                        ELSE DirentTask(d, [parent EXCEPT !.size = @ + count + 1])
                             \o ChainTask(parent.cluster, at, units))
              /\ op' = {[dir |-> d, at |-> at + count, name |-> name]}
              /\ UNCHANGED <<disk, made, torn, written, cuts, halted>>

\* ftruncate: the size is updated before it is compared with the new length, so
\* nothing is ever padded, and nothing is freed.
ftruncate(inode, len) ==
    /\ Idle
    /\ LET e == read_parent_dirent(inode)
           needed == is_invalid_cluster_num(e.cluster)
           c == IF needed THEN FirstFree ELSE e.cluster
       IN  \/ needed /\ FreeClusters = {} /\ Halt("full")
           \/ /\ needed => FreeClusters # {}
              /\ todo' = MarkIf(needed) \o DirentTask(inode, Entry("file", c, len))
              /\ op' = {}
              /\ UNCHANGED <<disk, made, torn, written, cuts, halted>>

-----------------------------------------------------------------------------
(* Carrying out a write *)

Task == Head(todo)

Doing(t) == halted = "no" /\ todo # <<>> /\ Task.task = t

\* The writes in rest are left; with none, the operation has returned.  (A
\* creation in a torn directory succeeds too, but may never be listed.)
Continue(rest) ==
    /\ todo' = rest
    /\ made' = IF rest = <<>> THEN made \cup {m \in op : m.dir \notin torn} ELSE made
    /\ op' = IF rest = <<>> THEN {} ELSE op
    /\ UNCHANGED <<torn, cuts, halted>>

\* write_fat writes the first table only.
write_fat(c, value) == fat' = [fat EXCEPT ![c] = value]

Mark ==
    /\ Doing("mark")
    /\ write_fat(Task.cluster, EndOfChain)
    /\ Continue(Tail(todo))
    /\ UNCHANGED <<root, data, written>>

\* write_to_root_dir refuses to reach the end of the root directory.
write_to_root_dir ==
    /\ Doing("root")
    /\ LET n == Len(Task.units) IN
       \/ Task.at + n >= RootSize /\ Halt("root")
       \/ /\ Task.at + n < RootSize
          /\ root' = [i \in DOMAIN root |->
                IF i \in Task.at..(Task.at + n - 1) THEN Task.units[i - Task.at + 1] ELSE root[i]]
          /\ Continue(Tail(todo))
          /\ UNCHANGED <<fat, data, written>>

\* One round of write_to_cluster_chain: the data, cut at the end of the cluster.
WriteCluster ==
    /\ Doing("write")
    /\ LET from == IF Task.index = Task.at \div ClusterSize THEN Task.at % ClusterSize ELSE 0
           room == ClusterSize - from
           n == IF Len(Task.units) > room THEN room ELSE Len(Task.units)
       IN  /\ data' = [data EXCEPT ![Task.cluster] = [k \in DOMAIN @ |->
                IF k \in from..(from + n - 1) THEN Task.units[k - from + 1] ELSE @[k]]]
           /\ written' = written \cup {<<Task.units[k].of, Task.units[k].at>> :
                k \in {j \in 1..n : Task.units[j].kind = "byte"}}
           /\ todo' = <<[Task EXCEPT !.task = "next", !.units = SubSeq(@, n + 1, Len(@))]>> \o Tail(todo)
    /\ UNCHANGED <<fat, root, op, made, torn, cuts, halted>>

\* ... then on to cluster c.
Advance(c) == Continue(AtTop(c, Task.index + 1, Task.at, Task.units) \o Tail(todo))

\* ... the next cluster of the chain.
FollowLink ==
    /\ Doing("next") /\ ~is_end_of_ll_num(fat[Task.cluster])
    /\ LET c == fat[Task.cluster] IN
       IF is_invalid_cluster_num(c) /\ Task.units # <<>> THEN Halt("wild")
       ELSE Advance(c) /\ UNCHANGED <<fat, root, data, written>>

\* ... or, at the end of the chain, a new one (even with nothing left to write),
\* first marked as the last of its chain
ExtendChain ==
    /\ Doing("next") /\ is_end_of_ll_num(fat[Task.cluster])
    /\ \/ FreeClusters = {} /\ Halt("full")
       \/ /\ FreeClusters # {}
          /\ write_fat(FirstFree, EndOfChain)
          /\ todo' = <<[task |-> "link", cluster |-> Task.cluster, index |-> Task.index,
                        at |-> Task.at, units |-> Task.units, new |-> FirstFree]>> \o Tail(todo)
          /\ UNCHANGED <<root, data, op, made, torn, written, cuts, halted>>

\* and then linked to the cluster before it.
LinkCluster ==
    /\ Doing("link")
    /\ write_fat(Task.cluster, Task.new)
    /\ Advance(Task.new)
    /\ UNCHANGED <<root, data, written>>

\* What is on the disk stays; the rest of the operation never happens.
PowerCut ==
    /\ cuts < MaxCuts /\ halted = "no" /\ todo # <<>>
    /\ todo' = <<>> /\ op' = {}
    /\ torn' = torn \cup {m.dir : m \in op}
    /\ cuts' = cuts + 1
    /\ UNCHANGED <<disk, made, written, halted>>

Halted == halted # "no" /\ UNCHANGED vars

Operation ==
    \/ \E f \in Files :
          \/ \E offset \in Offsets, n \in WriteLens : read_file(f, offset, n) \/ write_file(f, offset, n)
          \/ \E len \in TruncLens : ftruncate(f, len)
    \/ \E d \in Dirs :
          \/ LookUp(d)
          \/ \E kind \in {"file", "dir"}, name \in Names : create_inode(d, kind, name)

Next ==
    \/ Idle /\ Operation
    \/ Mark \/ write_to_root_dir \/ WriteCluster \/ FollowLink \/ ExtendChain \/ LinkCluster
    \/ PowerCut \/ Halted

Spec == Init /\ [][Next]_vars

-----------------------------------------------------------------------------
Unit ==
    {Sentinel, Junk}
    \cup [kind : {"lfn"}, name : Names, seq : Nat]
    \cup [kind : {"file"}, cluster : {0} \cup Clusters, size : Nat]
    \cup [kind : {"dir"}, cluster : Clusters, size : Nat \ {0}]
    \cup [kind : {"byte"}, of : Nat \X Nat, at : Nat]

Tasks ==
    [task : {"mark"}, cluster : Clusters]
    \cup [task : {"root"}, at : Nat, units : Seq(Unit)]
    \cup [task : {"write", "next"}, cluster : Clusters, index : Nat, at : Nat, units : Seq(Unit)]
    \cup [task : {"link"}, cluster : Clusters, index : Nat, at : Nat, units : Seq(Unit),
          new : Clusters]

\* Types: every table entry is free, an end or a cluster of the volume.
TypeOK ==
    /\ fat \in [Clusters -> {0, EndOfChain} \cup Clusters]
    /\ root \in [0..(RootSize - 1) -> Unit]
    /\ data \in [Clusters -> [0..(ClusterSize - 1) -> Unit]]
    /\ todo \in Seq(Tasks)
    /\ cuts \in 0..MaxCuts
    /\ halted \in {"no", "full", "root", "wild"}

\* Unit u is the entry of something that starts at cluster c.
Leads(u, c) == u.kind \in {"file", "dir"} /\ u.cluster = c

\* What points to cluster c: links of the table and directory entries.
Pointers(c) ==
    {<<"fat", d, 0>> : d \in {x \in Clusters : fat[x] = c}}
    \cup {<<"root", 0, i>> : i \in {x \in DOMAIN root : Leads(root[x], c)}}
    \cup UNION {{<<"data", d, i>> : i \in {x \in DOMAIN data[d] : Leads(data[d][x], c)}} :
                   d \in Clusters}

\* No two files share a cluster, no chain runs into another or into itself, and
\* none leads to a free cluster: between any two disk writes, and so after a
\* power cut at any point.
NoCrossLinks ==
    \A c \in Clusters :
        /\ \A p, q \in Pointers(c) : p = q
        /\ Pointers(c) # {} => ~is_free_cluster_num(fat[c])

\* The units that task t has left to write, and the clusters they will point to.
Units(t) == IF t.task = "mark" THEN <<>> ELSE t.units

Claimed(t) == {c \in Clusters : \E k \in DOMAIN Units(t) : Leads(Units(t)[k], c)}

\* Task t has a single unit left to write, and will write it at place l: in the
\* root directory, or at the end of a walk along existing links.
Lands(t, l) ==
    /\ t.task \in {"root", "write", "next"} /\ Len(t.units) = 1
    /\ t.task = "root" => l = <<"root", 0, t.at>>
    /\ t.task # "root" =>
         LET m == t.at \div ClusterSize IN
         /\ t.index <= m /\ (t.task = "write" <=> t.index = m)
         /\ \E w \in [t.index..m -> Clusters] :
              /\ w[t.index] = t.cluster
              /\ \A k \in t.index..(m - 1) : fat[w[k]] = w[k + 1]
              /\ l = <<"data", w[m], t.at % ClusterSize>>

\* A task writes at most one entry, and a cluster it will point to is pointed to
\* by nothing but what the task will overwrite.
ClaimsSafe(t) ==
    /\ \A j, k \in DOMAIN Units(t) :
          (\E c \in Clusters : Leads(Units(t)[j], c)) /\ (\E c \in Clusters : Leads(Units(t)[k], c))
          => j = k
    /\ \A c \in Claimed(t) : \A l \in Pointers(c) : Lands(t, l)

\* The writes an operation has left keep NoCrossLinks: no two of them point to the
\* same cluster, a cluster they point to is allocated, at the latest by the write
\* at hand, and a cluster about to be linked is in no chain.
WritesSafe ==
    /\ \A i \in DOMAIN todo :
          /\ ClaimsSafe(todo[i])
          /\ todo[i].task \in {"mark", "link"} => i = 1
          /\ \A c \in Claimed(todo[i]) :
                is_free_cluster_num(fat[c]) => Task.task = "mark" /\ Task.cluster = c
          /\ \A j \in DOMAIN todo : i # j => Claimed(todo[i]) \cap Claimed(todo[j]) = {}
    /\ todo # <<>> /\ Task.task = "mark" => is_free_cluster_num(fat[Task.cluster])
    /\ todo # <<>> /\ Task.task = "link" =>
          /\ fat[Task.cluster] = EndOfChain /\ fat[Task.new] = EndOfChain
          /\ Pointers(Task.new) = {}
          /\ \A i \in DOMAIN todo : Task.new \notin Claimed(todo[i])

\* The inductive invariant behind NoCrossLinks.
Fat16Inv == TypeOK /\ NoCrossLinks /\ WritesSafe

\* A byte that reached the disk is found again through the file's entry and its
\* chain, whatever else is written, created or cut short afterwards.
WrittenStays ==
    \A w \in written :
        LET e == read_parent_dirent(w[1])
            c == Nth(e.cluster, w[2] \div ClusterSize)
        IN  c # 0 /\ data[c][w[2] % ClusterSize] = Byte(w[1], w[2])

\* Whatever create_inode made is reached under its name for ever after, and is
\* listed, also when a later creation in the same directory is cut short; only
\* the last entry before the cut may stop the kernel when it is looked up.
CreatedStaysListed ==
    \A m \in made :
        /\ m.at \in Walked(ClusterOf(m.dir)) /\ HasName(ClusterOf(m.dir), m.at, m.name)
        /\ Idle => \/ m.at \in read_dirents(m.dir)
                   \/ m.dir \in torn /\ \A x \in made : x.dir = m.dir => x.at <= m.at

\* A directory whose creations all finished lists exactly what was created in
\* it, and ends in a sentinel where its size says.
ListsWhatWasMade ==
    Idle => \A d \in Dirs \ torn :
        /\ read_dirents(d) = {m.at : m \in {x \in made : x.dir = d}}
        /\ SentinelAt(ClusterOf(d)) # {}
        /\ d # RootDir => SentinelAt(ClusterOf(d)) = {read_parent_dirent(d).size - 1}

\* fs_fat.c, read_dirents and create_inode: what was created is listed, under its
\* name, and nothing else is, as long as no creation in the directory is cut short;
\* if one is, all but the last of the entries before it stay so.
DirectoriesList == CreatedStaysListed /\ ListsWhatWasMade
=============================================================================
