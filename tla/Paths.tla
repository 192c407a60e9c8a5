------------------------------- MODULE Paths --------------------------------
(***************************************************************************)
(* Names of files: the paths of kern_std/path.rs and the mounts of         *)
(* vfs/mounting.rs and fs2.rs, and the walk of fs.c.  A path is a sequence *)
(* of characters.  A tree gives each node the entries read_dirents lists,  *)
(* its type as st_mode has it, and which of its functions there are.       *)
(***************************************************************************)
EXTENDS Naturals, Sequences, SequencesExt

CONSTANTS Root,        \* the node of the file system that only holds /dev
          NewFile,     \* the node create_inode makes
          NoNode, MaxMounts

Slash == "/"

S_ISDIR(n) == n.mode = "S_IFDIR"
S_ISREG(n) == n.mode = "S_IFREG"
\* The bit of a directory is set in the type of a block device too.
DirectoryBit(n) == n.mode \in {"S_IFDIR", "S_IFBLK"}

(***************************************************************************)
(* path.rs                                                                 *)
(***************************************************************************)
into_iter(data) ==
    FoldLeft(LAMBDA segs, c : IF c = Slash THEN Append(segs, << >>)
                              ELSE [segs EXCEPT ![Len(segs)] = Append(@, c)], << << >> >>, data)

Join(segs) == IF segs = << >> THEN << >>
              ELSE FoldLeft(LAMBDA p, s : p \o <<Slash>> \o s, Head(segs), Tail(segs))

Starts(s) == s # << >> /\ s[1] = Slash
Ends(s) == s # << >> /\ s[Len(s)] = Slash
WithoutLast(s) == IF Ends(s) THEN SubSeq(s, 1, Len(s) - 1) ELSE s

Dot == <<".">>
DotDot == <<".", ".">>
Ok(data) == [err |-> "", data |-> data]
Err(e) == [err |-> e, data |-> << >>]

make_cwd(cwd) ==
    IF ~Starts(cwd) THEN Err("relative")
    ELSE LET data == WithoutLast(Tail(cwd))
             segs == into_iter(data)
             bad == SelectInSeq(segs, LAMBDA s : s \in {<< >>, Dot, DotDot})
         IN  IF bad = 0 THEN Ok(data)
             ELSE Err(IF segs[bad] = << >> THEN "empty segment" ELSE "dot")

\* One segment onto the stack; an error stays.
MutPush(acc, seg) ==
    CASE acc.err # "" -> acc
      [] seg = << >> -> [acc EXCEPT !.err = "empty segment"]
      [] seg = Dot -> acc
      [] seg = DotDot -> [acc EXCEPT !.stack = IF @ = << >> THEN @ ELSE Front(@)]
      [] OTHER -> [acc EXCEPT !.stack = Append(@, seg)]
Push(acc, seg) ==
    CASE acc.err # "" -> acc
      [] seg = << >> -> [acc EXCEPT !.err = "empty segment"]
      [] seg = Dot -> acc
      [] seg = DotDot -> IF acc.stack = << >> THEN [acc EXCEPT !.err = "too many .."]
                         ELSE [acc EXCEPT !.stack = Front(@)]
      [] OTHER -> [acc EXCEPT !.stack = Append(@, seg)]

\* The first slash goes only if there is a last one to go too: the second unwrap_or names the
\* whole path again.
Stripped(path) == LET s == IF Starts(path) THEN Tail(path) ELSE path
                  IN  IF Ends(s) THEN WithoutLast(s) ELSE path

with_cwd(cwd, path) ==
    LET first == IF Starts(path) THEN << >> ELSE into_iter(cwd)
        r == FoldLeft(Push, [err |-> "", stack |-> first], into_iter(Stripped(path)))
    IN  IF r.err = "" THEN Ok(Join(r.stack)) ELSE Err(r.err)

is_subpath_of(path, parent) == IsPrefix(parent, path)

(***************************************************************************)
(* mounting.rs and fs2.rs.  Mounts are in the order they were added.       *)
(***************************************************************************)
rs_vfs_add_mount(mounts, mount_against, filesystem_root) ==
    Append(mounts, [at |-> mount_against, root |-> filesystem_root])

\* max_by_key: the last of those with most segments, where the root has one, as "/d" has; 0 is None.
rs_vfs_resolve_mount(mounts, path) ==
    LET key(i) == Len(into_iter(mounts[i].at))
        over == {i \in 1..Len(mounts) : is_subpath_of(path, mounts[i].at)}
    IN  IF over = {} THEN 0
        ELSE CHOOSE i \in over : \A j \in over : key(j) < key(i) \/ (key(j) = key(i) /\ j <= i)

\* The entry of that name, by reading the directory an entry at a time.
directory_lookup(tree, dir, name) ==
    LET i == SelectInSeq(tree[dir].entries, LAMBDA e : e.name = name)
    IN  IF i = 0 THEN NoNode ELSE tree[dir].entries[i].node

\* create_inode of fs_fat.c, for a file: its entries take the place of the directory's last.
Created(tree, dir, name) ==
    [tree EXCEPT ![dir].entries = Append(@, [name |-> name, node |-> NewFile])]

Panic == [err |-> "panic", node |-> NoNode]
\* The segments looked up are those of the mount's own path.
rs_vfs_get(tree, mounts, cwd, path, flags) ==
    LET full == with_cwd(cwd, path)
        chosen == rs_vfs_resolve_mount(mounts, full.data)
        mount == mounts[chosen]
        segs == into_iter(mount.at)
        enter(acc, i) ==
            CASE acc.err # "" -> acc
              [] ~tree[acc.node].lists -> Panic
              [] directory_lookup(tree, acc.node, segs[i]) # NoNode ->
                    [acc EXCEPT !.node = directory_lookup(tree, acc.node, segs[i])]
              [] OTHER -> IF i = Len(segs) /\ "O_CREAT" \in flags THEN Panic ELSE [acc EXCEPT !.err = "ENOENT"]
        r == FoldLeft(enter, [err |-> "", node |-> mount.root], [i \in 1..Len(segs) |-> i])
    IN  CASE full.err # "" -> [err |-> full.err, node |-> NoNode]
          [] chosen = 0 -> Panic
          [] r.err # "" -> r
          [] DirectoryBit(tree[r.node]) # ("O_DIRECTORY" \in flags) -> [r EXCEPT !.err = "ENOTDIR"]
          [] OTHER -> r

(***************************************************************************)
(* fs.c: a walk is at a node with the rest of a path before it; done when  *)
(* the code sets the rest to NULL.                                         *)
(***************************************************************************)
path_segment_len(rest) == LET i == SelectInSeq(rest, LAMBDA c : c = Slash)
                          IN  IF i = 0 THEN Len(rest) ELSE i - 1

MountOn(mounts, node) == SelectInSeq(mounts, LAMBDA m : m.parent = node)

\* A name: mounts on the node are crossed before it is looked up.
StepSegment(tree, w) ==
    LET n == path_segment_len(w.rest)
        found == directory_lookup(tree, w.node, SubSeq(w.rest, 1, n))
        folder == n + 1 = Len(w.rest)
        last == folder \/ n = Len(w.rest)
    IN  CASE ~tree[w.node].lists -> [w EXCEPT !.status = "halted"]
          [] found = NoNode -> [w EXCEPT !.status = IF last THEN "notexist_last" ELSE "notexist"]
          [] folder /\ ~S_ISDIR(tree[found]) -> [w EXCEPT !.status = "halted"]
          [] last -> [w EXCEPT !.node = found, !.status = "complete"]
          [] OTHER -> [w EXCEPT !.node = found, !.rest = SubSeq(@, n + 2, Len(@))]

step_path2(tree, mounts, w) ==
    CASE Starts(w.rest) -> [w EXCEPT !.node = Root, !.rest = Tail(@)]
      [] MountOn(mounts, w.node) # 0 -> [w EXCEPT !.node = mounts[MountOn(mounts, @)].replacement]
      [] w.rest = << >> -> [w EXCEPT !.status = "complete"]
      [] OTHER -> StepSegment(tree, w)

RECURSIVE Walk(_, _, _)
Walk(tree, mounts, w) == IF w.status # "inprogress" THEN w ELSE Walk(tree, mounts, step_path2(tree, mounts, w))
From(node, path) == [node |-> node, rest |-> path, status |-> "inprogress"]

\* The limit is compared with the negative of the count, so it is never met: a mount too many
\* is written past the array.
vfs_add_mount(mounts, parent, replacement) ==
    IF MountOn(mounts, parent) # 0 THEN [halted |-> TRUE, overran |-> FALSE, mounts |-> mounts]
    ELSE [halted |-> FALSE, overran |-> Len(mounts) >= MaxMounts,
          mounts |-> Append(mounts, [parent |-> parent, replacement |-> replacement])]

Halted(tree) == [halted |-> TRUE, node |-> NoNode, tree |-> tree, cleared |-> FALSE]

\* A missing last name is made once, and looked up again.
WalkCreating(tree, mounts, r, flags) ==
    IF r.status = "notexist_last" /\ "O_CREAT" \in flags /\ "O_DIRECTORY" \notin flags /\ tree[r.node].creates
    THEN LET t == Created(tree, r.node, r.rest)
         IN  [tree |-> t, w |-> Walk(t, mounts, [r EXCEPT !.status = "inprogress"])]
    ELSE [tree |-> tree, w |-> r]

\* What the walk came to, as the flags want it.
Opened(r, flags) ==
    LET node == r.tree[r.w.node]
    IN  CASE r.w.status # "complete" -> Halted(r.tree)
          [] S_ISDIR(node) # ("O_DIRECTORY" \in flags) -> Halted(r.tree)
          [] flags \cap {"O_NONBLOCK", "O_APPEND"} # {} -> Halted(r.tree)
          [] "O_TRUNC" \in flags /\ ~S_ISREG(node) -> Halted(r.tree)
          [] OTHER -> [halted |-> FALSE, node |-> r.w.node, tree |-> r.tree, cleared |-> "O_TRUNC" \in flags]

\* The path is walked from the working directory, which must be there.
GetBelow(tree, mounts, there, path, flags) ==
    IF there.status # "complete" THEN Halted(tree)
    ELSE Opened(WalkCreating(tree, mounts, Walk(tree, mounts, From(there.node, path)), flags), flags)
vfs_get(tree, mounts, cwd, path, flags) ==
    GetBelow(tree, mounts, Walk(tree, mounts, From(Root, cwd)), path, flags)
=============================================================================
