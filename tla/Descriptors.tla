----------------------------- MODULE Descriptors -----------------------------
(***************************************************************************)
(* File descriptors across processes: the descriptor tables and Rc counts  *)
(* of stuos/src/processes.rs and pipes_and_files.rs, the descriptor system *)
(* calls of syscall_handlers.rs, and the pipe ends of pipes_and_files.c    *)
(* that they open and close.  Bytes in a pipe are counted (module Pipe has *)
(* their order); which process runs is left open (module Scheduler).       *)
(***************************************************************************)
EXTENDS Integers, FiniteSets

CONSTANTS
    OpenMax,       \* OPEN_MAX
    MaxPid,        \* bound on the processes ever created
    MaxFiles,      \* bound on the open devices ever created
    MaxBytes,      \* bound on the bytes in a pipe
    None

ASSUME DescriptorsAssumption ==
    /\ OpenMax \in Nat \ {0} /\ MaxPid \in Nat \ {0}
    /\ MaxFiles \in Nat \ {0} /\ MaxBytes \in Nat \ {0}
    /\ None \notin 1..MaxFiles

Fd == 0..(OpenMax - 1)

VARIABLES
    fds,           \* fds[p][n]: the device behind descriptor n of process p
    parent,        \* identity.ppid
    waiting,       \* waiting_state: [kind, fd]
    count,         \* count[f]: the Rc count of device f; devices are 1, 2, ...
    peer,          \* peer[f]: other_pipe_data; None is NULL, or f is no pipe
    pipe,          \* the pipe ends, and which end each was created with
    bytes,         \* bytes[f]: unread bytes in pipe end f
    halted         \* a panic or HCF

vars == <<fds, parent, waiting, count, peer, pipe, bytes, halted>>

Procs == DOMAIN fds

Files == DOMAIN count

Pipes == DOMAIN pipe

Ready == [kind |-> "ready", fd |-> 0]

Empty == [x \in {} |-> None]

\* default_fd: the first process has the terminal, one device for descriptor 0
\* (the code has three, one each for stdin, stdout and stderr).
Init ==
    /\ fds = [p \in {1} |-> [n \in Fd |-> IF n = 0 THEN 1 ELSE None]]
    /\ parent = [p \in {1} |-> 0]
    /\ waiting = [p \in {1} |-> Ready]
    /\ count = [f \in {1} |-> 1]
    /\ peer = [f \in {1} |-> None]
    /\ pipe = Empty
    /\ bytes = [f \in {1} |-> 0]
    /\ halted = FALSE

\* A process makes a system call.
Running(p) == ~halted /\ p \in Procs /\ waiting[p] = Ready

\* A panic or HCF: the processor stops for good, so what the kernel held is
\* forgotten.
Panic ==
    /\ halted' = TRUE
    /\ fds' = Empty /\ parent' = Empty /\ waiting' = Empty /\ count' = Empty
    /\ peer' = Empty /\ pipe' = Empty /\ bytes' = Empty

\* The descriptors find_free_fd looks for; it takes the lowest.
Available(p, min) == {n \in Fd : n >= min /\ fds[p][n] = None}

Lowest(S) == CHOOSE n \in S : \A m \in S : n <= m

MutForgetsPeer(dead) == peer

\* pipe_close of every dead end: its peer, if it has one, forgets it.
ClosePeers(dead) == [f \in Files |-> IF peer[f] \in dead THEN None ELSE peer[f]]

\* Release one reference for every descriptor n of table t that is in S; close
\* what has no reference left.  c is the count before.
Release(c, t, S) ==
    LET refs(f) == Cardinality({n \in S : t[n] = f})
        left == [f \in Files |-> c[f] - refs(f)]
    IN  /\ count' = left
        /\ peer' = ClosePeers({f \in Files : count[f] > 0 /\ left[f] = 0})

\* Closing a descriptor that is not open panics.
syscall_close_fd(p, n) ==
    /\ Running(p)
    /\ \/ fds[p][n] = None /\ Panic
       \/ /\ fds[p][n] # None
          /\ fds' = [fds EXCEPT ![p][n] = None]
          /\ Release(count, fds[p], {n})
          /\ UNCHANGED <<parent, waiting, pipe, bytes, halted>>

\* A full table panics, as does a descriptor that is not open.
syscall_dupfd(p, n, min) ==
    /\ Running(p)
    /\ \/ (fds[p][n] = None \/ Available(p, min) = {}) /\ Panic
       \/ /\ fds[p][n] # None /\ Available(p, min) # {}
          /\ fds' = [fds EXCEPT ![p][Lowest(Available(p, min))] = fds[p][n]]
          /\ count' = [count EXCEPT ![fds[p][n]] = @ + 1]
          /\ UNCHANGED <<parent, waiting, peer, pipe, bytes, halted>>

New(k) == Cardinality(Files) + k

Extend(g, f, v) == [x \in DOMAIN g \cup {f} |-> IF x = f THEN v ELSE g[x]]

\* Two ends that know each other, in the two lowest free descriptors.
syscall_pipe(p) ==
    /\ Running(p) /\ New(2) <= MaxFiles
    /\ LET a == Lowest(Available(p, 0))
           b == Lowest(Available(p, a + 1))
       IN  \/ Cardinality(Available(p, 0)) < 2 /\ Panic
           \/ /\ Cardinality(Available(p, 0)) >= 2
              /\ fds' = [fds EXCEPT ![p][a] = New(1), ![p][b] = New(2)]
              /\ count' = Extend(Extend(count, New(1), 1), New(2), 1)
              /\ peer' = Extend(Extend(peer, New(1), New(2)), New(2), New(1))
              /\ bytes' = Extend(Extend(bytes, New(1), 0), New(2), 0)
              /\ pipe' = Extend(Extend(pipe, New(1), New(2)), New(2), New(1))
              /\ UNCHANGED <<parent, waiting, halted>>

\* A file: a device with no peer.
syscall_open_file(p) ==
    /\ Running(p) /\ New(1) <= MaxFiles
    /\ \/ Available(p, 0) = {} /\ Panic
       \/ /\ Available(p, 0) # {}
          /\ fds' = [fds EXCEPT ![p][Lowest(Available(p, 0))] = New(1)]
          /\ count' = Extend(count, New(1), 1)
          /\ peer' = Extend(peer, New(1), None)
          /\ bytes' = Extend(bytes, New(1), 0)
          /\ UNCHANGED <<parent, waiting, pipe, halted>>

\* file_descriptors.clone(): one more reference per descriptor.
Cloned(p, c) == [f \in Files |-> c[f] + Cardinality({n \in Fd : fds[p][n] = f})]

NextPid == Cardinality(DOMAIN parent) + 1

\* create_with_parent.  Pids are never reused, so parent keeps the dead too.
syscall_fork(p) ==
    /\ Running(p) /\ NextPid <= MaxPid
    /\ fds' = Extend(fds, NextPid, fds[p])
    /\ parent' = Extend(parent, NextPid, p)
    /\ waiting' = Extend(waiting, NextPid, Ready)
    /\ count' = Cloned(p, count)
    /\ UNCHANGED <<peer, pipe, bytes, halted>>

MutDropsFirst(p) ==
    /\ Running(p)
    /\ LET left == [f \in Files |-> count[f] - Cardinality({n \in Fd : fds[p][n] = f})] IN
       /\ peer' = ClosePeers({f \in Files : count[f] > 0 /\ left[f] = 0})
       /\ count' = Cloned(p, left)
    /\ UNCHANGED <<fds, parent, waiting, pipe, bytes, halted>>

\* replace: the new process clones the table before the old one is dropped.
syscall_execve(p) ==
    /\ Running(p)
    /\ Release(Cloned(p, count), fds[p], Fd)
    /\ UNCHANGED <<fds, parent, waiting, pipe, bytes, halted>>

\* A zombie keeps its descriptors.
syscall_halt(p) ==
    /\ Running(p)
    /\ waiting' = [waiting EXCEPT ![p] = [kind |-> "zombie", fd |-> 0]]
    /\ UNCHANGED <<fds, parent, count, peer, pipe, bytes, halted>>

syscall_wait(p) ==
    /\ Running(p)
    /\ waiting' = [waiting EXCEPT ![p] = [kind |-> "child", fd |-> 0]]
    /\ UNCHANGED <<fds, parent, count, peer, pipe, bytes, halted>>

\* The descriptor is only looked up when the read is polled.
syscall_read_fd(p, n) ==
    /\ Running(p)
    /\ waiting' = [waiting EXCEPT ![p] = [kind |-> "read", fd |-> n]]
    /\ UNCHANGED <<fds, parent, count, peer, pipe, bytes, halted>>

\* One more byte for the peer; a pipe nobody can read any more halts the kernel.
\* (Writing to the terminal or a file changes nothing modelled here.)
syscall_write_fd(p, n) ==
    /\ Running(p)
    /\ LET f == fds[p][n] IN
       \/ (f = None \/ (f \in Pipes /\ peer[f] = None)) /\ Panic
       \/ /\ f # None /\ f \in Pipes /\ peer[f] # None /\ bytes[peer[f]] < MaxBytes
          /\ bytes' = [bytes EXCEPT ![peer[f]] = @ + 1]
          /\ UNCHANGED <<fds, parent, waiting, count, peer, pipe, halted>>

MutEofIfEmpty(f) == peer[f] = None \/ bytes[f] = 0

\* pipe_read's first test: the other end is gone.
AtEof(f) == peer[f] = None

\* Process::poll of a read: a file always answers, a pipe with EOF or bytes; the
\* terminal, device 1, may answer.
PollRead(p) ==
    /\ ~halted /\ p \in Procs /\ waiting[p].kind = "read"
    /\ LET f == fds[p][waiting[p].fd] IN
       \/ f = None /\ Panic
       \/ /\ f # None /\ (f \in Pipes => AtEof(f) \/ bytes[f] > 0)
          /\ waiting' = [waiting EXCEPT ![p] = Ready]
          /\ bytes' = IF f \in Pipes /\ ~AtEof(f) THEN [bytes EXCEPT ![f] = @ - 1] ELSE bytes
          /\ UNCHANGED <<fds, parent, count, peer, pipe, halted>>

\* Process::poll of a wait: the child's Process, and so its table, is dropped.
Reap(p, child) ==
    /\ ~halted /\ p \in Procs /\ child \in Procs
    /\ waiting[p].kind = "child" /\ waiting[child].kind = "zombie" /\ parent[child] = p
    /\ waiting' = [q \in Procs \ {child} |-> IF q = p THEN Ready ELSE waiting[q]]
    /\ fds' = [q \in Procs \ {child} |-> fds[q]]
    /\ Release(count, fds[child], Fd)
    /\ UNCHANGED <<parent, pipe, bytes, halted>>

\* Panicked, or nobody can do anything any more.
Stuck ==
    /\ \/ halted
       \/ \A p \in Procs : waiting[p].kind # "ready"
    /\ UNCHANGED vars

Next ==
    \/ \E p \in Procs :
          \/ syscall_pipe(p) \/ syscall_open_file(p) \/ syscall_fork(p) \/ syscall_execve(p)
          \/ syscall_halt(p) \/ syscall_wait(p) \/ PollRead(p)
          \/ \E n \in Fd :
                \/ syscall_close_fd(p, n) \/ syscall_read_fd(p, n) \/ syscall_write_fd(p, n)
                \/ \E min \in Fd : syscall_dupfd(p, n, min)
          \/ \E child \in Procs : Reap(p, child)
    \/ Stuck

Spec == Init /\ [][Next]_vars

\* run_next_task polls every process again and again.
FairSpec == Spec /\ \A p \in 1..MaxPid : WF_vars(PollRead(p))

-----------------------------------------------------------------------------
\* The descriptors, of any process, that stand for device f.
Holders(f) == {h \in Procs \X Fd : fds[h[1]][h[2]] = f}

\* Types; every descriptor names a device that exists.
TypeOK ==
    /\ Procs \subseteq DOMAIN parent /\ DOMAIN parent \subseteq 1..MaxPid
    /\ Files \subseteq 1..MaxFiles
    /\ fds \in [Procs -> [Fd -> Files \cup {None}]]
    /\ parent \in [DOMAIN parent -> 0..MaxPid]
    /\ waiting \in [Procs -> [kind : {"ready", "read", "child", "zombie"}, fd : Fd]]
    /\ count \in [Files -> Nat] /\ peer \in [Files -> Files \cup {None}]
    /\ bytes \in [Files -> Nat] /\ pipe \in [Pipes -> Pipes]
    /\ Pipes \subseteq Files
    /\ halted \in BOOLEAN

\* A device is closed when, and only when, the last descriptor for it in any
\* process goes away, through close, exec, exit and wait in every order.
CountsHolders == \A f \in Files : count[f] = Cardinality(Holders(f))

Held(f) == \E p \in Procs, n \in Fd : fds[p][n] = f

\* An end that somebody holds has a peer exactly while somebody, a zombie
\* included, holds the other end: forks, execs, dups and exits of the holders
\* in every order neither cut a pipe in use nor keep a dead one open.
PeerWhileHeld ==
    \A f \in Pipes : Held(f) =>
        /\ peer[f] \in {pipe[f], None}
        /\ peer[f] # None <=> Held(pipe[f])

\* processes.rs, pipes_and_files.c: what is open, and what is connected, is what
\* the descriptor tables hold.
PipesMatchHolders == CountsHolders /\ PeerWhileHeld

\* Devices and pids are numbered without gaps, so the next number is fresh.
NumberedInOrder ==
    /\ Files = 1..Cardinality(Files)
    /\ DOMAIN parent = 1..Cardinality(DOMAIN parent)

\* Ends come in pairs, and an end knows its peer until the peer's last reference
\* is gone, even when the end itself was closed before.
PeerUntilClosed ==
    /\ \A f \in Pipes : pipe[f] # f /\ pipe[pipe[f]] = f
    /\ \A f \in Files : peer[f] = IF f \in Pipes /\ count[pipe[f]] > 0 THEN pipe[f] ELSE None

\* The inductive invariant behind PipesMatchHolders and EofOnlyWithoutWriters.
DescriptorsInv == TypeOK /\ NumberedInOrder /\ CountsHolders /\ PeerUntilClosed

\* Of one step: a read that ends without a byte finds nobody holding the other end.
EofWithoutWriters ==
    \A p \in Procs :
       LET f == fds[p][waiting[p].fd] IN
       (/\ ~halted' /\ waiting[p].kind = "read" /\ waiting'[p] = Ready
        /\ f \in Pipes /\ bytes' = bytes)
       => ~Held(pipe[f])

\* A read that ends without a byte was told EOF, and that happens only when
\* nobody, the reader itself included, can write to the pipe any more.
EofOnlyWithoutWriters == [][EofWithoutWriters]_vars

\* A reader that is blocked on a pipe when the last writer goes away gets its EOF.
BlockedReadersWake ==
    \A p \in 1..MaxPid :
        (/\ ~halted /\ p \in Procs /\ waiting[p].kind = "read"
         /\ LET f == fds[p][waiting[p].fd] IN f \in Pipes /\ ~Held(pipe[f]))
        ~> (halted \/ p \notin Procs \/ waiting[p].kind # "read")
=============================================================================
