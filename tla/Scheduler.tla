----------------------------- MODULE Scheduler ------------------------------
(***************************************************************************)
(* The process table, the run queue and the context switch of the kernel:  *)
(* stuos/src/scheduling.rs, stuos/src/processes.rs, the system calls that  *)
(* create, replace, block and end processes (syscall_handlers.rs and .c),  *)
(* and the interrupt entry points in interrupts_lowlevel.asm/lowlevel.asm. *)
(*                                                                         *)
(* There is one processor and the kernel is not preemptible, so a system   *)
(* call is one step.  run_next_task is not: it loops, polling one process  *)
(* per iteration, possibly for ever, and interrupts arrive between two     *)
(* iterations when they are enabled.  One iteration is one step here.      *)
(*                                                                         *)
(* The kernel answers a system call by storing through a user pointer, so  *)
(* an answer lands in whichever address space CR3 selects at that moment.  *)
(* An address space is therefore a record: the program loaded into it and  *)
(* the last answer stored in it.                                           *)
(***************************************************************************)
EXTENDS Integers, Sequences

CONSTANTS
    MaxPid,        \* bound on the pids a run hands out
    Roots,         \* physical frames that can hold the root of a page table
    KernelRoot,    \* the page tables the kernel boots with; never freed
    Programs,      \* executables that processes exec
    InitProgram,   \* the program main() starts
    ExitCodes,     \* arguments of exit
    WaitArgs,      \* first arguments of waitpid
    ReadLen,       \* bytes a completed read of the terminal delivers
    MaxInput       \* bound on terminal lines typed and not yet read

ASSUME SchedulerAssumption ==
    /\ MaxPid \in Nat \ {0}
    /\ KernelRoot \notin Roots /\ Roots # {}
    /\ ExitCodes \subseteq 0..255
    /\ WaitArgs \subseteq Int
    /\ ReadLen \in Nat \ {0}
    /\ MaxInput \in Nat

VARIABLES
    processes,     \* ProcessQueue.processes: pid -> Process
    order,         \* ProcessQueue.order; its head is the current process
    next_free_pid, \* ProcessQueue.next_free_pid
    locked,        \* PROCESSES_QUEUE is locked
    spaces,        \* allocated page table roots -> [image, result]
    cr3,           \* the root the processor translates through
    mode,          \* "user", "sched" (inside run_next_task) or a panic
    intr,          \* the interrupt flag
    image,         \* program whose registers the processor holds (mode user)
    input,         \* lines in the terminal's buffer
    due            \* history: pid -> the last answer the kernel owed it

vars == <<processes, order, next_free_pid, locked, spaces, cr3, mode, intr,
          image, input, due>>

Panics == {"oom", "badcall", "locked"}

\* arg is the pid waited for or the exit code.  ok is FALSE for arguments the
\* system call accepts and poll refuses: a descriptor that is closed, options
\* other than 0.
WaitingState == [kind : {"None", "WaitingRead", "WaitingChild", "AmZombie"},
                 arg  : Int, ok : BOOLEAN]

NotWaiting == [kind |-> "None", arg |-> 0, ok |-> TRUE]

\* What an address space can hold.
Images == Programs \cup {InitProgram}

Process == [ppid : Nat, pgrp : Nat, root : Roots, paused : Images,
            waiting : WaitingState]

Space == [image : Images, result : Int]

current_pid == order[1]

current == processes[current_pid]

-----------------------------------------------------------------------------
(* ChildType::from_pid and ChildType::is_valid.                            *)

IsValid(pid, my_pgrp, candidate_pid, candidate_pgrp) ==
    CASE pid = -1 -> TRUE
      [] pid = 0  -> my_pgrp = candidate_pgrp
      [] pid > 0  -> pid = candidate_pid
      [] pid < -1 -> -pid = candidate_pid

MutNotOnlyZombies(p) == {c \in DOMAIN processes : processes[c].ppid = p}

\* The children poll may collect for p: valid for its wait, and zombies.
Collectable(p) ==
    {c \in DOMAIN processes :
        /\ processes[c].ppid = p
        /\ processes[c].waiting.kind = "AmZombie"
        /\ IsValid(processes[p].waiting.arg, processes[p].pgrp,
                   c, processes[c].pgrp)}

-----------------------------------------------------------------------------
(* Operations on the queue and on address spaces.                          *)

MutRotateBackwards(s) == <<s[Len(s)]>> \o SubSeq(s, 1, Len(s) - 1)

MutRotateHeadOnly(s) ==
    IF Len(s) < 2 THEN s ELSE <<s[2], s[1]>> \o SubSeq(s, 3, Len(s))

\* order.pop_front() pushed to the back.
Rotate(s) == Append(Tail(s), Head(s))

MutPopBack(s, i) == SubSeq(s, 1, Len(s) - 1)

\* VecDeque::swap_remove_back: the last element fills the hole.
SwapRemoveBack(s, i) == SubSeq([s EXCEPT ![i] = s[Len(s)]], 1, Len(s) - 1)

IndexOf(s, p) == CHOOSE i \in 1..Len(s) : s[i] = p

Without(f, x) == [y \in DOMAIN f \ {x} |-> f[y]]

\* f extended, or overwritten, at x.
With(f, x, v) == [y \in DOMAIN f \cup {x} |-> IF y = x THEN v ELSE f[y]]

\* Drop for Process: remove_virtual_addressing frees the page tables and the
\* pages below root.
FreeSpace(f, root) == Without(f, root)

\* The registers instantiate_ELF hands to the new process; run_next_task(NULL)
\* leaves them as they are.
InitialState(program) == program

AllocatePid == next_free_pid' = next_free_pid + 1

MutNoSti(interruptible) == mode' = "sched" /\ locked' = TRUE /\ intr' = FALSE

\* Entry of run_next_task: queue() panics if the lock is held, otherwise it
\* is held until start_userland.
EnterScheduler(interruptible) ==
    IF locked
    THEN mode' = "locked" /\ UNCHANGED <<locked, intr>>
    ELSE mode' = "sched" /\ locked' = TRUE /\ intr' = interruptible

Panic(why) == mode' = why /\ UNCHANGED
    <<processes, order, next_free_pid, locked, spaces, cr3, intr, image,
      input, due>>

-----------------------------------------------------------------------------
(* What a running process can do.                                          *)

\* A system call of the current process: entered with interrupts disabled,
\* which handle_syscall enables again.
Running == mode = "user"

\* Leave user mode with run_next_task(state): the registers go to the
\* current process together with its new waiting state.
SaveAndSwitch(waiting, interruptible) ==
    /\ processes' = [processes EXCEPT ![current_pid].paused = image,
                                      ![current_pid].waiting = waiting]
    /\ EnterScheduler(interruptible)
    /\ UNCHANGED <<order, next_free_pid, spaces, cr3, image, input, due>>

syscall_yield == Running /\ SaveAndSwitch(NotWaiting, TRUE)

syscall_wait(pid, ok) ==
    /\ Running
    /\ SaveAndSwitch([kind |-> "WaitingChild", arg |-> pid, ok |-> ok], TRUE)

syscall_read_fd(ok) ==
    /\ Running
    /\ SaveAndSwitch([kind |-> "WaitingRead", arg |-> 0, ok |-> ok], TRUE)

\* run_next_task(NULL): the registers of the dead process are dropped, and
\* so is nothing else: its page tables live until it is collected.
syscall_halt(exit_code) ==
    /\ Running
    /\ processes' = [processes EXCEPT ![current_pid].waiting =
                        [kind |-> "AmZombie", arg |-> exit_code, ok |-> TRUE]]
    /\ EnterScheduler(TRUE)
    /\ UNCHANGED <<order, next_free_pid, spaces, cr3, image, input, due>>

\* ProcessQueue::push with the current process as parent.
PushChild(root, paused) ==
    /\ processes' = With(processes, next_free_pid,
                         [ppid |-> current_pid, pgrp |-> current.pgrp,
                          root |-> root, paused |-> paused,
                          waiting |-> NotWaiting])
    /\ order' = Append(order, next_free_pid)
    /\ AllocatePid

MutAnswerParentOnly(child_root) ==
    /\ spaces' = [With(spaces, child_root, spaces[cr3])
                    EXCEPT ![current.root].result = next_free_pid]
    /\ cr3' = current.root

\* The two stores through data.pid, the first with the child's tables in CR3.
AnswerFork(child_root) ==
    /\ spaces' = [With(spaces, child_root, [spaces[cr3] EXCEPT !.result = 0])
                    EXCEPT ![current.root].result = next_free_pid]
    /\ cr3' = current.root

syscall_fork ==
    /\ Running
    /\ next_free_pid <= MaxPid
    /\ \E child_root \in Roots \ DOMAIN spaces :
        /\ PushChild(child_root, image)
        /\ AnswerFork(child_root)
    /\ due' = With([due EXCEPT ![current_pid] = next_free_pid],
                   next_free_pid, 0)
    /\ UNCHANGED <<locked, mode, intr, image, input>>

\* Process::replace drops the old Process after the new one is built.  Drop
\* frees the tables CR3 selects, then puts the same root back into CR3.
syscall_execve(program) ==
    /\ Running
    /\ \E root \in Roots \ DOMAIN spaces :
        /\ processes' = [processes EXCEPT
                            ![current_pid].root = root,
                            ![current_pid].paused = InitialState(program),
                            ![current_pid].waiting = NotWaiting]
        /\ spaces' = With(FreeSpace(spaces, current.root), root,
                          [image |-> program, result |-> 0])
    /\ due' = [due EXCEPT ![current_pid] = 0]
    /\ EnterScheduler(TRUE)
    /\ UNCHANGED <<order, next_free_pid, cr3, image, input>>

\* fork and execve find no free frame for the page tables: malloc4k halts.
OutOfFrames ==
    /\ Running
    /\ Roots \subseteq DOMAIN spaces
    /\ Panic("oom")

\* Arguments the handlers answer with a panic or HCF: an unknown system call,
\* a close of a closed descriptor, an execve of something that is no ELF file.
FatalSyscall == Running /\ Panic("badcall")

-----------------------------------------------------------------------------
(* Interrupts.                                                             *)

\* vector_32_handler: only an interrupted user program is switched out, and
\* the switch runs with interrupts off.
TimerInterrupt ==
    /\ intr
    /\ \/ mode = "user" /\ SaveAndSwitch(NotWaiting, FALSE)
       \/ mode = "sched" /\ UNCHANGED vars

\* A keyboard interrupt completes a line of terminal input.
KeyboardInterrupt ==
    /\ intr /\ mode \in {"user", "sched"}
    /\ input < MaxInput
    /\ input' = input + 1
    /\ UNCHANGED <<processes, order, next_free_pid, locked, spaces, cr3, mode,
                   intr, image, due>>

-----------------------------------------------------------------------------
(* One iteration of run_next_task: rotate, load CR3, poll the new head.    *)

Polled == Rotate(order)[1]

MutKeepCr3(kind) ==
    /\ mode = "sched"
    /\ processes[Polled].waiting.kind = kind
    /\ UNCHANGED cr3

Polling(kind) ==
    /\ mode = "sched"
    /\ processes[Polled].waiting.kind = kind
    /\ cr3' = processes[Polled].root

\* PollResult::DoNothing.
DoNothing ==
    /\ order' = Rotate(order)
    /\ UNCHANGED <<processes, next_free_pid, locked, spaces, mode, intr, image,
                   input, due>>

\* HandleWaiting: the poll has stored its answer through a user pointer.
Answer(p, value) ==
    /\ spaces' = [spaces EXCEPT ![cr3'].result = value]
    /\ due' = [due EXCEPT ![p] = value]

\* PollResult::StartUserland.
StartUserland ==
    /\ Polling("None")
    /\ order' = Rotate(order)
    /\ mode' = "user" /\ intr' = TRUE /\ locked' = FALSE
    /\ image' = processes[Polled].paused
    /\ UNCHANGED <<processes, next_free_pid, spaces, input, due>>

PollZombie == Polling("AmZombie") /\ DoNothing

\* poll panics on the arguments it refuses.
PollRefused ==
    /\ \E kind \in {"WaitingRead", "WaitingChild"} : Polling(kind)
    /\ ~processes[Polled].waiting.ok
    /\ order' = Rotate(order)
    /\ mode' = "badcall"
    /\ UNCHANGED <<processes, next_free_pid, locked, spaces, intr, image, input,
                   due>>

PollReadNothing ==
    /\ Polling("WaitingRead") /\ processes[Polled].waiting.ok
    /\ input = 0
    /\ DoNothing

PollReadLine ==
    /\ Polling("WaitingRead") /\ processes[Polled].waiting.ok
    /\ input > 0
    /\ input' = input - 1
    /\ Answer(Polled, ReadLen)
    /\ processes' = [processes EXCEPT ![Polled].waiting = NotWaiting]
    /\ order' = Rotate(order)
    /\ UNCHANGED <<next_free_pid, locked, mode, intr, image>>

PollChildNothing ==
    /\ Polling("WaitingChild") /\ processes[Polled].waiting.ok
    /\ Collectable(Polled) = {}
    /\ DoNothing

MutStaysBlocked(c) ==
    /\ processes' = Without(processes, c)
    /\ spaces' = FreeSpace(spaces, processes[c].root)
    /\ due' = Without(due, c)
    /\ order' = SwapRemoveBack(Rotate(order), IndexOf(Rotate(order), c))
    /\ UNCHANGED <<next_free_pid, locked, mode, intr, image, input>>

\* remove_zombie: the answer is the exit code, stored in the parent's space;
\* the child's Process is dropped with its page tables, and the last process
\* of the queue takes the child's place in it.
Reap(c) ==
    /\ processes' = Without([processes EXCEPT ![Polled].waiting = NotWaiting], c)
    /\ spaces' = FreeSpace([spaces EXCEPT ![cr3'].result =
                                processes[c].waiting.arg], processes[c].root)
    /\ due' = Without([due EXCEPT ![Polled] = processes[c].waiting.arg], c)
    /\ order' = SwapRemoveBack(Rotate(order), IndexOf(Rotate(order), c))
    /\ UNCHANGED <<next_free_pid, locked, mode, intr, image, input>>

PollChildReap ==
    /\ Polling("WaitingChild") /\ processes[Polled].waiting.ok
    /\ \E c \in Collectable(Polled) : Reap(c)

run_next_task ==
    \/ StartUserland \/ PollZombie \/ PollRefused
    \/ PollReadNothing \/ PollReadLine \/ PollChildNothing \/ PollChildReap

\* Both panic handlers end in loop_hlt.
LoopHlt == mode \in Panics /\ UNCHANGED vars

-----------------------------------------------------------------------------
\* main(): one process, not yet running, with the kernel's own tables in CR3.
Init ==
    /\ \E root \in Roots :
        /\ processes = [p \in {1} |->
                            [ppid |-> 0, pgrp |-> 1, root |-> root,
                             paused |-> InitProgram, waiting |-> NotWaiting]]
        /\ spaces = [r \in {root} |-> [image |-> InitProgram, result |-> 0]]
    /\ order = <<1>>
    /\ next_free_pid = 2
    /\ locked = TRUE
    /\ cr3 = KernelRoot
    /\ mode = "sched"
    /\ intr = TRUE
    /\ image = InitProgram
    /\ input = 0
    /\ due = [p \in {1} |-> 0]

Syscall ==
    \/ syscall_yield \/ syscall_fork \/ OutOfFrames \/ FatalSyscall
    \/ \E pid \in WaitArgs, ok \in BOOLEAN : syscall_wait(pid, ok)
    \/ \E ok \in BOOLEAN : syscall_read_fd(ok)
    \/ \E exit_code \in ExitCodes : syscall_halt(exit_code)
    \/ \E program \in Programs : syscall_execve(program)

Next ==
    Syscall \/ TimerInterrupt \/ KeyboardInterrupt \/ run_next_task \/ LoopHlt

Spec == Init /\ [][Next]_vars

\* The scheduling loop runs until it starts a process, and the timer is a
\* free-running device.  Users and programs owe us nothing.
Fairness ==
    /\ WF_vars(run_next_task)
    /\ WF_vars(TimerInterrupt)

FairSpec == Spec /\ Fairness

-----------------------------------------------------------------------------
(* Properties.                                                             *)

TypeOK ==
    /\ DOMAIN processes \subseteq Nat \ {0}
    /\ processes \in [DOMAIN processes -> Process]
    /\ order \in Seq(Nat \ {0})
    /\ next_free_pid \in Nat \ {0}
    /\ locked \in BOOLEAN
    /\ DOMAIN spaces \subseteq Roots
    /\ spaces \in [DOMAIN spaces -> Space]
    /\ cr3 \in Roots \cup {KernelRoot}
    /\ mode \in {"user", "sched"} \cup Panics
    /\ intr \in BOOLEAN
    /\ image \in Images
    /\ input \in Nat
    /\ DOMAIN due = DOMAIN processes /\ due \in [DOMAIN due -> Int]

\* s lists every element of T once, and nothing else.
Lists(s, T) ==
    /\ Len(s) > 0
    /\ \A i \in 1..Len(s) : s[i] \in T
    /\ \A x \in T : \E i \in 1..Len(s) : s[i] = x
    /\ \A i, j \in 1..Len(s) : s[i] = s[j] => i = j

\* The run queue and the table never disagree: every process of the table is
\* queued exactly once and nothing else is, whatever swap_remove_back moves
\* (every unwrap() on a lookup in scheduling.rs relies on it).
QueueMatchesTable == Lists(order, DOMAIN processes)

\* pids are handed out in increasing order, so that no pid is used twice and
\* nobody is its own ancestor (push asserts that insert found nothing).
PidsAreFresh ==
    \A p \in DOMAIN processes :
        p < next_free_pid /\ processes[p].ppid < p

\* Fork, exec and reap neither share an address space between two processes,
\* nor free one that a process in the table still has, nor leak one.
SpacesMatchTable ==
    /\ \A p \in DOMAIN processes : processes[p].root \in DOMAIN spaces
    /\ \A r \in DOMAIN spaces : \E p \in DOMAIN processes : processes[p].root = r
    /\ \A p, q \in DOMAIN processes :
            processes[p].root = processes[q].root => p = q

\* User code only runs as a process that is not blocked and not a zombie,
\* inside its own address space, with interrupts enabled and the queue
\* unlocked, so that the next timer interrupt can switch it out.
UserRunsInItsOwnSpace ==
    mode = "user" =>
        /\ current.waiting.kind = "None"
        /\ cr3 = current.root
        /\ image = spaces[cr3].image
        /\ intr /\ ~locked

\* The registers a process will resume with belong to the program loaded in
\* its address space: exec must not let the old registers be saved over the
\* new program's.
ContextMatchesSpace ==
    \A p \in DOMAIN processes :
        processes[p].paused = spaces[processes[p].root].image

\* Every answer the kernel stored through a user pointer (fork's two answers,
\* the length of a read, the exit code of a collected child) is found in the
\* address space of the process it was owed to, and in no other.
AnswersReachCaller ==
    \A p \in DOMAIN processes : spaces[processes[p].root].result = due[p]

\* run_next_task never spins with interrupts disabled: then some process can
\* run, since no interrupt could ever make one runnable.
NoDeafSpin ==
    mode = "sched" /\ ~intr =>
        \E p \in DOMAIN processes : processes[p].waiting.kind = "None"

\* queue() is try_lock().unwrap(): nobody ever asks for the lock while it is
\* held, although interrupts arrive in the middle of run_next_task.
LockNeverContended == mode # "locked"

\* scheduling.rs: queue and table agree, and processes have address spaces of
\* their own, through every fork, exec, exit and reap.
TableConsistent == QueueMatchesTable /\ SpacesMatchTable

\* scheduling.rs, lowlevel.asm: whoever runs, or will, has its own registers in
\* its own address space and can be switched out.
RunsAsItself == UserRunsInItsOwnSpace /\ ContextMatchesSpace

\* scheduling.rs: the loop of run_next_task neither spins deaf nor meets its own
\* lock.
LoopStaysAlive == NoDeafSpin /\ LockNeverContended

\* The inductive invariant the proofs use: all of the above, and the queue is
\* locked whenever the scheduling loop runs.
IInv ==
    /\ TypeOK /\ QueueMatchesTable /\ PidsAreFresh /\ SpacesMatchTable
    /\ UserRunsInItsOwnSpace /\ ContextMatchesSpace /\ AnswersReachCaller
    /\ NoDeafSpin /\ LockNeverContended
    /\ mode = "sched" => locked

\* Where each process that waited in the queue, and is still there, stands after
\* a step: no further from the head.
KeepsPlaces ==
    \A i \in 2..Len(order) :
        order[i] \in DOMAIN processes' =>
            \E j \in 1..i : j \in DOMAIN order' /\ order'[j] = order[i]

\* Round robin: a process that waits in the queue only ever moves towards the
\* head, also when swap_remove_back reorders the queue.
NoOvertaking == [][KeepsPlaces]_order

Runnable(p) == p \in DOMAIN processes /\ processes[p].waiting.kind = "None"

\* A process that can run gets the processor, unless the kernel halts.
RunnableRuns ==
    \A p \in 1..MaxPid :
        Runnable(p) ~> (mode \in Panics \/ (mode = "user" /\ current_pid = p))

HasZombie(p) ==
    /\ p \in DOMAIN processes
    /\ processes[p].waiting.kind = "WaitingChild"
    /\ Collectable(p) # {}

\* A parent blocked in wait whose zombie child its wait accepts gets to run
\* again, unless the kernel halts.
WaitReturns ==
    \A p \in 1..MaxPid : HasZombie(p) ~> (mode \in Panics \/ Runnable(p))

\* The table implements the life cycle programs rely on.
StatusOf(p) ==
    CASE p \in DOMAIN processes ->
            (CASE processes[p].waiting.kind = "None" -> "running"
               [] processes[p].waiting.kind = "AmZombie" -> "zombie"
               [] OTHER -> "blocked")
      [] p \notin DOMAIN processes /\ p < next_free_pid -> "gone"
      [] OTHER -> "unborn"

ParentOf(p) == IF p \in DOMAIN processes THEN processes[p].ppid ELSE 0

life_status == [p \in 1..MaxPid |-> StatusOf(p)]

life_parent == [p \in 1..MaxPid |-> ParentOf(p)]

Lifecycle == INSTANCE ProcessLifecycle WITH
    Pids <- 1..MaxPid, status <- life_status, parent <- life_parent

\* Pids are only handed out up to the bound.
PidsInBound == next_free_pid <= MaxPid + 1

\* Only a running process forks, blocks or exits, and only the parent blocked
\* in wait removes a process, which is then a zombie.
ImplementsLifecycle == Lifecycle!Spec

=============================================================================
