-------------------------- MODULE ProcessLifecycle --------------------------
(***************************************************************************)
(* What the process table of the kernel promises to user programs, without *)
(* the run queue, the address spaces or the processor: a pid is born once, *)
(* by a fork of a running process, alternates between running and blocked, *)
(* exits once, and disappears only when the parent that is blocked in wait *)
(* collects it.  Scheduler implements this specification.                  *)
(***************************************************************************)
EXTENDS Integers

CONSTANT Pids          \* the pids the table may hand out, 1..n

VARIABLES
    status,            \* status[p]: where pid p is in its life
    parent             \* parent[p]: the pid that forked p; 0 without one

lifecycleVars == <<status, parent>>

Statuses == {"unborn", "running", "blocked", "zombie", "gone"}

\* The boot process has pid 1 and no parent.
Init ==
    /\ status = [p \in Pids |-> IF p = 1 THEN "running" ELSE "unborn"]
    /\ parent = [p \in Pids |-> 0]

Fork(p, c) ==
    /\ status[p] = "running" /\ status[c] = "unborn"
    /\ status' = [status EXCEPT ![c] = "running"]
    /\ parent' = [parent EXCEPT ![c] = p]

Block(p) ==
    /\ status[p] = "running"
    /\ status' = [status EXCEPT ![p] = "blocked"]
    /\ UNCHANGED parent

Unblock(p) ==
    /\ status[p] = "blocked"
    /\ status' = [status EXCEPT ![p] = "running"]
    /\ UNCHANGED parent

Exit(p) ==
    /\ status[p] = "running"
    /\ status' = [status EXCEPT ![p] = "zombie"]
    /\ UNCHANGED parent

\* One step: the blocked parent wakes exactly as its zombie child vanishes.
Reap(p, c) ==
    /\ status[p] = "blocked" /\ status[c] = "zombie" /\ parent[c] = p
    /\ status' = [status EXCEPT ![p] = "running", ![c] = "gone"]
    /\ parent' = [parent EXCEPT ![c] = 0]

Next ==
    \E p \in Pids :
        \/ Block(p) \/ Unblock(p) \/ Exit(p)
        \/ \E c \in Pids : Fork(p, c) \/ Reap(p, c)

Spec == Init /\ [][Next]_lifecycleVars
=============================================================================
