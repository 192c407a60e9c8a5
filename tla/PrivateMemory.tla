---------------------------- MODULE PrivateMemory ----------------------------
(***************************************************************************)
(* What stuos/src/memory.c promises to programs: every address space is    *)
(* its own.  A store changes one page of one space, a clone is an          *)
(* independent copy with the same permissions, and removing a space        *)
(* changes no other.  What is in a page nobody has stored to is left open. *)
(***************************************************************************)
EXTENDS Integers

CONSTANTS Pages, Contents

VARIABLES
    mem,           \* mem[s][a] = [data, exec] for the mapped pages a of s
    op             \* how the last step made a space

vars == <<mem, op>>

Mapped == UNION {[P -> [data : Contents, exec : BOOLEAN]] : P \in SUBSET Pages}

Init == mem = [s \in {} |-> <<>>] /\ op = "other"

\* Only space s differs from before.
Only(s) == \A t \in (DOMAIN mem \cup DOMAIN mem') \ {s} :
              t \in DOMAIN mem /\ t \in DOMAIN mem' /\ mem'[t] = mem[t]

Load(s) ==
    /\ op' = "load"
    /\ s \notin DOMAIN mem /\ s \in DOMAIN mem' /\ mem'[s] \in Mapped /\ Only(s)

Clone(s, t) ==
    /\ op' = "clone"
    /\ s \in DOMAIN mem /\ t \notin DOMAIN mem
    /\ t \in DOMAIN mem' /\ mem'[t] = mem[s] /\ Only(t)

Store(s) ==
    /\ op' = "other"
    /\ s \in DOMAIN mem /\ s \in DOMAIN mem' /\ Only(s)
    /\ \E a \in DOMAIN mem[s] :
          \E d \in Contents : mem'[s] = [mem[s] EXCEPT ![a].data = d]

\* One more page, not executable.  memory.h:25 promises that it is zeroed, which the
\* code does not keep; that is stated apart (NewPagesZeroed of VirtualMemory), and
\* here the page may hold anything.
Request(s) ==
    /\ op' = "other"
    /\ s \in DOMAIN mem /\ s \in DOMAIN mem' /\ Only(s)
    /\ \E a \in Pages \ DOMAIN mem[s] :
          /\ DOMAIN mem'[s] = DOMAIN mem[s] \cup {a}
          /\ mem'[s][a].data \in Contents /\ ~mem'[s][a].exec
          /\ \A b \in DOMAIN mem[s] : mem'[s][b] = mem[s][b]

Remove(s) == op' = "other" /\ s \in DOMAIN mem /\ s \notin DOMAIN mem' /\ Only(s)

\* The kernel did something that no program can see.
Invisible == UNCHANGED mem

Next ==
    \/ Invisible
    \/ \E s \in DOMAIN mem' : Load(s)
    \/ \E s \in DOMAIN mem, t \in DOMAIN mem' : Clone(s, t)
    \/ \E s \in DOMAIN mem : Store(s) \/ Request(s) \/ Remove(s)

Spec == Init /\ [][Next]_vars
=============================================================================
