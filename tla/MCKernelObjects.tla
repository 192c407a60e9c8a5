--------------------------- MODULE MCKernelObjects ---------------------------
(***************************************************************************)
(* The instance that is model-checked of three parts that share no state:  *)
(* a pipe, the physical page allocator and a program's heap.  Each is      *)
(* explored by itself, the other two staying as they begin.                *)
(***************************************************************************)
EXTENDS Pipe, PhysPages, Malloc

VARIABLE subject   \* the part that is explored

Parts == {"pipe", "pages", "heap"}

all == <<subject, pipeVars, pagesVars, vars>>

\* The parts that are not explored begin in one of their initial states.
InitAll ==
    /\ subject \in Parts
    /\ PipeInit /\ PagesInit /\ Init
    /\ subject # "pages" => region.length = 7
    /\ subject # "heap" => limit = 1

Of(part) ==
    /\ subject = part
    /\ part # "pipe" => UNCHANGED pipeVars
    /\ part # "pages" => UNCHANGED pagesVars
    /\ part # "heap" => UNCHANGED vars
    /\ UNCHANGED subject

\* The allocator goes on with a call it has begun.
GoesOn == (Coalesce \/ TakeFit \/ Advance \/ Expand) /\ Of("heap")

NextAll ==
    \/ PipeNext /\ Of("pipe")
    \/ PagesNext /\ Of("pages")
    \/ Next /\ Of("heap")

SpecAll == InitAll /\ [][NextAll]_all /\ WF_all(GoesOn)
=============================================================================
