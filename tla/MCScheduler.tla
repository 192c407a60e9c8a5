---------------------------- MODULE MCScheduler -----------------------------
(* Instances of Scheduler for TLC.  Frames are interchangeable.            *)
EXTENDS Scheduler, TLC

CONSTANTS f1, f2, f3, f4, kernelFrame, shell, tool

Frames == {f1, f2, f3, f4}
FewFrames == {f1, f2, f3}
Tools == {tool}
OnlyInit == {shell}
Codes == {42}
AnyChild == {-1}
OwnGroup == {0}

FrameSymmetry == Permutations(Frames)
=============================================================================
