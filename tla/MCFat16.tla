------------------------------- MODULE MCFat16 -------------------------------
(***************************************************************************)
(* Three names, enough to fill the root directory.  One is long enough for *)
(* two long-file-name entries; the other two are interchangeable.          *)
(***************************************************************************)
EXTENDS Fat16, TLC

CONSTANTS short, brief, long

MCNames == {short, brief, long}

MCLfnCount == [n \in MCNames |-> IF n = long THEN 2 ELSE 1]

NameSymmetry == Permutations({short, brief})
=============================================================================
