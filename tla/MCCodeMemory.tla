---------------------------- MODULE MCCodeMemory ----------------------------
(* CodeMemory with pages of eight instructions: an application of two pages  *)
(* of code between pages of data, and jobs whose blocks and patches end at,  *)
(* before and behind the boundaries of pages and of what is in reach.        *)
EXTENDS CodeMemory, TLC

CONSTANTS t1, t2

W(kind, size, pos, far) ==
    [kind |-> kind, size |-> size, long |-> 5, pos |-> pos, far |-> far]
MCJobs ==
    {W("build", 6, 41, FALSE),
     W("forward", 3, 33, TRUE),    \* three instructions of page 2 are in reach
     W("forward", 3, 41, FALSE),   \* three instructions of page 3 are in reach
     W("patch", 3, 45, FALSE)}     \* ends at the boundary to data
Symmetry == Permutations(Threads)
=============================================================================
