------------------------ MODULE MCFileMutationQueue ------------------------
(* A model-checking instance of FileMutationQueue.  The calls are finite, so *)
(* the queue comes to rest: deadlock is not checked.                         *)
EXTENDS FileMutationQueue

CONSTANTS plain, link

\* The path link goes through a symbolic link to the directory of plain.
Aliased == [p \in Paths |-> IF p = link THEN plain ELSE p]
=============================================================================
