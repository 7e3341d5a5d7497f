------------------------------- MODULE MCHeap -------------------------------
EXTENDS Heap, TLC

CONSTANTS h1, h2, h3, h4, h5

(* One more task than the 8 pages hold two-page arenas for.               *)
MCTasks == {h1, h2, h3, h4, h5}
(* The tasks run the same program: any permutation of them is a symmetry. *)
MCSymmetry == Permutations(MCTasks)
(* 1024 is the block size of the largest class (3 blocks per arena) and   *)
(* the largest size served from arenas; 4085 + 12 needs two pages.        *)
MCSizes == {1024, 4085}
=============================================================================
