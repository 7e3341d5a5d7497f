---------------------------- MODULE MCVaddrPool ----------------------------
(* One bitmap byte and runs of up to three pages: every arrangement of     *)
(* free and used pages of the byte is reachable, including a free tail    *)
(* shorter than the run asked for.                                         *)
EXTENDS VaddrPool
=============================================================================
