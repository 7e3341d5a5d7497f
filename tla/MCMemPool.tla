----------------------------- MODULE MCMemPool -----------------------------
EXTENDS MemPool

(* Every whole number of MB from 3MB to 512MB, and each plus 4095 bytes.  *)
MCMemSizes == {m * 1048576 + r : m \in 3..512, r \in {0, 4095}}
=============================================================================
