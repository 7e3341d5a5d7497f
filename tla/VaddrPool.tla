------------------------------ MODULE VaddrPool ------------------------------
(***************************************************************************)
(* A virtual address pool of kernel/memory.c (kernel_vaddr, or a user      *)
(* process's userprog_vaddr): vaddr_get reserves a run of pages with       *)
(* bitmap_scan and bitmap_set, vaddr_remove clears it again.  Addresses    *)
(* are page indexes from vaddr_start.  bits[NBits] is the byte after the   *)
(* bitmap, which bitmap_init does not clear.                               *)
(***************************************************************************)
EXTENDS Bitmap, FiniteSets

CONSTANTS
    NBits,    \* btmp_bytes_len * 8
    MaxCnt    \* largest pg_cnt asked for

ASSUME NBits \in Nat \ {0} /\ MaxCnt \in 1..NBits

VARIABLES
    bits,     \* vaddr_bitmap.bits, and the bit after it
    allocs,   \* the runs <<start, pg_cnt>> handed out and not yet removed
    halted    \* a failed ASSERT has stopped the kernel in panic_spin

vars == <<bits, allocs, halted>>

Runs == (0..NBits-1) \X (1..MaxCnt)

(* bitmap_init cleared the bitmap's bytes; the memory after it holds      *)
(* whatever was there.                                                     *)
Init ==
    /\ \E b \in {0, 1} : bits = [i \in 0..NBits |-> IF i = NBits THEN b ELSE 0]
    /\ allocs = {}
    /\ halted = FALSE

(* vaddr_get(pf, pg_cnt): scan; -1 gives NULL and changes nothing, a       *)
(* found run has its pg_cnt bits set one by one.                           *)
VaddrGet(pg_cnt) ==
    /\ ~halted
    /\ LET bit_idx_start == BitmapScan(bits, NBits, pg_cnt) IN
       CASE bit_idx_start = ScanPanic -> halted' = TRUE /\ UNCHANGED <<bits, allocs>>
         [] bit_idx_start = ScanFail  -> UNCHANGED vars
         [] OTHER ->
              /\ bits' = BitmapSetRange(bits, bit_idx_start, pg_cnt, 1)
              /\ allocs' = allocs \cup {<<bit_idx_start, pg_cnt>>}
              /\ UNCHANGED halted

(* vaddr_remove(pf, vaddr, pg_cnt) of a run that vaddr_get handed out.    *)
VaddrRemove(r) ==
    /\ ~halted
    /\ bits' = BitmapSetRange(bits, r[1], r[2], 0)
    /\ allocs' = allocs \ {r}
    /\ UNCHANGED halted

(* panic_spin: the kernel halts with interrupts off and spins.            *)
PanicSpin == halted /\ UNCHANGED vars

Next ==
    \/ \E n \in 1..MaxCnt : VaddrGet(n)
    \/ \E r \in allocs : VaddrRemove(r)
    \/ PanicSpin

Spec == Init /\ [][Next]_vars

-----------------------------------------------------------------------------
TypeOK ==
    /\ bits \in [0..NBits -> {0, 1}]
    /\ allocs \subseteq Runs
    /\ halted \in BOOLEAN

(* bitmap_scan on any bitmap the pool reaches, for every count, returns    *)
(* the lowest run of clear bits inside the bitmap, or -1 when there is    *)
(* none, unless it halts on a full bitmap or the run it returns reaches  *)
(* past the end (the case RunsInsideBitmap is about).                      *)
ScanAgreesWithFirstFit ==
    \A cnt \in 1..MaxCnt :
        LET r == BitmapScan(bits, NBits, cnt) IN
        r # ScanPanic =>
            \/ r = FirstFit(bits, NBits, cnt)
            \/ r >= 0 /\ r + cnt > NBits

(* spec.md 8: after scan(k) returns s, the bits s..s+k-1 were clear and    *)
(* are set: every run vaddr_get hands out lies inside the bitmap.          *)
RunsInsideBitmap == \A r \in allocs : r[1] + r[2] <= NBits

=============================================================================
