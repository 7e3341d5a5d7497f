------------------------------- MODULE Bitmap -------------------------------
(***************************************************************************)
(* The bit vector of lib/kernel/bitmap.c as operators.  A bitmap of n bits *)
(* (btmp_bytes_len * 8) is a function from 0..n-1 to {0, 1}; the memory   *)
(* right after it is the bit n of the same function, because bitmap_scan  *)
(* reads it and bitmap_set writes it when asked to.                        *)
(***************************************************************************)
EXTENDS Integers

(* bitmap_scan returns -1 for "no run"; ASSERT failing in it halts the     *)
(* kernel, which the model records as this result.                         *)
ScanFail == -1
ScanPanic == -2

(* bitmap_scan_test(btmp, bit_idx).                                        *)
BitmapScanTest(bits, i) == bits[i] = 1

(* The first loop of bitmap_scan skips bytes equal to 0xff and then the    *)
(* set bits of the first byte that is not: together, the index of the      *)
(* first clear bit, or n when every byte is full (and the ASSERT fails).   *)
FirstClear(bits, n) ==
    IF \E i \in 0..n-1 : bits[i] = 0
       THEN CHOOSE i \in 0..n-1 : bits[i] = 0 /\ \A j \in 0..i-1 : bits[j] = 1
       ELSE n

(* Mutant: the counting loop restarts the count at 1 instead of 0 after a *)
(* set bit.                                                                *)
RECURSIVE ScanRunResetOne(_, _, _, _, _)
ScanRunResetOne(bits, next_bit, bit_left, count, cnt) ==
    IF bit_left = 0 THEN ScanFail
    ELSE LET c == IF ~BitmapScanTest(bits, next_bit) THEN count + 1 ELSE 1
         IN IF c = cnt THEN next_bit - cnt + 1
            ELSE ScanRunResetOne(bits, next_bit + 1, bit_left - 1, c, cnt)

(* The counting loop of bitmap_scan: it runs bit_left more times, testing *)
(* next_bit and restarting the count at every set bit.                     *)
RECURSIVE ScanRun(_, _, _, _, _)
ScanRun(bits, next_bit, bit_left, count, cnt) ==
    IF bit_left = 0 THEN ScanFail
    ELSE LET c == IF ~BitmapScanTest(bits, next_bit) THEN count + 1 ELSE 0
         IN IF c = cnt THEN next_bit - cnt + 1
            ELSE ScanRun(bits, next_bit + 1, bit_left - 1, c, cnt)

(* Mutant: bitmap_scan built with NDEBUG, so the ASSERT that a clear bit  *)
(* was found is gone.                                                      *)
BitmapScanNoAssert(bits, n, cnt) ==
    LET start == FirstClear(bits, n)
        bit_left == n - start
    IN IF cnt = 1 THEN start
       ELSE IF bit_left < cnt - 1 THEN ScanFail
       ELSE ScanRun(bits, start + 1, bit_left, 1, cnt)

(* bitmap_scan(btmp, cnt) on a bitmap of n bits.                           *)
BitmapScan(bits, n, cnt) ==
    LET start == FirstClear(bits, n)
        bit_left == n - start
    IN IF start = n THEN ScanPanic
       ELSE IF cnt = 1 THEN start
       ELSE IF bit_left < cnt - 1 THEN ScanFail
       ELSE ScanRun(bits, start + 1, bit_left, 1, cnt)

(* bitmap_set(btmp, bit_idx, value) for the bits s..s+k-1, as the loops of *)
(* vaddr_get and vaddr_remove call it.                                     *)
BitmapSetRange(bits, s, k, v) ==
    [i \in DOMAIN bits |-> IF i \in s..s+k-1 THEN v ELSE bits[i]]

(* The reference: the lowest index of a run of cnt clear bits that lies   *)
(* inside the bitmap, or ScanFail when there is none.                      *)
FirstFit(bits, n, cnt) ==
    LET fits == {s \in 0..n-cnt : \A j \in s..s+cnt-1 : bits[j] = 0}
    IN IF fits = {} THEN ScanFail
       ELSE CHOOSE s \in fits : \A u \in fits : s <= u

=============================================================================
