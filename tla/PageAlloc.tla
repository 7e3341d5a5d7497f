------------------------------ MODULE PageAlloc ------------------------------
(***************************************************************************)
(* The kernel page allocator of kernel/memory.c: the kernel virtual pool   *)
(* (kernel_vaddr), the kernel physical pool (kernel_pool) and the page     *)
(* table entries of the kernel heap, used by tasks that run with           *)
(* interrupts on and can be preempted between any two steps.               *)
(*                                                                         *)
(*   Mallocers call sys_malloc for more than 1024 bytes, which takes       *)
(*   kernel_pool.lock around malloc_page, and later sys_free, which takes  *)
(*   it around mfree_page.                                                 *)
(*   Creators call get_kernel_pages(1), as thread_start does for a TCB,    *)
(*   which calls malloc_page without any lock.                             *)
(*                                                                         *)
(* A step is one bitmap_scan, one bitmap_set loop, one page_table_add or   *)
(* one page freed: the points between them are where the timer can         *)
(* preempt the caller.  The lock is taken in one step when it is free and  *)
(* waited for otherwise, as ThreadSync shows lock_acquire does.            *)
(*                                                                         *)
(* Kernel heap addresses all lie under page directory entries the loader   *)
(* creates (mem_pool_init's comment: entries 769 to 1022 point to page     *)
(* tables), so page_table_add always takes its "pde present" branch here.  *)
(***************************************************************************)
EXTENDS Bitmap, FiniteSets

CONSTANTS
    Mallocers,      \* tasks calling sys_malloc / sys_free
    Creators,       \* tasks calling get_kernel_pages(1)
    NV,             \* bits of kernel_vaddr.vaddr_bitmap
    NP,             \* bits of kernel_pool.pool_bitmap
    MaxCnt,         \* largest page count a sys_malloc asks for
    NULL

ASSUME Mallocers \cap Creators = {} /\ NULL \notin Mallocers \cup Creators
ASSUME NV \in Nat \ {0} /\ NP \in Nat \ {0} /\ MaxCnt \in 1..NP

Tasks == Mallocers \cup Creators

(* Virtual heap pages: bit NV of vbits is the first bit of the memory after *)
(* the bitmap, which bitmap_scan may hand out (see Bitmap).                *)
VPages == 0..NV
Frames == 0..NP-1
(* A PTE whose present bit is clear.  page_table_pte_remove clears only   *)
(* that bit, so addr_v2p of such a page still reads the frame bits it had  *)
(* (or 0, below the kernel pool, if it was never mapped); the model        *)
(* forgets them and lets that read return any frame or NotPool.            *)
NoFrame == -1
NotPool == -2

VARIABLES
    vbits,      \* kernel_vaddr.vaddr_bitmap, and the bit after it
    pbits,      \* kernel_pool.pool_bitmap
    pte,        \* pte[v]: the frame the heap page v maps, or NoFrame
    lock,       \* kernel_pool.lock.holder
    pc,         \* where each task is
    cnt,        \* pg_cnt of the task's malloc_page / mfree_page
    vstart,     \* the bit_idx_start vaddr_get returned
    idx,        \* pages of the run mapped or freed so far
    frame,      \* the frame palloc found
    halted      \* a PANIC / failed ASSERT stopped the kernel

vars == <<vbits, pbits, pte, lock, pc, cnt, vstart, idx, frame, halted>>

Pcs == {"idle", "m_lock", "v_scan", "v_set", "p_scan", "p_set", "map",
        "own", "f_lock", "f_page", "f_vremove"}

(* The pages of a task's run.                                              *)
Region(t) == vstart[t] .. vstart[t] + cnt[t] - 1

(* A task whose run is set in vbits, from vaddr_get's bitmap_set loop to  *)
(* vaddr_remove.                                                           *)
HoldsVaddr == {"p_scan", "p_set", "map", "own", "f_lock", "f_page", "f_vremove"}

(* mem_pool_init: both bitmaps cleared, locks free.  The bit after the     *)
(* virtual bitmap belongs to memory mem_pool_init does not clear.          *)
Init ==
    /\ vbits \in {[i \in VPages |-> IF i < NV THEN 0 ELSE b] : b \in {0, 1}}
    /\ pbits = [f \in Frames |-> 0]
    /\ pte = [v \in VPages |-> NoFrame]
    /\ lock = NULL
    /\ pc = [t \in Tasks |-> "idle"]
    /\ cnt = [t \in Tasks |-> 1]
    /\ vstart = [t \in Tasks |-> 0]
    /\ idx = [t \in Tasks |-> 0]
    /\ frame = [t \in Tasks |-> 0]
    /\ halted = FALSE

Panic == halted' = TRUE /\ UNCHANGED <<vbits, pbits, pte, lock, pc, cnt, vstart, idx, frame>>

(* sys_malloc(size) with 1024 < size < pool_size: page_cnt pages.          *)
SysMalloc(t, c) ==
    /\ t \in Mallocers /\ pc[t] = "idle"
    /\ pc' = [pc EXCEPT ![t] = "m_lock"]
    /\ cnt' = [cnt EXCEPT ![t] = c]
    /\ UNCHANGED <<vbits, pbits, pte, lock, vstart, idx, frame, halted>>

(* thread_start: get_kernel_pages(1) goes straight into malloc_page.       *)
GetKernelPages(t) ==
    /\ t \in Creators /\ pc[t] = "idle"
    /\ pc' = [pc EXCEPT ![t] = "v_scan"]
    /\ cnt' = [cnt EXCEPT ![t] = 1]
    /\ UNCHANGED <<vbits, pbits, pte, lock, vstart, idx, frame, halted>>

(* lock_acquire(&kernel_pool.lock) in sys_malloc and in sys_free.          *)
LockAcquire(t) ==
    /\ pc[t] \in {"m_lock", "f_lock"} /\ lock = NULL
    /\ lock' = t
    /\ pc' = [pc EXCEPT ![t] = IF pc[t] = "m_lock" THEN "v_scan" ELSE "f_page"]
    /\ idx' = [idx EXCEPT ![t] = 0]
    /\ UNCHANGED <<vbits, pbits, pte, cnt, vstart, frame, halted>>

(* The lock after malloc_page returns, released only by the sys_malloc     *)
(* that took it.                                                           *)
Released(t) == IF lock = t THEN NULL ELSE lock

(* vaddr_get(PF_KERNEL): bitmap_scan; on -1 malloc_page returns NULL, and   *)
(* sys_malloc releases the lock and returns NULL.                          *)
VaddrScan(t) ==
    /\ pc[t] = "v_scan"
    /\ LET r == BitmapScan(vbits, NV, cnt[t])
       IN CASE r = ScanPanic -> Panic
            [] r = ScanFail ->
                 /\ lock' = Released(t)
                 /\ pc' = [pc EXCEPT ![t] = "idle"]
                 /\ cnt' = [cnt EXCEPT ![t] = 1]
                 /\ UNCHANGED <<vbits, pbits, pte, vstart, idx, frame, halted>>
            [] OTHER ->
                 /\ vstart' = [vstart EXCEPT ![t] = r]
                 /\ pc' = [pc EXCEPT ![t] = "v_set"]
                 /\ UNCHANGED <<vbits, pbits, pte, lock, cnt, idx, frame, halted>>

(* vaddr_get's bitmap_set loop, then malloc_page's page loop begins.       *)
VaddrSet(t) ==
    /\ pc[t] = "v_set"
    /\ vbits' = BitmapSetRange(vbits, vstart[t], cnt[t], 1)
    /\ idx' = [idx EXCEPT ![t] = 0]
    /\ pc' = [pc EXCEPT ![t] = "p_scan"]
    /\ UNCHANGED <<pbits, pte, lock, cnt, vstart, frame, halted>>

(* Mutant: palloc in a build with NDEBUG, where bitmap_scan of a full pool *)
(* returns the first bit after it instead of failing its ASSERT.           *)
PallocScanNoAssert(t) ==
    /\ pc[t] = "p_scan"
    /\ frame' = [frame EXCEPT ![t] = BitmapScanNoAssert(pbits, NP, 1)]
    /\ pc' = [pc EXCEPT ![t] = "p_set"]
    /\ UNCHANGED <<vbits, pbits, pte, lock, cnt, vstart, idx, halted>>

(* palloc: bitmap_scan(&pool_bitmap, 1).  Its NULL return needs a scan     *)
(* result of -1, which a scan for one bit never gives: a full pool fails    *)
(* the ASSERT instead.                                                     *)
PallocScan(t) ==
    /\ pc[t] = "p_scan"
    /\ LET r == BitmapScan(pbits, NP, 1)
       IN IF r = ScanPanic THEN Panic
          ELSE /\ frame' = [frame EXCEPT ![t] = r]
               /\ pc' = [pc EXCEPT ![t] = "p_set"]
               /\ UNCHANGED <<vbits, pbits, pte, lock, cnt, vstart, idx, halted>>

(* Mutant: palloc forgets to mark the frame it found.                      *)
PallocSetDropped(t) ==
    /\ pc[t] = "p_set"
    /\ pc' = [pc EXCEPT ![t] = "map"]
    /\ UNCHANGED <<vbits, pbits, pte, lock, cnt, vstart, idx, frame, halted>>

(* palloc: bitmap_set(&pool_bitmap, bit_idx, 1).                           *)
PallocSet(t) ==
    /\ pc[t] = "p_set"
    /\ pbits' = [pbits EXCEPT ![frame[t]] = 1]
    /\ pc' = [pc EXCEPT ![t] = "map"]
    /\ UNCHANGED <<vbits, pte, lock, cnt, vstart, idx, frame, halted>>

(* page_table_add(vaddr, page_phyaddr), then vaddr += PG_SIZE; after the   *)
(* last page malloc_page returns and sys_malloc releases the lock.         *)
PageTableAdd(t) ==
    /\ pc[t] = "map"
    /\ LET v == vstart[t] + idx[t]
       IN IF pte[v] # NoFrame THEN Panic
          ELSE /\ pte' = [pte EXCEPT ![v] = frame[t]]
               /\ idx' = [idx EXCEPT ![t] = IF idx[t] + 1 = cnt[t] THEN 0 ELSE idx[t] + 1]
               /\ IF idx[t] + 1 = cnt[t]
                     THEN pc' = [pc EXCEPT ![t] = "own"] /\ lock' = Released(t)
                     ELSE pc' = [pc EXCEPT ![t] = "p_scan"] /\ UNCHANGED lock
               /\ frame' = [frame EXCEPT ![t] = 0]
               /\ UNCHANGED <<vbits, pbits, cnt, vstart, halted>>

(* sys_free of a large block: the arena header says cnt pages.            *)
SysFree(t) ==
    /\ t \in Mallocers /\ pc[t] = "own"
    /\ pc' = [pc EXCEPT ![t] = "f_lock"]
    /\ UNCHANGED <<vbits, pbits, pte, lock, cnt, vstart, idx, frame, halted>>

(* Mutant: mfree_page without page_table_pte_remove.                       *)
MfreePageKeepPte(t) ==
    /\ pc[t] = "f_page"
    /\ LET v == vstart[t] + idx[t] IN
       \E f \in IF pte[v] = NoFrame THEN Frames \cup {NotPool} ELSE {pte[v]} :
          IF f = NotPool THEN Panic
          ELSE /\ pbits' = [pbits EXCEPT ![f] = 0]
               /\ idx' = [idx EXCEPT ![t] = IF idx[t] + 1 = cnt[t] THEN 0 ELSE idx[t] + 1]
               /\ pc' = [pc EXCEPT ![t] = IF idx[t] + 1 = cnt[t] THEN "f_vremove" ELSE "f_page"]
               /\ UNCHANGED <<vbits, pte, lock, cnt, vstart, frame, halted>>

(* One turn of mfree_page's kernel loop: addr_v2p, the ASSERT that the     *)
(* frame is in the kernel pool, pfree and page_table_pte_remove.           *)
MfreePage(t) ==
    /\ pc[t] = "f_page"
    /\ LET v == vstart[t] + idx[t] IN
       \E f \in IF pte[v] = NoFrame THEN Frames \cup {NotPool} ELSE {pte[v]} :
          IF f = NotPool THEN Panic
          ELSE /\ pbits' = [pbits EXCEPT ![f] = 0]
               /\ pte' = [pte EXCEPT ![v] = NoFrame]
               /\ idx' = [idx EXCEPT ![t] = IF idx[t] + 1 = cnt[t] THEN 0 ELSE idx[t] + 1]
               /\ pc' = [pc EXCEPT ![t] = IF idx[t] + 1 = cnt[t] THEN "f_vremove" ELSE "f_page"]
               /\ UNCHANGED <<vbits, lock, cnt, vstart, frame, halted>>

(* Mutant: vaddr_remove's loop stops one page short.                       *)
VaddrRemoveShort(t) ==
    /\ pc[t] = "f_vremove"
    /\ vbits' = BitmapSetRange(vbits, vstart[t], cnt[t] - 1, 0)
    /\ lock' = NULL
    /\ pc' = [pc EXCEPT ![t] = "idle"]
    /\ cnt' = [cnt EXCEPT ![t] = 1]
    /\ vstart' = [vstart EXCEPT ![t] = 0]
    /\ UNCHANGED <<pbits, pte, idx, frame, halted>>

(* vaddr_remove, then sys_free's lock_release.                             *)
VaddrRemove(t) ==
    /\ pc[t] = "f_vremove"
    /\ vbits' = BitmapSetRange(vbits, vstart[t], cnt[t], 0)
    /\ lock' = NULL
    /\ pc' = [pc EXCEPT ![t] = "idle"]
    /\ cnt' = [cnt EXCEPT ![t] = 1]
    /\ vstart' = [vstart EXCEPT ![t] = 0]
    /\ UNCHANGED <<pbits, pte, idx, frame, halted>>

(* After PANIC the kernel spins with interrupts off.                        *)
PanicSpin == halted /\ UNCHANGED vars

Step(t) ==
    /\ ~halted
    /\ \/ \E c \in 1..MaxCnt : SysMalloc(t, c)
       \/ GetKernelPages(t)
       \/ LockAcquire(t)
       \/ VaddrScan(t)
       \/ VaddrSet(t)
       \/ PallocScan(t)
       \/ PallocSet(t)
       \/ PageTableAdd(t)
       \/ SysFree(t)
       \/ MfreePage(t)
       \/ VaddrRemove(t)

Next == PanicSpin \/ \E t \in Tasks : Step(t)

Spec == Init /\ [][Next]_vars

-----------------------------------------------------------------------------

TypeOK ==
    /\ vbits \in [VPages -> {0, 1}]
    /\ pbits \in [Frames -> {0, 1}]
    /\ pte \in [VPages -> Frames \cup {NoFrame}]
    /\ lock \in Tasks \cup {NULL}
    /\ pc \in [Tasks -> Pcs]
    /\ cnt \in [Tasks -> 1..MaxCnt]
    /\ vstart \in [Tasks -> VPages]
    /\ idx \in [Tasks -> 0..MaxCnt]
    /\ frame \in [Tasks -> Frames]
    /\ halted \in BOOLEAN

(* The page tables agree with both bitmaps: a present heap PTE has its     *)
(* virtual bit and its frame's bit set, and no frame is mapped at two      *)
(* virtual pages.  Broken if a frame is handed out twice by palloc, or if  *)
(* mfree_page leaves a PTE present after pfree / vaddr_remove.             *)
PageTableConsistent ==
    \A v \in VPages : pte[v] # NoFrame =>
        /\ vbits[v] = 1
        /\ pbits[pte[v]] = 1
        /\ \A w \in VPages \ {v} : pte[w] # pte[v]

(* Nothing leaks: every set bit of the kernel pool belongs to a present    *)
(* PTE or to a palloc whose page_table_add is still to come, and every set *)
(* bit of the virtual pool lies in the run of a task between vaddr_get and *)
(* vaddr_remove (or is the untouched bit after the bitmap).                *)
BitsAccounted ==
    /\ \A f \in Frames : pbits[f] = 1 =>
           \/ \E v \in VPages : pte[v] = f
           \/ \E t \in Tasks : pc[t] = "map" /\ frame[t] = f
    /\ \A v \in VPages : vbits[v] = 1 =>
           \/ \E t \in Tasks : pc[t] \in HoldsVaddr /\ v \in Region(t)
           \/ v = NV

(* bitmap_scan of the kernel virtual bitmap, in every state sys_malloc    *)
(* and sys_free leave it and for every count, returns the lowest run of   *)
(* clear bits inside the bitmap, or -1 when there is none, unless it      *)
(* halts on a full bitmap or returns a run reaching past the end (the    *)
(* case VaddrPool's RunsInsideBitmap is about).                           *)
ScanAgreesWithFirstFit ==
    \A c \in 1..MaxCnt :
        LET r == BitmapScan(vbits, NV, c) IN
        r # ScanPanic =>
            \/ r = FirstFit(vbits, NV, c)
            \/ r >= 0 /\ r + c > NV

(* Refinement: a task holds its run, page by page with the frame its PTE *)
(* maps, from the page_table_add of its last page until mfree_page frees  *)
(* its first page.                                                         *)
Owned == [t \in Tasks |-> IF pc[t] \in {"own", "f_lock"}
                             THEN {<<v, pte[v]>> : v \in Region(t)} ELSE {}]

Abstract == INSTANCE AbstractPages
                WITH Callers <- Tasks, Pages <- VPages, Frames <- Frames, owned <- Owned

(* sys_malloc and sys_free behave as the atomic allocator of AbstractPages: *)
(* a caller gets each page of its run mapped to a frame no other caller     *)
(* holds, and keeps both until it frees them.                               *)
ImplementsAbstractPages == Abstract!Spec

=============================================================================
