-------------------------------- MODULE Heap --------------------------------
(***************************************************************************)
(* The kernel heap of kernel/memory.c: sys_malloc and sys_free over the    *)
(* block descriptors k_block_descs, arenas and the kernel virtual pool.    *)
(*                                                                         *)
(* Every call runs under kernel_pool.lock from its lock_acquire to its     *)
(* lock_release, and every other user of the free lists and arenas takes   *)
(* that lock too, so each call is one step here.  malloc_page and          *)
(* mfree_page are reduced to their effect on the virtual bitmap: their     *)
(* frames and page tables are PageAlloc's subject.                         *)
(*                                                                         *)
(* A block is <<page, index>>; the pointer of a large allocation, just     *)
(* past its arena header, is <<page, -1>>.  The list functions of          *)
(* lib/kernel/list.c are not in the repository: a free list is the FIFO    *)
(* queue spec.md 3 describes (list_append at the tail, list_pop at the     *)
(* head).                                                                  *)
(***************************************************************************)
EXTENDS Bitmap, Sequences, FiniteSets

CONSTANTS
    Tasks,      \* kernel threads calling sys_malloc / sys_free
    NPages,     \* bits of kernel_vaddr.vaddr_bitmap
    Sizes,      \* the sizes the tasks ask for
    NULL

PG_SIZE == 4096
(* sizeof(struct arena): desc pointer, cnt, bool, padded to 4 bytes.       *)
ArenaHdr == 12
DESC_CNT == 7
Descs == 0..DESC_CNT-1
NoDesc == DESC_CNT

(* block_desc_init: sizes 16, 32, ..., 1024.                               *)
BlockSize(d) == 16 * 2^d
BlocksPerArena(d) == (PG_SIZE - ArenaHdr) \div BlockSize(d)

(* kernel_pool.pool_size, the bound of sys_malloc's size check.            *)
PoolSize == NPages * PG_SIZE

Pages == 0..NPages
Blocks == Pages \X (-1..BlocksPerArena(0) - 1)
NoArena == [large |-> FALSE, desc |-> NoDesc, cnt |-> 0]

(* Mutant: the page count rounds up the size alone, forgetting the header *)
(* that sits in front of it.                                               *)
PageCntNoHdr(size) == (size + PG_SIZE - 1) \div PG_SIZE

(* DIV_ROUND_UP(size + sizeof(struct arena), PG_SIZE).                     *)
PageCnt(size) == (size + ArenaHdr + PG_SIZE - 1) \div PG_SIZE

(* sys_malloc's search: the first descriptor whose blocks hold size.       *)
DescIdx(size) ==
    IF \E d \in Descs : size <= BlockSize(d)
       THEN CHOOSE d \in Descs : size <= BlockSize(d) /\ \A e \in 0..d-1 : size > BlockSize(e)
       ELSE DESC_CNT

VARIABLES
    vbits,      \* kernel_vaddr.vaddr_bitmap, and the bit after it
    arena,      \* arena[p]: the header at the start of page p
    free_list,  \* free_list[d]: k_block_descs[d].free_list
    held,       \* the pointer each task got and has not freed
    req,        \* the size each task asked for (history, for properties)
    halted

vars == <<vbits, arena, free_list, held, req, halted>>

Init ==
    /\ vbits \in {[i \in Pages |-> IF i < NPages THEN 0 ELSE b] : b \in {0, 1}}
    /\ arena = [p \in Pages |-> NoArena]
    /\ free_list = [d \in Descs |-> <<>>]
    /\ held = [t \in Tasks |-> NULL]
    /\ req = [t \in Tasks |-> 0]
    /\ halted = FALSE

Panic == halted' = TRUE /\ UNCHANGED <<vbits, arena, free_list, held, req>>

(* Mutant: vaddr_remove's loop stops one page short.                       *)
MfreePageShort(bits, p, n) == BitmapSetRange(bits, p, n - 1, 0)

(* mfree_page(PF_KERNEL, a, n) as the heap sees it: vaddr_remove clears    *)
(* the n virtual pages from p on (the frames go back to the physical pool, *)
(* which PageAlloc models).                                                *)
MfreePage(bits, p, n) == BitmapSetRange(bits, p, n, 0)

(* Mutant: the list_remove loop of sys_free stops one block short.         *)
ArenaRemoveShort(fl, p, n) == SelectSeq(fl, LAMBDA x : ~(x[1] = p /\ x[2] < n - 1))

(* The list_remove loop of sys_free: the blocks 0..n-1 of the arena at p   *)
(* leave the free list fl.                                                 *)
ArenaRemove(fl, p, n) == SelectSeq(fl, LAMBDA x : ~(x[1] = p /\ x[2] < n))

(* sys_malloc(size) for size > 1024: malloc_page(PF_KERNEL, page_cnt) and  *)
(* the large header; NULL when vaddr_get finds no run.                     *)
SysMallocLarge(t, size) ==
    LET n == PageCnt(size)
        r == BitmapScan(vbits, NPages, n)
    IN CASE r = ScanPanic -> Panic
         [] r = ScanFail -> UNCHANGED vars
         [] OTHER ->
              /\ vbits' = BitmapSetRange(vbits, r, n, 1)
              /\ arena' = [arena EXCEPT ![r] = [large |-> TRUE, desc |-> NoDesc, cnt |-> n]]
              /\ held' = [held EXCEPT ![t] = <<r, -1>>]
              /\ req' = [req EXCEPT ![t] = size]
              /\ UNCHANGED <<free_list, halted>>

(* Mutant: the carving loop runs to blocks_per_arena inclusive.           *)
CarveOneMore(r, d) == [i \in 1..BlocksPerArena(d) + 1 |-> <<r, i - 1>>]

(* The blocks of a new arena at page r, in list_append order.              *)
Carve(r, d) == [i \in 1..BlocksPerArena(d) |-> <<r, i - 1>>]

(* sys_malloc(size) for size <= 1024: carve a new arena if the class's     *)
(* free list is empty, then list_pop a block and decrement its arena's     *)
(* free count.                                                             *)
SysMallocSmall(t, size) ==
    LET d == DescIdx(size)
        carve == free_list[d] = <<>>
        r == BitmapScan(vbits, NPages, 1)
    IN IF carve /\ r = ScanPanic THEN Panic
       ELSE LET ar == IF carve
                         THEN [arena EXCEPT ![r] = [large |-> FALSE, desc |-> d,
                                                    cnt |-> BlocksPerArena(d)]]
                         ELSE arena
                fl == IF carve THEN Carve(r, d) ELSE free_list[d]
                b == Head(fl)
            IN /\ vbits' = IF carve THEN [vbits EXCEPT ![r] = 1] ELSE vbits
               /\ arena' = [ar EXCEPT ![b[1]].cnt = @ - 1]
               /\ free_list' = [free_list EXCEPT ![d] = Tail(fl)]
               /\ held' = [held EXCEPT ![t] = b]
               /\ req' = [req EXCEPT ![t] = size]
               /\ halted' = halted

SysMalloc(t, size) ==
    /\ held[t] = NULL
    /\ size > 0 /\ size < PoolSize
    /\ IF size > 1024 THEN SysMallocLarge(t, size) ELSE SysMallocSmall(t, size)

(* sys_free(ptr): block2arena, then either mfree_page of a large arena, or *)
(* list_append and ++cnt, releasing the arena (after finding and removing *)
(* each of its blocks from the free list) when every block is free.        *)
SysFree(t) ==
    /\ held[t] # NULL
    /\ LET b == held[t]
           p == b[1]
           a == arena[p]
       IN IF a.desc = NoDesc /\ a.large
          THEN /\ vbits' = MfreePage(vbits, p, a.cnt)
               /\ arena' = [arena EXCEPT ![p] = NoArena]
               /\ held' = [held EXCEPT ![t] = NULL]
               /\ UNCHANGED <<free_list, req, halted>>
          ELSE LET d == a.desc
                   fl == Append(free_list[d], b)
               IN IF a.cnt + 1 # BlocksPerArena(d)
                  THEN /\ free_list' = [free_list EXCEPT ![d] = fl]
                       /\ arena' = [arena EXCEPT ![p].cnt = @ + 1]
                       /\ held' = [held EXCEPT ![t] = NULL]
                       /\ UNCHANGED <<vbits, req, halted>>
                  ELSE IF \E i \in 0..BlocksPerArena(d) - 1 :
                             \A k \in DOMAIN fl : fl[k] # <<p, i>>
                       THEN Panic
                       ELSE /\ free_list' = [free_list EXCEPT ![d] =
                                                ArenaRemove(fl, p, BlocksPerArena(d))]
                            /\ vbits' = MfreePage(vbits, p, 1)
                            /\ arena' = [arena EXCEPT ![p] = NoArena]
                            /\ held' = [held EXCEPT ![t] = NULL]
                            /\ UNCHANGED <<req, halted>>

PanicSpin == halted /\ UNCHANGED vars

Next ==
    \/ PanicSpin
    \/ /\ ~halted
       /\ \E t \in Tasks : SysFree(t) \/ \E s \in Sizes : SysMalloc(t, s)

Spec == Init /\ [][Next]_vars

-----------------------------------------------------------------------------

TypeOK ==
    /\ vbits \in [Pages -> {0, 1}]
    /\ \A p \in Pages : arena[p].desc \in Descs \cup {NoDesc} /\ arena[p].cnt \in Nat
                        /\ arena[p].large \in BOOLEAN
    /\ \A d \in Descs : \A k \in DOMAIN free_list[d] :
           free_list[d][k] \in Pages \X (0..BlocksPerArena(d) - 1)
    /\ \A t \in Tasks : held[t] = NULL \/ held[t] \in Blocks
    /\ halted \in BOOLEAN

SmallArena(p) == arena[p].desc \in Descs
LargeArena(p) == arena[p].large /\ arena[p].desc = NoDesc
Holders(p) == {t \in Tasks : held[t] # NULL /\ held[t][1] = p}
OnList(d, p) == {k \in DOMAIN free_list[d] : free_list[d][k][1] = p}

(* The free-block counts of the arenas agree with the free lists and with  *)
(* the blocks handed out: each block of a small arena is on its class's    *)
(* free list exactly once or held by exactly one task, the arena's cnt is  *)
(* the number on the list, an arena stays only while some block is held,   *)
(* and the lists hold only blocks of live arenas of their class.  Broken   *)
(* by a wrong ++cnt test in sys_free or a lost list_remove.                *)
ArenaAccounting ==
    /\ \A p \in Pages : SmallArena(p) =>
           LET d == arena[p].desc IN
           /\ arena[p].cnt = Cardinality(OnList(d, p))
           /\ arena[p].cnt + Cardinality(Holders(p)) = BlocksPerArena(d)
           /\ arena[p].cnt < BlocksPerArena(d)
           /\ \A k1, k2 \in OnList(d, p) : k1 # k2 => free_list[d][k1] # free_list[d][k2]
           /\ \A t \in Holders(p) : held[t] \notin {free_list[d][k] : k \in OnList(d, p)}
    /\ \A d \in Descs : \A k \in DOMAIN free_list[d] :
           arena[free_list[d][k][1]].desc = d
    /\ \A t1, t2 \in Tasks : t1 # t2 /\ held[t1] # NULL => held[t1] # held[t2]

(* spec.md 8: a small request is served from the smallest class whose      *)
(* blocks hold it, and a large one from an arena of DIV_ROUND_UP(size +     *)
(* header, PG_SIZE) pages that holds the header and size bytes.            *)
BlockFitsRequest ==
    \A t \in Tasks : held[t] # NULL =>
        LET a == arena[held[t][1]] IN
        IF req[t] > 1024
        THEN /\ LargeArena(held[t][1])
             /\ a.cnt * PG_SIZE >= req[t] + ArenaHdr
             /\ (a.cnt - 1) * PG_SIZE < req[t] + ArenaHdr
        ELSE /\ a.desc \in Descs
             /\ BlockSize(a.desc) >= req[t]
             /\ a.desc = 0 \/ BlockSize(a.desc - 1) < req[t]

(* The pages of the kernel virtual pool that are set are exactly the pages *)
(* of live arenas: a small arena's page and every page of a large one.     *)
(* Broken if sys_free returns fewer pages than sys_malloc took, or none.   *)
PagesAccounted ==
    \A q \in 0..NPages-1 :
        vbits[q] = 1 <=>
            \/ SmallArena(q)
            \/ \E p \in Pages : LargeArena(p) /\ q \in p .. p + arena[p].cnt - 1

=============================================================================
