------------------------------ MODULE MemPool ------------------------------
(***************************************************************************)
(* mem_init and mem_pool_init of kernel/memory.c: at boot, the RAM size   *)
(* the loader left at 0xb00 is split into the kernel and user physical    *)
(* pools, and the three bitmaps (kernel pool, user pool, kernel heap      *)
(* addresses) are laid out from MEM_BITMAP_BASE.  The computation is one  *)
(* step; the model keeps the widths of the C variables, all_free_pages    *)
(* and the page counts being uint16_t.  Bitmap addresses are kept as      *)
(* offsets from MEM_BITMAP_BASE (0xc009a000, beyond TLC's integers).       *)
(***************************************************************************)
EXTENDS Integers

CONSTANT MemSizes   \* the byte counts the loader can report

(* More RAM than the 2MB mem_pool_init counts as used, so that its uint32 *)
(* free_mem = all_mem - used_mem does not wrap.                            *)
ASSUME \A m \in MemSizes : m >= 2 * 1048576

VARIABLES
    all_mem,        \* mem_bytes_total, read from 0xb00
    kernel_pool,    \* [phy_addr_start, pool_size, btmp_bytes_len, bits]
    user_pool,
    kernel_vaddr    \* [btmp_bytes_len, bits]

vars == <<all_mem, kernel_pool, user_pool, kernel_vaddr>>

PG_SIZE == 4096

(* One page of bitmap covers 128MB and four pages lie between             *)
(* MEM_BITMAP_BASE and the main thread's PCB at 0xc009e000: 512MB at most. *)
BitmapArea == 4 * PG_SIZE
MaxMem == 512 * 1048576

Unset == [phy_addr_start |-> 0, pool_size |-> 0, btmp_bytes_len |-> 0, bits |-> 0]

Init ==
    /\ all_mem \in MemSizes
    /\ kernel_pool = Unset /\ user_pool = Unset
    /\ kernel_vaddr = [btmp_bytes_len |-> 0, bits |-> 0]

(* mem_pool_init(all_mem).  The page directory, page tables and low 1MB   *)
(* are in use; the free pages are halved between the pools, and a bitmap  *)
(* keeps only whole bytes of its pool.                                     *)
MemPoolInit ==
    /\ kernel_pool = Unset
    /\ LET page_table_size == PG_SIZE * 256
           used_mem == page_table_size + 1048576
           free_mem == all_mem - used_mem
           all_free_pages == (free_mem \div PG_SIZE) % 2^16
           kernel_free_pages == all_free_pages \div 2
           user_free_pages == all_free_pages - kernel_free_pages
           kbm_length == kernel_free_pages \div 8
           ubm_length == user_free_pages \div 8
           kp_start == used_mem
           up_start == kp_start + kernel_free_pages * PG_SIZE
       IN /\ kernel_pool' = [phy_addr_start |-> kp_start,
                             pool_size |-> kernel_free_pages * PG_SIZE,
                             btmp_bytes_len |-> kbm_length,
                             bits |-> 0]
          /\ user_pool' = [phy_addr_start |-> up_start,
                           pool_size |-> user_free_pages * PG_SIZE,
                           btmp_bytes_len |-> ubm_length,
                           bits |-> kbm_length]
          /\ kernel_vaddr' = [btmp_bytes_len |-> kbm_length,
                              bits |-> kbm_length + ubm_length]
    /\ UNCHANGED all_mem

(* mem_init: read the size, then mem_pool_init (block_desc_init is Heap's). *)
Next == MemPoolInit

Spec == Init /\ [][Next]_vars

Initialized == kernel_pool # Unset

(* The pages a pool's bitmap can hand out.                                 *)
BitmapPages(pool) == pool.btmp_bytes_len * 8

(* The comment above MEM_BITMAP_BASE says the layout serves up to 512MB.  *)
(* For every such RAM size, the two pool bitmaps together hand out every  *)
(* free page but for the remainders the halving and the byte rounding     *)
(* drop (at most 1 + 7 + 7 pages), so no RAM is lost, and the three       *)
(* bitmaps fit in the four pages below the main thread's PCB.             *)
PoolsCoverFreeMemory ==
    Initialized /\ all_mem <= MaxMem =>
        /\ BitmapPages(kernel_pool) + BitmapPages(user_pool)
               >= (all_mem - 2 * 1048576) \div PG_SIZE - 15
        /\ kernel_vaddr.bits + kernel_vaddr.btmp_bytes_len <= BitmapArea

=============================================================================
