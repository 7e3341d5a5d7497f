# TLA+ models of the RogOS kernel core

These modules model the concurrency core of the kernel under `src/src`. That core is the scheduler and task control blocks, the semaphore and lock, the timer interrupt, the bitmap and memory pools, and the keyboard input path (the keyboard interrupt handler and the I/O queue it fills). A further module checks the string and formatting library (`lib/string.c`, `printf`) against reference definitions. TLC checks the modules.

## The system

RogOS runs on a single x86 CPU. The only concurrency is preemption by interrupts. Code that must be atomic disables interrupts. Everything else is protected by a `struct lock` built on a `struct semaphore`.

The parts and how they interact:

| Part | Source | State | Operations |
|---|---|---|---|
| Bitmap | `lib/kernel/bitmap.c` | byte array + length | `bitmap_init`, `bitmap_scan_test`, `bitmap_scan`, `bitmap_set` |
| Virtual address pools | `kernel/memory.c` | `kernel_vaddr`, per-task `userprog_vaddr` (bitmap + start) | `vaddr_get`, `vaddr_remove` |
| Physical pools, page tables | `kernel/memory.c` | `kernel_pool`, `user_pool` (bitmap, lock), PDE/PTE | `palloc`, `pfree`, `page_table_add`, `page_table_pte_remove`, `malloc_page`, `mfree_page`, `get_kernel_pages`, `get_user_pages`, `get_a_page` |
| Heap | `kernel/memory.c` | `k_block_descs`, arenas, free lists | `sys_malloc`, `sys_free` |
| Scheduler, TCB | `thread/thread.c` | `thread_ready_list`, `thread_all_list`, `main_thread`, `idle_thread`, `next_pid` | `thread_start`, `schedule`, `thread_block`, `thread_unblock`, `thread_yield`, `allocate_pid` |
| Sync | `thread/sync.c` | `value`, `waiters`, `holder`, `holder_repeat_nr` | `sema_down`, `sema_up`, `lock_acquire`, `lock_release` |
| Timer | `device/timer.c` | `ticks`, task `ticks`/`elapsed_ticks` | `intr_timer_handler`, `mtime_sleep` |
| I/O queue, keyboard | `device/ioqueue.c`, `device/keyboard.c` | ring buffer, `producer`, `consumer` | `ioqueue_getchar`, `ioqueue_putchar`, keyboard IRQ |
| Library | `lib/string.c`, `lib/stdio.c`, `lib/kernel/stdio_kernel.c` | the caller's memory | `memset`, `memcpy`, `memcmp`, `strcpy`, `strlen`, `strcmp`, `strchr`, `strrchr`, `strcat`, `strchrs`, `printf`/`printk` (`vsprintf`, `itoa`), `sprintf` |

Which part calls which:

- The timer interrupt calls `schedule`.
- `sema_down` and the I/O queue block through `thread_block`. `sema_up` and the I/O queue wake through `thread_unblock`.
- `thread_start` takes its TCB page from `get_kernel_pages`.
- `malloc_page` calls `vaddr_get`, which calls `bitmap_scan` and `bitmap_set`. It then calls `palloc`, which also uses the bitmap, and then `page_table_add`.
- `sys_malloc` and `sys_free` use the pool locks and `malloc_page`/`mfree_page`.
- Everything calls the library: `init_thread` copies the name with `strcpy`, the pools are cleared with `memset`, and `printf`/`printk` format through `vsprintf`.

A ready-list or waiters-list link is the one `general_tag` of the TCB. A task therefore may be on one of those lists at a time.

## Modules

| Module | Models | Composes |
|---|---|---|
| `AbstractLock` | the reentrant lock `spec.md` 3 and 4.6 promise: owner and depth | — |
| `ThreadSync` | scheduler + timer + semaphore + lock, with main, idle and worker tasks | instances `AbstractLock` (refinement) |
| `Bitmap` | `bitmap_scan` and `bitmap_set` as operators; `ScanRun` is RECURSIVE | — |
| `VaddrPool` | `vaddr_get` / `vaddr_remove` on one pool bitmap | extends `Bitmap` |
| `PidAlloc` | `allocate_pid` with `pid_lock` | instances `AbstractLock` for `pid_lock` |
| `AbstractPages` | what the page allocator promises: runs of pages, each with its own frame, held by one caller | — |
| `PageAlloc` | kernel pool: `malloc_page`, `palloc`, `page_table_add`, `mfree_page`, `get_kernel_pages`, large `sys_malloc`/`sys_free` | extends `Bitmap`, instances `AbstractPages` |
| `Heap` | kernel heap: `sys_malloc`, `sys_free`, `block_desc_init`, arenas and the seven free lists | extends `Bitmap` |
| `Keyboard` | `intr_keyboard_handler`'s scancode state machine as operators, and the 8042 that sends scancodes | — |
| `IoQueue` | `ioqueue.c`: ring buffer, `ioq->lock`, the `producer`/`consumer` slots, consumer and producer threads, the keyboard interrupt | extends `Keyboard` |
| `MemPool` | `mem_init` / `mem_pool_init`: the boot-time split of RAM into the kernel and user pools and the layout of the three bitmaps, with the C widths | — |
| `Library` | `string.c`'s loops as RECURSIVE operators over a byte memory, the writing calls and `printf` as actions, and reference definitions they are checked against | — |
| `MC*` | model values and definitions for TLC | extend the above |

### ThreadSync

A step is what the CPU does between two points where the timer interrupt can be taken. Code that runs with interrupts disabled is therefore one action. Each of `sema_down`, `sema_up`, `schedule` and `thread_block` runs with interrupts disabled.

State:

| Variable | Code |
|---|---|
| `status` | `thread->status` |
| `ready` | `thread_ready_list` in order |
| `current` | `running_thread()` |
| `ticks` | `thread->ticks` |
| `pc` | the point each task has reached in its program |
| `value`, `waiters` | the semaphore of one lock |
| `holder`, `holder_repeat_nr` | that lock |
| `intr` | the CPU's IF bit (`intr_get_status`) |
| `resume` | the flag a task gets back when it is switched to: `old_status` of its `thread_block`/`thread_yield`, the flags the timer's interrupt gate pushed, or `kernel_thread`'s `intr_enable` for a new thread |
| `sema_old` | `old_status` of a task's pending `sema_down`, restored when its loop ends |

The tasks are `Main`, `Idle` and a set of `Workers`. Each worker repeatedly calls `lock_acquire`, optionally reacquires the lock (up to `MaxNest`), releases the lock, and yields.

Actions:

| Action | Code it models |
|---|---|
| `ThreadStart` | `thread_start` called by main |
| `MainSpin` | main's final `while(1)` |
| `Tick` | `intr_timer_handler` |
| `IdleBlock` | `idle`'s `thread_block` + `hlt` |
| `LockAcquire` | `lock_acquire`, entering `sema_down` |
| `SemaDown` / `SemaRetry` | the first and later iterations of `sema_down`'s while loop |
| `LockSetHolder` | `lock_acquire` lines 58-60 |
| `LockRelease` | `lock_release` up to `sema_up` |
| `SemaUp` | `sema_up` |
| `ThreadYield` | `thread_yield` |

`Reschedule` is `schedule`. A RUNNING task is appended with its ticks reset, idle is unblocked if the list is empty, and the head is popped. `UnblockQueue` is `thread_unblock`'s head push.

`IntrOn` is the interrupt flag, and `Tick` is enabled only while it is on. `IntrSetStatus` is `intr_set_status`. A task resumed inside `sema_down` runs with interrupts off until its loop is done, then gets back the flag it called with.

The kernel is entered with interrupts off, since no IDT exists before `idt_init`, and nothing `main` calls in the repository turns them on. Whether `main` spins in its final loop with interrupts on is decided by code outside the repository (`process_execute`, `ide_init`, `filesys_init`), so the flag is the constant `MainIntr`. The runs use `INTR_ON`, which is what the preemptive kernel of `spec.md` requires. With `INTR_OFF`, main is never preempted and `ReadyEventuallyRuns` fails at once; that premise cannot be checked against the repository.

`IntrFlagRestored` says every task gets back the flag its program point needs, however many switches it sat out: the running task has it, and every suspended task will have it when it is switched to. A task inside `sema_down` has interrupts off, and every other task has them on.

### Bitmap and VaddrPool

A bitmap of `NBits` bits is a function on `0..NBits`. Bit `NBits` stands for the first bit of the memory after the bitmap, because `bitmap_scan` reads it. Its initial value is either 0 or 1.

`BitmapScan` follows the code's structure:

1. the first loop (`FirstClear`);
2. the ASSERT;
3. the `cnt == 1` shortcut;
4. the `bit_left` test;
5. the counting loop (`ScanRun`).

`FirstFit` is a reference definition of "lowest run of cnt clear bits inside the bitmap". A panic is the `halted` flag, after which the kernel spins (`PanicSpin`).

### PidAlloc

`allocate_pid` split at its preemption points:

1. `lock_acquire`;
2. `next_pid++`;
3. `lock_release`;
4. `return next_pid`.

`pid_lock` is the abstract lock, because ThreadSync shows the real lock implements it.

### PageAlloc

Tasks run with interrupts on, so a timer preemption can fall between any two of these steps:

- `VaddrScan`: vaddr_get's `bitmap_scan`;
- `VaddrSet`: its `bitmap_set` loop;
- `PallocScan` and `PallocSet`: palloc's scan and set;
- `PageTableAdd`;
- `MfreePage`: one turn of mfree_page's loop;
- `VaddrRemove`.

Callers:

- `Mallocers` call `sys_malloc` for a large block under `kernel_pool.lock`, and later `sys_free`.
- `Creators` call `get_kernel_pages(1)` without the lock, as `thread_start` does.

The lock is taken in one step. That is the behaviour ThreadSync shows `lock_acquire` to have.

The model covers the kernel pool only. Every kernel heap address lies under a page-directory entry the loader creates, so `page_table_add`'s page-directory branch is never taken.

`page_table_pte_remove` clears only the present bit. `addr_v2p` of such a page therefore reads stale frame bits. The model keeps only "not present" and lets that read return any frame, or an address outside the pool. This over-approximates the stale value and keeps the state space small.

`ImplementsAbstractPages` maps each task holding a finished run to the pairs `<<page, pte[page]>>`. The task holds the run from the `page_table_add` of its last page until `mfree_page` frees its first page.

### Heap

Heap models the block allocator of `sys_malloc` and `sys_free` for kernel threads. Each call holds `kernel_pool.lock` from its `lock_acquire` to its `lock_release`. The free lists and arenas are touched only by these two calls, so a whole call is one step. The one lockless user of the kernel virtual bitmap, `get_kernel_pages`, is PageAlloc's subject (the `pages_race` finding). Here all callers are heap callers. The intr_disable around the carving loop adds nothing to that lock.

State:

- `vbits` is `kernel_vaddr`'s bitmap, plus the bit after it.
- `arena[p]` is the header at the start of page `p`: `desc` (NoDesc stands for NULL), `cnt` and `large`.
- `free_list[d]` is `k_block_descs[d].free_list` as a sequence. A block is `<<page, index>>`, as `arena2block` computes it.
- `held[t]` is the pointer task `t` got. A large block is `<<page, -1>>`, just past the header.
- `req[t]` is history: the size `t` asked for.

The list operations of `lib/kernel/list.c` are not in the repository. The model takes `list_append` at the tail and `list_pop` at the head, as `spec.md` describes.

Actions:

- `SysMallocLarge`: `malloc_page` with `PageCnt(size)` pages, reduced to `vaddr_get`'s scan and set. Its frames and page tables are PageAlloc's subject.
- `SysMallocSmall`: the `DescIdx` search. If the list is empty, a new arena is carved (`Carve`). Then a block is popped and `--cnt`.
- `SysFree`: either `MfreePage` of a large arena, or `list_append` and `++cnt`. When the count reaches `blocks_per_arena`, the `elem_find`/`list_remove` loop runs (`ArenaRemove`, or a panic if a block is missing), followed by `MfreePage` of the page.

Properties:

- `ArenaAccounting`: each small arena's `cnt` equals the number of its blocks on the free list. That number plus the blocks held equals `blocks_per_arena`. No block is both listed and held, or listed twice. Every listed block belongs to a live arena of its class.
- `BlockFitsRequest`: the class or page count fits the request tightly.
- `PagesAccounted`: the set bits of the virtual bitmap are exactly the pages of live arenas.

### Keyboard

`intr_keyboard_handler` runs with interrupts off and reads one byte per interrupt, so one call is one step. The module keeps the handler's statics (`ctrl_status`, `shift_status`, `alt_status`, `caps_lock_status`, `ext_scancode`). Scancodes stay numbers, and the masks of the code (`& 0x0080`, `& 0xff7f`, `0xe000 |`, `& 0x00ff`) are computed with `Bitwise`.

| Definition | Code |
|---|---|
| `Merged`, `ExtAfter` | the 0xe0 prefix and the merge that clears `ext_scancode` |
| `BreakCode` | the break-code branch: clear ctrl, shift or alt |
| `IsHandledMake`, `Shift`, `CurChar` | the make-code range test, the shift/caps choice, `keymap[index][shift]` and the ctrl+l / ctrl+u rewrite |
| `PutsChar` | the handler reaches `ioqueue_putchar` |
| `MakeModifier` | the updates of ctrl, shift and caps lock for an invisible key |
| `KeyboardHandler` | the whole handler except the put itself, which `IoQueue` adds |

`Keymap` keeps the rows of `keymap` for the keys the model presses. Characters are ASCII codes.

`KeyDevice` is the 8042, not code. It sends a key's make code when the key goes down or repeats and its break code (make + 0x80) when it comes up. An extended key sends 0xe0 and then its code. `held` changes when the code's last byte is sent.

### IoQueue

A step is what a task does from one blocking point to the next. `ioqueue_getchar` and `ioqueue_putchar` run with interrupts off: they ASSERT it, and `lock_acquire`/`lock_release` leave them off. The blocking points are `thread_block` in `sema_down` and in `ioqueue_wait`. The keyboard interrupt can come between any two steps.

| Variable | Code |
|---|---|
| `buf`, `head`, `tail` | `ioq->buf`, `ioq->head`, `ioq->tail` |
| `waiter` | `ioq->producer`, `ioq->consumer` |
| `value`, `lwaiters`, `holder` | `ioq->lock` and its semaphore |
| `pc` | `call` between calls, `lock` in `sema_down`, `wait` in `ioqueue_wait` |
| `blocked` | the tasks `thread_block` has blocked |
| `nextPut`, `lastRead` | the number of the next byte put and of the last byte read |
| `halted` | the ASSERT of `ioqueue_wait` failed |

A byte is its sequence number modulo `NByte`, so the order bytes leave in can be compared with the order they came in.

| Action | Code |
|---|---|
| `Call` | a thread calls `ioqueue_getchar` or `ioqueue_putchar`: the `while` test, then `Loop` |
| `Loop` | while empty (full), `lock_acquire` and `ioqueue_wait` (`AcquireAndWait`); otherwise move one byte and wake the other side (`GetByte`, `PutByte`, `Wakeup`) |
| `SemaRetry` | a task woken in `sema_down` takes the semaphore and goes on to `ioqueue_wait` without testing the buffer again |
| `Resume` | a task woken in `ioqueue_wait`: `lock_release` wakes the head lock waiter, then the `while` test runs again |
| `KeyboardIntr` | `KeyDevice` sends a byte, `KeyboardHandler` handles it, and a character is put if `ioqueue_full` is false (otherwise dropped) |

In the repository the keyboard is the only producer. Producers are threads calling `ioqueue_putchar`, and the pass run has none.

Properties:

- `RingFifo`: the ring holds, from `tail` to `head`, the bytes after the last one read, in the order they were put. No byte is lost, duplicated or overtaken.
- `WaitersConsistent`: a task blocked in `ioqueue_wait` is the one in its slot and holds the lock. Lock waiters are exactly the tasks blocked in `sema_down`. The ASSERT of `ioqueue_wait` never fails.
- `NoPhantomModifier`: ctrl or shift is never recorded as down while no such key is held.
- `NoIoDeadlock`: when every thread is blocked, one waits in `ioq->consumer` and the buffer has room, so the next key wakes it.
- `NoStrandedByte` (liveness): a byte in the buffer is eventually read, even if no key is pressed again. A consumer that queued for the lock can wait in `ioq->consumer` on a non-empty buffer (the stale test at `ioqueue.c:48`), yet the byte is still read.

### MemPool

`mem_init` reads the RAM size the loader stored at `0xb00` and calls `mem_pool_init`; Init picks `all_mem` from `MemSizes`, and `MemPoolInit` is the whole of `mem_pool_init` as one step (it runs before interrupts are on). The 2MB of page directory, page tables and low memory are in use; the free pages are halved between the pools and each bitmap keeps whole bytes. `all_free_pages` and the two page counts are `uint16_t` in the code, so the model takes the page count modulo `2^16`. Bitmap addresses are offsets from `MEM_BITMAP_BASE`. `PoolsCoverFreeMemory` states the comment above `MEM_BITMAP_BASE`: up to 512MB the pools cover the free RAM but for rounding, and the three bitmaps fit in the four pages below the main thread's PCB.

### Library

`mem` is a byte memory, addresses `0..N-1`. A pointer is an address, and `NullPtr` (-1) lies outside it. Each loop of `string.c` is a RECURSIVE operator that walks the pointers exactly as the C loop does:

- `StrEnd`/`Strlen`, `Strcmp`, `Memcmp`, `Strchr`, `StrrchrLoop`, `Strchrs` only read;
- `Memset`, `Memcpy` (forward, byte by byte, so an overlapping copy smears as the code would) and `CopyLoop` (the copy loop of `strcpy` and `strcat`) write.

`char` is signed in the i386 build. So every byte read through a `char*` is compared as `SignedChar` of it.

The writing calls are the actions `CallMemset`, `CallMemcpy`, `CallStrcpy` and `CallStrcat`, with their arguments drawn from every address and size. A call whose loop would leave `mem` is not taken: an unterminated source or a destination that is too short writes outside the modelled memory. The reading calls are checked in every reachable memory. `call` records the last call, so that `CopiesAgree` can relate the memory before and after it.

`CallPrintf` is `printf`: `vsprintf` into `char buf[1024] = {0}`, then `write(1, buf, strlen(buf))`. `printk` runs the same code into `console_put_str`.

- `Vsprintf` walks the format as `index_ptr` does.
- `Conversion` is the `switch`. `va_arg` takes the next pushed word; `%c` reads its low byte (`VaArgChar`), `%s` copies the string and its NUL, and `%d`/`%x` call `Itoa`. A character with no case leaves `index_ptr` on it.
- `Itoa` recurses on the quotient before it emits the remainder digit.
- `vsprintf` writes no NUL after its output. `buf` therefore keeps the bytes written so far, and the rest of the zeroed buffer is NUL.

TLC's integers are 32-bit signed, so a 32-bit argument word is kept as its 16-bit halves `[hi, lo]`. `WordDiv`, `WordMod` and `WordNeg` are exact 32-bit arithmetic on them. `0 - arg_int` of INT_MIN overflows in C; the i386 build wraps it, and `WordNeg` does the same.

The references describe results rather than loops:

- `RefStr`: the bytes before the first NUL;
- `RefOrder`: the first differing `char` decides;
- `RefDigits`: the i-th digit is `(w / b^(n-i)) mod b`;
- `RefMagnitude`: the two's complement `~w + 1`;
- `RefFormat`: the text C gives a format made of `%s`, `%d`, `%x` and `%c`.

Properties:

- `ReadsAgree`: `strlen`, `strchr`, `strrchr`, `strchrs`, `strcmp` and `memcmp` return what the references give, for every string or byte range in memory and every ASCII `ch`.
- `CopiesAgree` (action): `memcpy`, `strcpy` and `strcat`, on a source apart from the destination, leave at the destination the source bytes, the source string, or the old string followed by the source. They change no byte their loop does not write.
- `PrintfAgrees`: `printf` writes exactly `RefFormat`'s text whenever that text has no NUL. `%c` of 0 ends the text, because `printf` writes `strlen(buf)` bytes.

## Runs

| Run | cfg | Expect | Shows |
|---|---|---|---|
| sched_safety | `MCThreadSyncSafety.cfg` | pass | ready and waiters lists agree with status (`GeneralTagConsistent`); mutual exclusion; no waiter is left blocked while the semaphore is free; every task resumes with the interrupt flag its program point needs (`IntrFlagRestored`); the lock refines `AbstractLock`; every READY task eventually runs |
| lock_starvation | `MCThreadSyncStarvation.cfg` | violation | a waiter can be overtaken forever (barging in `sema_down`'s re-check) |
| idle_selection | `MCThreadSyncIdle.cfg` | violation | idle is scheduled while other tasks are READY |
| vaddr_overrun | `MCVaddrPoolOverrun.cfg` | violation | a run can end one bit past the bitmap and `vaddr_get` sets that bit |
| pid_unique | `MCPidAlloc.cfg` | violation | two callers of `allocate_pid` can get the same pid |
| pages_locked | `MCPageAlloc.cfg` | pass | large `sys_malloc`/`sys_free` under the pool lock keep PTEs and both bitmaps consistent (`PageTableConsistent`), leak no bit (`BitsAccounted`) and refine `AbstractPages`; `bitmap_scan` agrees with `FirstFit` on every virtual bitmap they reach, except for runs past the end (`ScanAgreesWithFirstFit`) |
| pages_race | `MCPageAllocRace.cfg` | violation | `get_kernel_pages` and `sys_malloc` are handed the same frame |
| ioqueue | `MCIoQueue.cfg` | pass | two consumers reading `kbd_buf` while shift, extended ctrl, caps lock and a letter are pressed, repeated and released in any order: FIFO without loss, consistent waiter slots and lock, no phantom modifier, no deadlock, and every byte eventually read |
| ioqueue_deadlock | `MCIoQueueDeadlock.cfg` | violation | with a thread producer, every thread ends up blocked: the producer waits holding `ioq->lock` on a buffer that emptied, and the consumers block on the lock |
| library | `MCLibrary.cfg` | pass | every `string.c` call and `printf`, from every 4-byte memory, agree with the reference definitions (`ReadsAgree`, `CopiesAgree`, `PrintfAgrees`); `%d` of INT_MIN prints `-2147483648` and `%x` of -1 prints `FFFFFFFF` |
| pool_layout | `MCMemPool.cfg` | violation | for RAM sizes up to 512MB, the 16-bit free page count of `mem_pool_init` wraps from 258MB on, and the pools lose the pages that wrapped (all of them at 258MB) |
| heap | `MCHeap.cfg` | pass | arenas, free lists, held blocks and the virtual bitmap stay in agreement through any mix of mallocs and frees, up to pool exhaustion (where `bitmap_scan` halts the kernel), and every block fits its request |

Bounds:

- ThreadSync uses three workers for `sched_safety`, which also checks `ReadyEventuallyRuns`, and two for the starvation run, whose state graph grows faster. Three workers give a waiter that is not at the head and a second waiter behind a barging task. Every task has priority 1, except one worker with priority 2, so both a zero and a non-zero tick count occur. `MaxNest = 2` exercises the reentrant path.
- VaddrPool uses an 8-bit bitmap (one byte, as `btmp_bytes_len` counts bytes) and requests of 1 to 3 pages. That covers the `cnt == 1` shortcut, the tail test, and runs that reach the neighbour bit.
- PidAlloc uses two callers, the fewest that can interleave.
- PageAlloc uses 8 virtual and 8 physical pages, matching equal-sized `kbm_length` bitmaps. Two mallocers ask for 1 to 5 pages. This reaches:
  - fragmentation, where `vaddr_get` fails;
  - the overrun page;
  - the frame pool running out before the virtual pool, which makes palloc panic.

  With three mallocers the run takes minutes, without reaching a case two do not. The race run uses one mallocer and one creator.

- Heap uses 8 pages, five tasks and sizes 1024 and 4085. 1024 is the largest class, with 3 blocks per arena, and a size equal to its block size. Three tasks can hold every block of one arena while another carves a second arena of the class, so arenas fill, empty and are released. 4085 plus the header needs two pages. Four two-page arenas fill the pool, and the fifth task then panics in `bitmap_scan`. Small arenas fragment the pool, so a two-page request can also fail, and a run can take the bit past the bitmap. Tasks are interchangeable, so the run uses symmetry over them.

- IoQueue uses `bufsize` 3 instead of 64. That is the smallest ring with both a wrap and the one unused slot. Bytes are numbered modulo 4, one more than the ring, so that a whole lost ring shows. Two consumers are the fewest for the stale emptiness test: one waits in `ioq->consumer` and one queues on the lock. Three consumers give the same results in 2 minutes. The keys are left shift, right ctrl (extended), caps lock and `a`: a plain and an extended modifier, the toggle, and a letter whose case they decide. The deadlock run adds one producer thread.

- MemPool tries every whole number of MB from 3 to 512, each also with 4095 extra bytes (a partial last page): 1020 sizes, every one an initial state, so the first size at which the page count wraps is found.

- Library uses a 4-byte memory over the bytes NUL, `a` and `0xe9` (negative as `char`), and every one of the 81 memories is an initial state. The strings are short, but there are prefixes, equal strings, a char that sorts below NUL, copies that fit exactly and ones that do not.
  - The argument words are 0 and 2 (also string addresses), `0x161` (whose low byte is `a`), INT_MIN and -1.
  - The formats are `%d`, `%x`, `a%s` and `%c%d`. They cover every case of the `switch`, the sign, a multi-digit hex value, a low-byte `%c` and a `%s` that reads memory.
  - `BufLen` is 16 bytes of `printf`'s 1024, longer than any output these formats give (12 bytes).

`MCThreadSyncSafety` reaches about 65,000 states in seconds.

## Fairness

`SF_vars(Tick)` is strong fairness of the timer interrupt. `Tick` is enabled only while `intr` is on. The PIC latches the IRQ while interrupts are off, so a timer interrupt that is enabled infinitely often is taken.

`SF_vars(Step(t))` says a task that is able to run infinitely often eventually takes a step. A time slice, `priority + 1` ticks at 100 Hz, is far longer than any one step.

In IoQueue every task has `WF_vars(Step(t))`. `schedule` is round robin, and a task that is not blocked stays able to step until it does. The keyboard has no fairness, since nobody has to press a key. `NoStrandedByte` therefore holds even if typing stops.

Neither fairness condition says anything about which READY task is picked. That choice is what `Reschedule` decides.

## Findings

The findings are listed in `PROJECT.json`:

- the `allocate_pid` return after unlock (`thread.c:54`);
- the `bitmap_scan` overrun (`bitmap.c:40`, `:47`);
- the 16-bit free page count of `mem_pool_init`, which empties both pools at 258MB of RAM and loses RAM up to the 512MB the layout is meant for (`memory.c:239`);
- barging, which defeats FIFO service in `sema_down` (`sync.c:23`);
- idle being scheduled in turn (`thread.c:184`);
- `get_kernel_pages` allocating without the pool lock, so a frame is handed out twice (`memory.c:178`);
- `ioqueue_putchar` waiting while it holds `ioq->lock` after a stale fullness test, so the consumers block on the lock and no thread runs again (`ioqueue.c:67`). No thread of the repository calls `ioqueue_putchar`, but it is the queue's API.

`bitmap_scan` ASSERTs that a byte with a clear bit exists, so a scan of a full bitmap halts the kernel, where `spec.md` 4.1 and 7 describe a sentinel; the heap and pages_locked runs reach this halt. `palloc` never returns `NULL`. A one-bit scan of a full pool panics, or in an NDEBUG build returns a bit past the pool. So the `NULL` branches of `malloc_page`'s page loop, `get_a_page` and `get_a_page_without_opvaddrbitmap` are dead code.

## Not modelled yet, and the plan

Later modules, in this order:

1. **User pool in PageAlloc.** `get_user_pages`, including `memset(NULL)` on failure, plus `get_a_page` and the page-directory branch of `page_table_add`. These run only for a task with a page directory. `thread.c:180` creates one through `process_execute`, whose source (`userprog/process.c`) is not in the repository.
2. **Heap, continued.** An abstract "set of allocated blocks" that Heap refines. Composition with PageAlloc's page-level steps for large blocks.
3. **Sleep.** `mtime_sleep` with the global tick counter modulo `2^w`. Nothing in the repository calls `mtime_sleep`. The `priority + 1` time slice contradicts `spec.md` 4.5. Showing that needs a violation run of its own, and ThreadSync's `Tick` keeps the code's test.

Left out:

- `sys_ps`, `pad_print` and `elem2thread_info`: nothing in the repository calls `sys_ps`. `pad_print` is the only caller of `sprintf`, which is therefore not an action of `Library` either. (Its `case 'd'` falls through to `case 'x'`, so a pid would print as the hex of 32 bits read from a 16-bit field.)
- `strchr`, `strrchr` and `strchrs` compare a signed `char` with a `uint8_t` `ch`, so they never find a byte of 0x80 or more. `ReadsAgree` quantifies over ASCII `ch` only. Showing the miss needs a violation run, and the run budget is spent on the findings above.
- Hardware set-up: PIC, IDT, PIT, TSS (`pic_init`, `idt_desc_init`, `exception_init`, `general_intr_handler`, `timer_init`). These are port and descriptor writes. The flag operations of `interrupt.c` are modelled in ThreadSync.
- Main's interrupt flag after `init_all`. It depends on code outside the repository, so it is the constant `MainIntr` (see ThreadSync).
- Keyboard quirks without a run: holding both shift keys and releasing one clears `shift_status` (`keyboard.c:135`), and a repeating caps lock key toggles it on every repeat (`keyboard.c:203`). The device of `Keyboard` reaches both. No comment or spec text says what the code should do, and the run budget is spent on the findings above.
- The context switch `switch_to` and `process_activate`: opaque.
- The filesystem and IDE declarations, which are out of scope in `spec.md` 1.
