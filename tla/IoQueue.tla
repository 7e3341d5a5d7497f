------------------------------- MODULE IoQueue -------------------------------
(***************************************************************************)
(* The ring buffer of device/ioqueue.c with its lock and its two waiter   *)
(* slots, fed by the keyboard interrupt of device/keyboard.c and by       *)
(* threads calling ioqueue_putchar, and drained by threads calling         *)
(* ioqueue_getchar.                                                        *)
(*                                                                         *)
(* ioqueue_getchar and ioqueue_putchar run with interrupts off (they       *)
(* ASSERT it; lock_acquire and lock_release restore it off), so a step is  *)
(* what a task does from one blocking point to the next: a thread_block in *)
(* sema_down or in ioqueue_wait.  The keyboard interrupt can come between  *)
(* any two steps: some task, idle at least, runs with interrupts on.       *)
(* Which unblocked task runs next is the scheduler's choice.               *)
(*                                                                         *)
(* A byte is its sequence number modulo NByte, so that the order in which  *)
(* bytes leave the buffer can be compared with the order they entered.     *)
(***************************************************************************)
EXTENDS Naturals, Sequences, FiniteSets, Keyboard

CONSTANTS
    Consumers,  \* threads calling ioqueue_getchar
    Producers,  \* threads calling ioqueue_putchar
    BufSize,    \* bufsize
    NByte,      \* bytes are numbered modulo NByte
    NULL

Tasks == Consumers \cup Producers
Slots == 0..BufSize - 1
Bytes == 0..NByte - 1
(* The two waiter fields of struct ioqueue.                                *)
Roles == {"producer", "consumer"}
Role(t) == IF t \in Consumers THEN "consumer" ELSE "producer"

ASSUME Consumers \cap Producers = {} /\ BufSize >= 2 /\ NByte >= BufSize

VARIABLES
    buf, head, tail,  \* ioq->buf, ioq->head, ioq->tail
    waiter,           \* waiter[r]: ioq->producer and ioq->consumer
    value, lwaiters,  \* ioq->lock.semaphore: value and waiters, head first
    holder,           \* ioq->lock.holder
    pc,               \* "call": between calls; "lock": in sema_down;
                      \* "wait": in ioqueue_wait
    blocked,          \* the tasks thread_block has blocked
    nextPut,          \* the number of the next byte put
    lastRead,         \* the byte the last ioqueue_getchar returned
    halted            \* an ASSERT failed

ioqVars == <<buf, head, tail, waiter, value, lwaiters, holder, pc, blocked,
             nextPut, lastRead, halted>>
vars == <<ioqVars, kbdVars>>

(* Mutant: next_pos without the modulo.                                    *)
NextPosNoWrap(pos) == pos + 1

(* next_pos.                                                               *)
NextPos(pos) == (pos + 1) % BufSize

(* Mutant: ioqueue_full compares head + 1 with tail without wrapping.     *)
IoqueueFullNoWrap == head + 1 = tail

(* ioqueue_full and ioqueue_empty.                                        *)
IoqueueFull == NextPos(head) = tail
IoqueueEmpty == head = tail

(* kbd_buf is a global, ioqueue_init sets the lock, producer, head and     *)
(* tail; consumer keeps the zero of the cleared .bss.                      *)
Init ==
    /\ buf = [s \in Slots |-> 0]
    /\ head = 0 /\ tail = 0
    /\ waiter = [r \in Roles |-> NULL]
    /\ value = 1 /\ lwaiters = <<>> /\ holder = NULL
    /\ pc = [t \in Tasks |-> "call"]
    /\ blocked = {}
    /\ nextPut = 0
    /\ lastRead = NByte - 1
    /\ halted = FALSE
    /\ KbdInit

(* Mutant: wakeup unblocks the waiter but leaves it in its slot.          *)
WakeupKeepSlot(r, bl) ==
    /\ blocked' = IF waiter[r] # NULL THEN bl \ {waiter[r]} ELSE bl
    /\ waiter' = waiter

(* if (ioq->r != NULL) wakeup(&ioq->r): thread_unblock it and clear the   *)
(* slot; bl is the blocked set left by the earlier part of the step.       *)
Wakeup(r, bl) ==
    /\ blocked' = IF waiter[r] # NULL THEN bl \ {waiter[r]} ELSE bl
    /\ waiter' = [waiter EXCEPT ![r] = NULL]

(* The tail half of ioqueue_getchar: read buf[tail], advance tail, wake a *)
(* waiting producer.                                                       *)
GetByte(bl) ==
    /\ lastRead' = buf[tail]
    /\ tail' = NextPos(tail)
    /\ Wakeup("producer", bl)
    /\ UNCHANGED <<buf, head, nextPut>>

(* Mutant: ioqueue_putchar without the wakeup of a waiting consumer.      *)
PutByteNoWake(bl) ==
    /\ buf' = [buf EXCEPT ![head] = nextPut]
    /\ head' = NextPos(head)
    /\ nextPut' = (nextPut + 1) % NByte
    /\ blocked' = bl /\ UNCHANGED waiter
    /\ UNCHANGED <<tail, lastRead>>

(* The tail half of ioqueue_putchar: write buf[head], advance head, wake  *)
(* a waiting consumer.                                                     *)
PutByte(bl) ==
    /\ buf' = [buf EXCEPT ![head] = nextPut]
    /\ head' = NextPos(head)
    /\ nextPut' = (nextPut + 1) % NByte
    /\ Wakeup("consumer", bl)
    /\ UNCHANGED <<tail, lastRead>>

(* Mutant: ioqueue_wait blocks without recording the task in its slot.   *)
IoqueueWaitNoRecord(t, r) ==
    /\ waiter' = waiter
    /\ halted' = (waiter[r] # NULL)
    /\ pc' = [pc EXCEPT ![t] = "wait"]

(* ioqueue_wait(&ioq->r): ASSERT that the slot is NULL, record the task *)
(* block it (the caller adds it to blocked).                               *)
IoqueueWait(t, r) ==
    /\ waiter' = [waiter EXCEPT ![r] = t]
    /\ halted' = (waiter[r] # NULL)
    /\ pc' = [pc EXCEPT ![t] = "wait"]

(* lock_acquire(&ioq->lock) and, once it has the lock, ioqueue_wait, from  *)
(* the lock state v, lw, h and the blocked set bl: sema_down takes the     *)
(* semaphore when its value is 1, otherwise the task joins the waiters and *)
(* blocks, to re-check when it is woken.  Either way the task blocks.      *)
AcquireAndWait(t, v, lw, h, bl) ==
    /\ blocked' = bl \cup {t}
    /\ UNCHANGED <<buf, head, tail, nextPut, lastRead>>
    /\ IF v = 1
          THEN /\ value' = 0 /\ holder' = t /\ lwaiters' = lw
               /\ IoqueueWait(t, Role(t))
          ELSE /\ value' = v /\ holder' = h /\ lwaiters' = Append(lw, t)
               /\ pc' = [pc EXCEPT ![t] = "lock"]
               /\ UNCHANGED <<waiter, halted>>

(* The while loop of ioqueue_getchar or ioqueue_putchar from its test on:  *)
(* while the buffer is empty (full), take the lock and wait; then move one *)
(* byte and return.                                                        *)
Loop(t, v, lw, h, bl) ==
    IF t \in Consumers
       THEN IF IoqueueEmpty
               THEN AcquireAndWait(t, v, lw, h, bl)
               ELSE /\ GetByte(bl)
                    /\ value' = v /\ lwaiters' = lw /\ holder' = h
                    /\ pc' = [pc EXCEPT ![t] = "call"]
                    /\ UNCHANGED halted
       ELSE IF IoqueueFull
               THEN AcquireAndWait(t, v, lw, h, bl)
               ELSE /\ PutByte(bl)
                    /\ value' = v /\ lwaiters' = lw /\ holder' = h
                    /\ pc' = [pc EXCEPT ![t] = "call"]
                    /\ UNCHANGED halted

(* A thread calls ioqueue_getchar or ioqueue_putchar.                      *)
Call(t) ==
    /\ pc[t] = "call"
    /\ Loop(t, value, lwaiters, holder, blocked)

(* A task woken in sema_down re-checks the value: it takes the semaphore   *)
(* and goes on to ioqueue_wait without testing the buffer again, or it     *)
(* waits once more.                                                        *)
SemaRetry(t) ==
    /\ pc[t] = "lock"
    /\ AcquireAndWait(t, value, lwaiters, holder, blocked)

(* A task woken in ioqueue_wait: lock_release clears holder and sema_up    *)
(* unblocks the head waiter and sets the value to 1; then the while test   *)
(* runs again.                                                             *)
Resume(t) ==
    /\ pc[t] = "wait"
    /\ LET lw == IF lwaiters = <<>> THEN lwaiters ELSE Tail(lwaiters)
           bl == IF lwaiters = <<>> THEN blocked ELSE blocked \ {Head(lwaiters)}
       IN Loop(t, 1, lw, NULL, bl)

(* A keyboard interrupt: intr_keyboard_handler reads the byte the 8042    *)
(* sends and, for a character, puts it only if the buffer is not full (it *)
(* is dropped otherwise), so the handler never waits.                     *)
KeyboardIntr ==
    /\ \E sc \in DeviceBytes :
          /\ KeyDevice(sc)
          /\ KeyboardHandler(sc)
          /\ IF PutsChar(sc) /\ ~IoqueueFull
                THEN PutByte(blocked)
                ELSE UNCHANGED <<buf, head, tail, waiter, blocked, nextPut, lastRead>>
    /\ UNCHANGED <<value, lwaiters, holder, pc, halted>>

(* What task t does when the scheduler runs it.                            *)
Step(t) ==
    /\ t \notin blocked
    /\ Call(t) \/ SemaRetry(t) \/ Resume(t)
    /\ UNCHANGED kbdVars

(* After a failed ASSERT panic_spin spins with interrupts off: no step.    *)
Next == ~halted /\ (KeyboardIntr \/ \E t \in Tasks : Step(t))

(* schedule is round robin and runs every READY task again and again; a   *)
(* task that is not blocked stays able to step until it steps.  Key       *)
(* presses are not assumed to go on.                                       *)
Fairness == \A t \in Tasks : WF_vars(Step(t))

Spec == Init /\ [][Next]_vars /\ Fairness

-----------------------------------------------------------------------------

TypeOK ==
    /\ buf \in [Slots -> Bytes]
    /\ head \in Slots /\ tail \in Slots
    /\ waiter \in [Roles -> Tasks \cup {NULL}]
    /\ value \in {0, 1} /\ lwaiters \in Seq(Tasks) /\ holder \in Tasks \cup {NULL}
    /\ pc \in [Tasks -> {"call", "lock", "wait"}]
    /\ blocked \subseteq Tasks
    /\ nextPut \in Bytes /\ lastRead \in Bytes
    /\ halted \in BOOLEAN
    /\ KbdTypeOK

(* The number of bytes in the ring, from tail up to head.                  *)
Count == (head + BufSize - tail) % BufSize

(* The ring holds, from tail to head, the bytes after the last one read,   *)
(* in the order they were put, and nothing was put that is not there or    *)
(* read: no byte is lost, duplicated or overtaken, however the keyboard    *)
(* interrupt, producers and consumers interleave with the full and empty   *)
(* tests of ioqueue_putchar, ioqueue_getchar and the keyboard handler.     *)
RingFifo ==
    /\ nextPut = (lastRead + 1 + Count) % NByte
    /\ \A k \in 0..Count - 1 : buf[(tail + k) % BufSize] = (lastRead + 1 + k) % NByte

(* A task blocked in ioqueue_wait is the one recorded in its slot (else   *)
(* no wakeup reaches it), and holds ioq->lock; a task blocked in          *)
(* sema_down is on the semaphore's waiters list; a slot never names a     *)
(* task that is not blocked there; and the ASSERT of ioqueue_wait that    *)
(* its slot is free never fails.                                           *)
WaitersConsistent ==
    /\ ~halted
    /\ \A r \in Roles : waiter[r] # NULL =>
          waiter[r] \in blocked /\ pc[waiter[r]] = "wait" /\ Role(waiter[r]) = r
    /\ \A t \in Tasks : pc[t] = "wait" /\ t \in blocked => waiter[Role(t)] = t
    /\ \A t \in Tasks : pc[t] = "wait" => holder = t
    /\ value + Cardinality({t \in Tasks : pc[t] = "wait"}) = 1
    /\ \A t \in Tasks : (pc[t] = "lock" /\ t \in blocked) <=>
          \E i \in 1..Len(lwaiters) : lwaiters[i] = t

(* A byte in the buffer is eventually read: the tail moves on, however    *)
(* the consumers' emptiness tests went stale while they queued for the    *)
(* lock, and even if no key is pressed again.                              *)
NoStrandedByte == \A s \in Slots : (~IoqueueEmpty /\ tail = s) ~> tail # s

(* The I/O queue never leaves every thread blocked with no way out: when   *)
(* all of them are blocked, one waits in ioq->consumer and the buffer has *)
(* room, so the next key wakes it.  Otherwise the keyboard drops every key *)
(* (the buffer is full) or wakes nobody, and no thread runs again.         *)
NoIoDeadlock == blocked = Tasks => waiter["consumer"] # NULL /\ ~IoqueueFull

=============================================================================
