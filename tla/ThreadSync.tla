----------------------------- MODULE ThreadSync -----------------------------
(***************************************************************************)
(* The task scheduler of thread/thread.c, the timer interrupt handler of   *)
(* device/timer.c and the semaphore and reentrant lock of thread/sync.c,   *)
(* on the single CPU of the kernel.                                        *)
(*                                                                         *)
(* One step of the model is what the CPU does between two points where a   *)
(* timer interrupt may be taken: code that runs with interrupts disabled   *)
(* (sema_down, sema_up, schedule, thread_block, thread_unblock) is part of *)
(* one step.  The workers are the kernel's lock clients (pool locks,       *)
(* pid_lock, the ioqueue lock): each one repeatedly takes the lock L,      *)
(* possibly re-enters it once more, and releases it.                       *)
(***************************************************************************)
EXTENDS Naturals, Sequences, FiniteSets

CONSTANTS
    Main,       \* main_thread, made a task by make_main_thread
    Idle,       \* idle_thread, created by thread_init
    Workers,    \* threads created later by thread_start that use lock L
    Prio,       \* Prio[t]: the priority, which is also the time slice
    MaxNest,    \* bound on the reentrant depth holder_repeat_nr
    MainIntr,   \* the interrupt flag main runs with after init_all
    NULL        \* the NULL task pointer

Tasks == {Main, Idle} \cup Workers

ASSUME /\ Main \notin Workers /\ Idle \notin Workers /\ Main # Idle
       /\ NULL \notin Tasks
       /\ Prio \in [Tasks -> Nat]
       /\ MaxNest \in Nat \ {0}

(* enum intr_status.                                                       *)
INTR_OFF == 0
INTR_ON == 1

(* The kernel is entered with interrupts off (no IDT is loaded before      *)
(* idt_init), and nothing main calls in the repository turns them on; the  *)
(* code it calls outside the repository (process_execute, ide_init,        *)
(* filesys_init, sys_open) decides which flag main spins with.             *)
ASSUME MainIntr \in {INTR_OFF, INTR_ON}

VARIABLES
    status,            \* task_struct.status; "UNCREATED" before thread_start
    ready,             \* thread_ready_list, head first
    current,           \* running_thread()
    ticks,             \* task_struct.ticks, the rest of the time slice
    pc,                \* where each task is in its program
    value,             \* L.semaphore.value
    waiters,           \* L.semaphore.waiters, head first
    holder,            \* L.holder
    holder_repeat_nr,  \* L.holder_repeat_nr
    intr,              \* the IF bit of EFLAGS
    resume,            \* resume[t]: the flag t restores when switched back to
    sema_old           \* sema_old[t]: the old_status of t's sema_down

vars == <<status, ready, current, ticks, pc, value, waiters, holder,
          holder_repeat_nr, intr, resume, sema_old>>

\* enum task_status: every caller in the repository blocks with TASK_BLOCKED,
\* and WAITING, HANGING and DIED are never set, so they are left out.
Statuses == {"RUNNING", "READY", "BLOCKED", "UNCREATED"}

(* The program points of the workers. "down" is the re-check of the       *)
(* while loop of sema_down after thread_block returned: interrupts are     *)
(* still disabled there.  "set_holder" is after sema_down returned and    *)
(* before holder is written; "up" after holder was cleared and before     *)
(* sema_up.  "cs_exit" is a critical section that has left its nested     *)
(* acquisition and only releases from now on.                             *)
WorkerPcs == {"ncs", "down", "set_holder", "cs", "cs_exit", "up"}
Pcs == WorkerPcs \cup {"start", "spin", "block", "hlt"}

-----------------------------------------------------------------------------
(* lock_init(&L): no holder, depth 0, and sema_init to 1 with no waiters.  *)
LockInit ==
    /\ value = 1
    /\ waiters = <<>>
    /\ holder = NULL
    /\ holder_repeat_nr = 0

(* thread_init after make_main_thread and thread_start("idle"): main runs, *)
(* idle is READY in the ready list, and L is initialised.  init_thread set *)
(* each task's ticks to its priority.                                      *)
Init ==
    /\ status = [t \in Tasks |-> CASE t = Main -> "RUNNING"
                                   [] t = Idle -> "READY"
                                   [] OTHER    -> "UNCREATED"]
    /\ ready = <<Idle>>
    /\ current = Main
    /\ ticks = Prio
    /\ pc = [t \in Tasks |-> CASE t = Main -> "start"
                               [] t = Idle -> "block"
                               [] OTHER    -> "ncs"]
    /\ LockInit
    /\ intr = MainIntr
    /\ resume = [t \in Tasks |-> INTR_ON]
    /\ sema_old = [t \in Tasks |-> INTR_ON]

(* intr_get_status: the IF bit.                                            *)
IntrOn == intr = INTR_ON

(* intr_enable and intr_disable: the flag they leave; each returns the     *)
(* flag it found, which the callers read as intr before their step.        *)
IntrEnable == INTR_ON
IntrDisable == INTR_OFF

(* intr_set_status(status).                                                *)
IntrSetStatus(s) == IF s = INTR_ON THEN IntrEnable ELSE IntrDisable

(* thread_unblock(t) on the lists st and rq: a task not READY is pushed    *)
(* to the head of the ready list and becomes READY; a READY one is left.   *)
UnblockQueue(t, st, rq) == IF st[t] # "READY" THEN <<t>> \o rq ELSE rq
UnblockStatus(t, st) == IF st[t] # "READY" THEN [st EXCEPT ![t] = "READY"] ELSE st

(* Mutant: schedule puts a preempted task back at the head of the ready  *)
(* list (list_push instead of list_append).                               *)
RescheduleToHead(st, rq, tk, rs) ==
    LET cur     == current
        requeue == st[cur] = "RUNNING"
        st1 == IF requeue THEN [st EXCEPT ![cur] = "READY"] ELSE st
        rq1 == IF requeue THEN <<cur>> \o rq ELSE rq
        tk1 == IF requeue THEN [tk EXCEPT ![cur] = Prio[cur]] ELSE tk
        rq2 == IF rq1 = <<>> THEN UnblockQueue(Idle, st1, rq1) ELSE rq1
        st2 == IF rq1 = <<>> THEN UnblockStatus(Idle, st1) ELSE st1
        next == Head(rq2)
    IN /\ status' = [st2 EXCEPT ![next] = "RUNNING"]
       /\ ready' = Tail(rq2)
       /\ current' = next
       /\ ticks' = tk1
       /\ intr' = rs[next]
       /\ resume' = [rs EXCEPT ![next] = INTR_ON]

(* schedule(), entered with interrupts off, from the status st, ready     *)
(* list rq and slices tk that the caller has already updated, and with rs  *)
(* recording the flag the caller restores once switched back to.  A        *)
(* current task still RUNNING goes to the tail with a fresh slice; if the  *)
(* list is then empty idle is unblocked; the head is popped, made RUNNING  *)
(* and switched to, and returns from switch_to into the code that restores *)
(* its flag before interrupts can be taken (its entry of resume is then    *)
(* spent, and kept at INTR_ON until it is switched out again).             *)
Reschedule(st, rq, tk, rs) ==
    LET cur     == current
        requeue == st[cur] = "RUNNING"
        st1 == IF requeue THEN [st EXCEPT ![cur] = "READY"] ELSE st
        rq1 == IF requeue THEN Append(rq, cur) ELSE rq
        tk1 == IF requeue THEN [tk EXCEPT ![cur] = Prio[cur]] ELSE tk
        rq2 == IF rq1 = <<>> THEN UnblockQueue(Idle, st1, rq1) ELSE rq1
        st2 == IF rq1 = <<>> THEN UnblockStatus(Idle, st1) ELSE st1
        next == Head(rq2)
    IN /\ status' = [st2 EXCEPT ![next] = "RUNNING"]
       /\ ready' = Tail(rq2)
       /\ current' = next
       /\ ticks' = tk1
       /\ intr' = rs[next]
       /\ resume' = [rs EXCEPT ![next] = INTR_ON]

(* thread_block(stat) by the current task: old_status = intr_disable(),   *)
(* mark it blocked and schedule; intr_set_status(old_status) when it runs  *)
(* again.                                                                  *)
ThreadBlock(old) ==
    Reschedule([status EXCEPT ![current] = "BLOCKED"], ready, ticks,
               [resume EXCEPT ![current] = IntrSetStatus(old)])

-----------------------------------------------------------------------------
(* thread_start(t) called by main: init_thread and thread_create, then     *)
(* the new task is appended to the ready list.  Its first switch_to        *)
(* returns into kernel_thread, which calls intr_enable.                    *)
ThreadStart(t) ==
    /\ current = Main /\ pc[Main] = "start"
    /\ status[t] = "UNCREATED"
    /\ status' = [status EXCEPT ![t] = "READY"]
    /\ ready' = Append(ready, t)
    /\ ticks' = [ticks EXCEPT ![t] = Prio[t]]
    /\ resume' = [resume EXCEPT ![t] = IntrEnable]
    /\ UNCHANGED <<current, pc, value, waiters, holder, holder_repeat_nr,
                   intr, sema_old>>

(* main has created its threads and spins in while(1).                    *)
MainSpin ==
    /\ current = Main /\ pc[Main] = "start"
    /\ pc' = [pc EXCEPT ![Main] = "spin"]
    /\ UNCHANGED <<status, ready, current, ticks, value, waiters, holder,
                   holder_repeat_nr, intr, resume, sema_old>>

(* The timer interrupt, intr_timer_handler: a slice at 0 calls schedule,   *)
(* otherwise it is decremented.  The interrupt gate clears IF and the      *)
(* iret of intr_exit restores the flag pushed with EFLAGS, also for a task *)
(* preempted here and switched back to later.  An idle task halted in hlt  *)
(* resumes after the interrupt and loops back to thread_block.             *)
Tick ==
    /\ IntrOn
    /\ pc' = IF pc[Idle] = "hlt" /\ current = Idle
                THEN [pc EXCEPT ![Idle] = "block"] ELSE pc
    /\ IF ticks[current] = 0
          THEN Reschedule(status, ready, ticks, [resume EXCEPT ![current] = intr])
          ELSE /\ ticks' = [ticks EXCEPT ![current] = @ - 1]
               /\ UNCHANGED <<status, ready, current, intr, resume>>
    /\ UNCHANGED <<value, waiters, holder, holder_repeat_nr, sema_old>>

(* idle(): thread_block(TASK_BLOCKED); when it is switched back to it     *)
(* executes sti; hlt.                                                     *)
IdleBlock ==
    /\ current = Idle /\ pc[Idle] = "block"
    /\ ThreadBlock(intr)
    /\ pc' = [pc EXCEPT ![Idle] = "hlt"]
    /\ UNCHANGED <<value, waiters, holder, holder_repeat_nr, sema_old>>

(* One pass of the loop of sema_down(&L.semaphore) with interrupts off,    *)
(* old being the status its intr_disable returned: take the semaphore if  *)
(* its value is positive and intr_set_status(old), otherwise append the   *)
(* task to the waiters and thread_block(TASK_BLOCKED), whose own           *)
(* old_status is INTR_OFF; the task re-checks when it runs again.          *)
SemaDown(t, old) ==
    IF value > 0
       THEN /\ value' = value - 1
            /\ pc' = [pc EXCEPT ![t] = "set_holder"]
            /\ intr' = IntrSetStatus(old)
            /\ UNCHANGED <<status, ready, current, ticks, waiters, resume,
                           sema_old>>
       ELSE /\ waiters' = Append(waiters, t)
            /\ ThreadBlock(IntrDisable)
            /\ pc' = [pc EXCEPT ![t] = "down"]
            /\ sema_old' = [sema_old EXCEPT ![t] = old]
            /\ UNCHANGED value

(* Mutant: lock_acquire takes the reentrant branch whenever the lock is   *)
(* held (holder_repeat_nr > 0) instead of when the caller holds it.       *)
LockAcquireAnyHolder(t) ==
    /\ current = t /\ pc[t] \in {"ncs", "cs"}
    /\ IF holder_repeat_nr > 0
          THEN /\ holder_repeat_nr < MaxNest
               /\ holder_repeat_nr' = holder_repeat_nr + 1
               /\ pc' = [pc EXCEPT ![t] = "cs"]
               /\ UNCHANGED <<status, ready, current, ticks, value,
                              waiters, holder, intr, resume, sema_old>>
          ELSE /\ SemaDown(t, intr)
               /\ UNCHANGED <<holder, holder_repeat_nr>>

(* lock_acquire(&L): the holder re-enters by counting, any other task     *)
(* calls sema_down.  A worker re-enters at most MaxNest deep.              *)
LockAcquire(t) ==
    /\ current = t /\ pc[t] \in {"ncs", "cs"}
    /\ IF holder = t
          THEN /\ holder_repeat_nr < MaxNest
               /\ holder_repeat_nr' = holder_repeat_nr + 1
               /\ UNCHANGED <<status, ready, current, ticks, pc, value,
                              waiters, holder, intr, resume, sema_old>>
          ELSE /\ SemaDown(t, intr)
               /\ UNCHANGED <<holder, holder_repeat_nr>>

(* Mutant: sema_down with "if" for "while": a woken task takes the       *)
(* semaphore without re-checking its value.                               *)
SemaRetryNoRecheck(t) ==
    /\ current = t /\ pc[t] = "down"
    /\ value' = value - 1
    /\ pc' = [pc EXCEPT ![t] = "set_holder"]
    /\ intr' = IntrSetStatus(sema_old[t])
    /\ UNCHANGED <<status, ready, current, ticks, waiters, holder,
                   holder_repeat_nr, resume, sema_old>>

(* The re-check of the while loop of sema_down after a wake-up.           *)
SemaRetry(t) ==
    /\ current = t /\ pc[t] = "down"
    /\ SemaDown(t, sema_old[t])
    /\ UNCHANGED <<holder, holder_repeat_nr>>

(* The rest of lock_acquire after sema_down returned.                     *)
LockSetHolder(t) ==
    /\ current = t /\ pc[t] = "set_holder"
    /\ holder' = t
    /\ holder_repeat_nr' = 1
    /\ pc' = [pc EXCEPT ![t] = "cs"]
    /\ UNCHANGED <<status, ready, current, ticks, value, waiters, intr,
                   resume, sema_old>>

(* Mutant: lock_release without the holder_repeat_nr > 1 test: every     *)
(* release is an outer one.                                               *)
LockReleaseAlways(t) ==
    /\ current = t /\ pc[t] \in {"cs", "cs_exit"} /\ holder = t
    /\ holder' = NULL
    /\ holder_repeat_nr' = 0
    /\ pc' = [pc EXCEPT ![t] = "up"]
    /\ UNCHANGED <<status, ready, current, ticks, value, waiters, intr,
                   resume, sema_old>>

(* lock_release(&L): an inner release only counts down; the outer one     *)
(* clears holder and holder_repeat_nr, then calls sema_up.                *)
LockRelease(t) ==
    /\ current = t /\ pc[t] \in {"cs", "cs_exit"} /\ holder = t
    /\ IF holder_repeat_nr > 1
          THEN /\ holder_repeat_nr' = holder_repeat_nr - 1
               /\ pc' = [pc EXCEPT ![t] = "cs_exit"]
               /\ UNCHANGED holder
          ELSE /\ holder' = NULL
               /\ holder_repeat_nr' = 0
               /\ pc' = [pc EXCEPT ![t] = "up"]
    /\ UNCHANGED <<status, ready, current, ticks, value, waiters, intr,
                   resume, sema_old>>

(* Mutant: sema_up raises the value but wakes no waiter.                 *)
SemaUpNoWake(t) ==
    /\ current = t /\ pc[t] = "up"
    /\ value' = value + 1
    /\ pc' = [pc EXCEPT ![t] = "ncs"]
    /\ UNCHANGED <<status, ready, current, ticks, waiters, holder,
                   holder_repeat_nr, intr, resume, sema_old>>

(* sema_up(&L.semaphore) between intr_disable and intr_set_status(old):   *)
(* pop the head waiter and thread_unblock it, then increment the value.   *)
(* The caller keeps the CPU and gets its flag back.                       *)
SemaUp(t) ==
    /\ current = t /\ pc[t] = "up"
    /\ IF waiters # <<>>
          THEN LET w == Head(waiters) IN
               /\ waiters' = Tail(waiters)
               /\ ready' = UnblockQueue(w, status, ready)
               /\ status' = UnblockStatus(w, status)
          ELSE UNCHANGED <<waiters, ready, status>>
    /\ value' = value + 1
    /\ pc' = [pc EXCEPT ![t] = "ncs"]
    /\ intr' = IntrSetStatus(intr)
    /\ UNCHANGED <<current, ticks, holder, holder_repeat_nr, resume, sema_old>>

(* Mutant: thread_yield appends the task but leaves it RUNNING, so       *)
(* schedule appends it a second time.                                     *)
ThreadYieldKeepRunning(t) ==
    /\ current = t /\ pc[t] = "ncs"
    /\ Reschedule(status, Append(ready, t), ticks, [resume EXCEPT ![t] = intr])
    /\ UNCHANGED <<pc, value, waiters, holder, holder_repeat_nr, sema_old>>

(* Mutant: thread_yield without its final intr_set_status(old_status):    *)
(* the task goes on with the flag schedule left, off.                      *)
ThreadYieldNoRestore(t) ==
    /\ current = t /\ pc[t] = "ncs"
    /\ Reschedule([status EXCEPT ![t] = "READY"], Append(ready, t), ticks,
                  [resume EXCEPT ![t] = IntrDisable])
    /\ UNCHANGED <<pc, value, waiters, holder, holder_repeat_nr, sema_old>>

(* thread_yield(): old_status = intr_disable(), append the current task   *)
(* to the ready list as READY and schedule, keeping its remaining slice;  *)
(* intr_set_status(old_status) once it runs again.                        *)
ThreadYield(t) ==
    /\ current = t /\ pc[t] = "ncs"
    /\ Reschedule([status EXCEPT ![t] = "READY"], Append(ready, t), ticks,
                  [resume EXCEPT ![t] = IntrSetStatus(intr)])
    /\ UNCHANGED <<pc, value, waiters, holder, holder_repeat_nr, sema_old>>

-----------------------------------------------------------------------------
(* Everything the CPU does in the code of task t.                          *)
Step(t) ==
    \/ t = Main /\ (MainSpin \/ \E w \in Workers : ThreadStart(w))
    \/ t = Idle /\ IdleBlock
    \/ t \in Workers /\ \/ LockAcquire(t) \/ SemaRetry(t) \/ LockSetHolder(t)
                        \/ LockRelease(t) \/ SemaUp(t) \/ ThreadYield(t)

Next == Tick \/ \E t \in Tasks : Step(t)

(* The timer line stays raised until the interrupt is taken, so a tick     *)
(* that is enabled again and again is eventually taken (strong fairness);  *)
(* a time slice is long enough for the running task to execute its next    *)
(* step, so a task that is switched to again and again eventually steps.   *)
Fairness == SF_vars(Tick) /\ \A t \in Tasks : SF_vars(Step(t))

Spec == Init /\ [][Next]_vars /\ Fairness

-----------------------------------------------------------------------------
(* The task's program points and list memberships have their types.       *)
TypeOK ==
    /\ status \in [Tasks -> Statuses]
    /\ ready \in Seq(Tasks)
    /\ current \in Tasks
    /\ ticks \in [Tasks -> Nat]
    /\ pc \in [Tasks -> Pcs]
    /\ value \in Nat
    /\ waiters \in Seq(Workers)
    /\ holder \in Workers \cup {NULL}
    /\ holder_repeat_nr \in 0..MaxNest
    /\ intr \in {INTR_OFF, INTR_ON}
    /\ resume \in [Tasks -> {INTR_OFF, INTR_ON}]
    /\ sema_old \in [Tasks -> {INTR_OFF, INTR_ON}]

Occurrences(t, q) == Cardinality({i \in 1..Len(q) : q[i] = t})

(* A task_struct has one general_tag, shared by thread_ready_list and the  *)
(* semaphore waiters list.  schedule, thread_block, thread_unblock,        *)
(* thread_yield, sema_down and sema_up must keep it on exactly the list    *)
(* its status says: the current task alone is RUNNING and on no list, a    *)
(* READY task is on the ready list once, a BLOCKED worker is on the        *)
(* waiters list once (otherwise its wake-up is lost), and no other task is *)
(* on either.                                                              *)
GeneralTagConsistent ==
    /\ \A t \in Tasks : status[t] = "RUNNING" <=> t = current
    /\ \A t \in Tasks :
          /\ Occurrences(t, ready) = IF status[t] = "READY" THEN 1 ELSE 0
          /\ Occurrences(t, waiters) =
                IF t \in Workers /\ status[t] = "BLOCKED" THEN 1 ELSE 0

(* The tasks that have taken L.semaphore in sema_down and not yet given it *)
(* back in sema_up.                                                         *)
SemaOwners == {t \in Workers : pc[t] \in {"set_holder", "cs", "cs_exit", "up"}}

(* Mutual exclusion of lock_acquire/lock_release, across the windows where *)
(* the semaphore is taken but holder is not yet set (after sema_down) or   *)
(* already cleared (before sema_up): the semaphore value and its owners    *)
(* add up to one, so at most one task is in a critical section, and that  *)
(* task is the holder with a positive holder_repeat_nr.                    *)
MutualExclusion ==
    /\ value + Cardinality(SemaOwners) = 1
    /\ \A t \in Workers :
          pc[t] \in {"cs", "cs_exit"} <=> (holder = t /\ holder_repeat_nr > 0)

(* sema_up wakes one waiter and then raises the value; the woken waiter    *)
(* re-checks later.  A waiter must never be left blocked while the         *)
(* semaphore is free and nobody is on the way to take it: whenever the     *)
(* value is 1 and the waiters list is not empty, some woken worker is      *)
(* still due to re-check in sema_down.                                     *)
NoStrandedWaiter ==
    (value = 1 /\ waiters # <<>>) =>
        \E t \in Workers : pc[t] = "down" /\ status[t] \in {"READY", "RUNNING"}

(* The flag a task must run with at its program point: off inside         *)
(* sema_down's loop, main's entry flag for main, and on everywhere else,   *)
(* where the timer must be able to preempt.                                *)
FlagAt(t) == IF pc[t] = "down" THEN INTR_OFF
             ELSE IF t = Main THEN MainIntr ELSE INTR_ON

(* old_status is read before schedule and applied after switch_to returns, *)
(* possibly many switches later: thread_block, thread_yield, sema_down and *)
(* the timer interrupt's iret must each hand a task back the flag it had.  *)
(* The CPU flag is the one the current task's program point calls for,     *)
(* every switched-out task will resume with the one its point calls for,   *)
(* and every task waiting in sema_down will re-enable interrupts when it   *)
(* gets the semaphore.                                                     *)
IntrFlagRestored ==
    /\ intr = FlagAt(current)
    /\ \A t \in Tasks \ {current} :
          status[t] # "UNCREATED" => resume[t] = FlagAt(t)
    /\ \A t \in Workers : pc[t] = "down" => sema_old[t] = INTR_ON

(* Round robin with head insertion of woken tasks starves nobody: every    *)
(* READY task is eventually switched to by schedule.                       *)
ReadyEventuallyRuns ==
    \A t \in Tasks : status[t] = "READY" ~> status[t] = "RUNNING"

(* spec.md 5: "semaphore waiters are served strictly FIFO".  Every worker  *)
(* that waits in sema_down eventually gets the semaphore.                  *)
LockStarvationFree ==
    \A t \in Workers : pc[t] = "down" ~> pc[t] = "set_holder"

(* spec.md 8: "the idle task is only selected when the ready queue would   *)
(* otherwise be empty": idle never runs while another task is READY.       *)
IdleOnlyWhenNoneReady ==
    status[Idle] = "RUNNING" => \A t \in Tasks \ {Idle} : status[t] # "READY"

(* The lock as an abstract reentrant lock: the owner is the task that has  *)
(* taken the semaphore and not yet released (in "set_holder" the depth is  *)
(* already one).                                                           *)
LockOwners == {t \in Workers : pc[t] \in {"set_holder", "cs", "cs_exit"}}
AbsOwner == IF LockOwners = {} THEN NULL ELSE CHOOSE t \in LockOwners : TRUE
AbsDepth == IF AbsOwner # NULL /\ pc[AbsOwner] = "set_holder"
               THEN 1 ELSE holder_repeat_nr
AbsLock == INSTANCE AbstractLock WITH owner <- AbsOwner, depth <- AbsDepth

(* lock_acquire/lock_release implement the abstract reentrant lock.        *)
ImplementsAbstractLock == AbsLock!Spec

=============================================================================
