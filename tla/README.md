# A TLA+ verification of Jobbed

Jobbed is a small real-time kernel for one core of a Raspberry Pi 2 (ARMv7).
Threads run in user mode and ask the kernel for everything by a supervisor call
(`svc #n`); the scheduler keeps them on FIFO queues of 20 priorities, and locks
have priority inheritance. This directory holds TLA+ modules of that kernel, TLC
configurations that check them on small instances, and proofs, checked by TLAPS,
that hold for every number of threads, priorities, locks and semaphores. Paths
below are relative to the repository (`src/`).

## Inventory

| Component | State | Operations | Interacts with |
|---|---|---|---|
| Queues (`kernel/lib/queue.c`) | singly linked entries between a start and an end entry; `end.next` points at the last entry | push, prepend, pop, remove the next entry, find a value | scheduler, mutex manager |
| Scheduler (`kernel/sys/schedule.c`, `schedule.S`) | pool of threads with pid, priority, old priority, the object waited for; ready, mwait and swait queues per priority, the free queue; `rthread`, `nextpid` | start a thread, switch to the best ready thread, yield, block on a lock (promoting its owner), wake after an unlock (demoting the caller), block on and wake from a semaphore, return of a thread | called from `svc.S`; `cleanup` from user mode; interrupt handlers start threads |
| Supervisor calls (`kernel/exceptions/svc.S`) | none of its own; registers on the supervisor stack | dispatch of 12 calls; the lock and semaphore words are changed here with exclusive loads and stores | threads, scheduler |
| Locks (`kernel/util/lock.c`) | the owner's pid, 0 when free | lock, unlock | supervisor calls 4 and 5 |
| Semaphores | an unsigned value | P, V, increase by N | supervisor calls 6, 7 and 8 |
| Mutex manager (`kernel/util/mutex.c`) | pool of 256 mutexes on a free and a used queue | create, delete, lock (first unlocking and locking again what the caller holds), unlock | queues, calls 4 and 5; runs in user mode |
| Interrupts (`kernel/cpu/irq.c`, `exceptions/irq.S`, `fiq.S`) | handler and information per source; `irqlr`; enable and pending bits, compare and edge registers of the devices | subscribe, unsubscribe, dispatch; timers, UART, GPIO | starts threads, preempts the running one |
| Context switch (`include/macros.inc`, `schedule.S`) | pc, sp and cpsr of each thread, its stack | preserve and restore | supervisor and interrupt paths |
| Time (`kernel/util/time.c`) | none: reads the two words of the system timer | time since boot, wait | call 1; the SD card driver, applications |
| Strings and arithmetic (`kernel/lib/strings.c`, `usr/string.c`, `usr/math.c`) | static buffers | format, compare, copy, root | screen, applications |
| Graphics and mailbox (`kernel/graphics/lfb.c`, `mbox.c`) | address and mode of the frame buffer; the message `mbox` | ask for a frame, draw pixels, boxes, text, numbers | the VideoCore; status, applications |
| SD card (`later/sd.c`, not built yet) | `sd_scr`, `sd_rca`, `sd_err` | initialise, read blocks | card and controller; `wait_msec` |
| UART (`kernel/drivers/uart.c`) | ring buffer, lock | print, flush | nothing calls `uart_print` |
| Status (`kernel/util/status.c`) | what is drawn on the screen | draw the registers, draw the time over them | `lfb.c`, device registers |
| MMU, boot, faults, power, applications, USB | see `PROJECT.json` | | |

What is hard, and what makes the code right:

* **Blind pops.** Five functions pop the head of `ready[rthread->priority]` and
  take it for the running thread. Nothing checks it. It must hold after every
  call, including those that return without a switch (`RunningIsBest`).
* **Retries.** A thread that blocks has its return address moved back to the
  `svc` instruction, so that it repeats the call when it runs again. An unlock
  wakes one waiter and leaves the lock free; anything may happen before that
  waiter runs (`NoLostLockWakeup`, `WaitersRetry`).
* **Priority inheritance.** A blocked caller promotes the owner, wherever it is
  queued; an unlock that finds a waiter demotes. Promotion and demotion must
  keep field and queue together, never lose the original priority, last as long
  as somebody waits and no longer (`QueueMatchesPriority`, `BaseIsKept`,
  `OwnerInherits`, `PromotionEnds`).
* **Order.** FIFO within a level, the best and oldest waiter first, round robin
  (`NoOvertaking`, `BestWaiterFirst`, `BestSignalledFirst`, `RoundRobin`).
* **Conservation.** Every thread of the pool is on exactly one queue
  (`ThreadsConserved`), although entries move between queues of three kinds.
* **Numbers.** Pids wrap around at 2^32, priorities are bytes, semaphores wrap.
* **Mutexes.** `lock_mutex` gives up and takes again what its caller holds, in
  order to prevent deadlock, while other threads run and the manager's queues
  change, and a mutex may be deleted in the hands of its owner (`NoDeadlock`,
  `KeepsWhatItHeld`, `BlocksNoBetterWaiter`, `StrandedByRecycling`,
  `ImplementsService`).
* **Interrupts** strike between any two statements that run in user mode:
  clients, `subscribe_irq`, and `cleanup`, which stores into the scheduler's
  queues (`NeverListedTwice`, `PoolAccounted`, `ContextIntact`, `RunsTheBest`,
  `StartedAsSubscribed`, `OneShotOnce`, `Acknowledged`).
* **A card that fails**, late answers and what an earlier call left unfinished
  (`ReadsWhatWasAsked`, `AgreesWithCard`, `FailsForAReason`).
* **A clock that runs** while it is read in two halves (`NeverAhead`,
  `WaitsLongEnough`), **text** written backwards into buffers that are used
  again (`NumbersReadBack`), **pixels** written through a pointer
  (`ShowsWhatWasAsked`), **a page** drawn over an older one (`ShowsTheLatest`).

`PROJECT.json` lists each hazard at its line.

## Modules

| Module | What it is |
|---|---|
| `ThreadQueues` | `queue.c` and the push/pop pairs of `schedule.c` as operators on a family of sequences |
| `ThreadQueuesProofs` | what each operator keeps: types, one position per entry, who is where |
| `QueueMemory` | the memory of `next` pointers: push and pop on it, and what it is for it to represent a sequence |
| `LinkedQueues` | `queue.c` with its pointers, next to the sequences they stand for; extends `QueueMemory` |
| `LinkedQueuesProofs` | the pointers always represent the sequences, and `find_value` is right about them |
| `Scheduler` | the scheduler with supervisor calls 0 and 2 to 7, for arbitrary clients; its properties |
| `SchedulerProofs` | the inductive invariant and the theorems |
| `PriorityInheritance` | `Scheduler` with clients that use locks as intended, to judge the inheritance protocol |
| `PriorityInheritanceProofs` | the theorems about inheritance, without nesting |
| `SemaphoreIncrease` | `Scheduler` with call 8, which can stop the processor |
| `SemaphoreIncreaseProofs` | the invariant of `SchedulerProofs` with call 8, and whom a signal wakes |
| `MutexService` | what mutexes promise: at most one owner each, asked for, put down by a toggle and taken up again, retired at any time |
| `Mutexes` | `PriorityInheritance` with the mutex manager and `lock_mutex`; implements `MutexService` |
| `MutexesProofs` | that it does, that a walk gives back what it unlocked, and that only recycling strands waiters |
| `Interrupts` | the table of `irq.c` statement by statement, the devices behind it, and `c_irq_handler` |
| `Preemption` | `Interrupts` with threads that are switched out anywhere, `cleanup` store by store on the queues' pointers, contexts and `irqlr` |
| `PreemptionProofs` | the invariants of threads and of the interrupt table, and the theorems |
| `SdCard` | `later/sd.c` against a card and a controller that may fail |
| `Text` | `strings.c`, `string.c`, `math.c` |
| `Screen` | `mbox.c` and `lfb.c`: the frame as memory, and as the VideoCore shows it |
| `Clock` | `get_time`, `SYS_TIME` and `wait_msec` |
| `Status` | the page of text of `status.c`, drawn again and again |
| `DevicesProofs` | the theorems about `SdCard`, `Clock`, `Text`, `Status` and `Screen`, which share no state |
| `MC*` | instances for TLC; `MCDevices` holds `SdCard`, `Text`, `Screen`, `Clock` and `Status` |

### How `Scheduler` corresponds to the code

*Granularity.* `svc.S` disables every interrupt on entry and one core runs, so a
supervisor call up to the switch is one atomic step. Between two calls a
thread's own code changes none of this state. `usr/main.c` subscribes to no
interrupt, so this is the whole behaviour of the program as it is built; what
changes when an application does is the subject of `Preemption`.

*State.* `queue` maps the names of the queues of `struct Scheduler` to sequences
of threads (a thread is its `offset`; a queue entry always carries the same
thread). `pid`, `priority`, `old_priority`, `mptr` are the fields of `struct
Thread`. `retry[t]` is the one thing the model keeps of `pc`: the object whose
`SYS_LOCK` or `SYS_SEMAPHORE_P` the thread will execute again, or `Null`.
`lockpid` and `semval` are the words of the locks and semaphores. A `Mutex`
begins with its lock word and is one of `Locks`. Addresses of locks and
semaphores are different.

*Actions.* One per supervisor call, split where the code branches on the lock or
semaphore word: `SvcYield`, `SvcSchedule`, `SvcAddThread`, `SvcLockTaken`,
`SvcLockBlocked`, `SvcUnlock`, `SvcSemaphoreTaken`, `SvcSemaphoreBlocked`,
`SvcSemaphoreV`; and `Cleanup`, a thread's function returning into `cleanup`.
`schedule` is the switch at the end of a call. It is absent exactly where
`svc.S` leaves through `svc_exit`. `find_pid` and its siblings return the entry
before the one they found; here they return its position. The position that the
scan finds first is chosen by `IsFirst` among all that match, in the order
level, kind of queue, place.

*Left out.* Registers and stacks, the cycle counter (call 9), the enable bit of
the core's timer (A and B). The failure of a store-exclusive, which needs
another observer. A thread that calls with a wild address.

### How the other modules correspond

`Mutexes`. `create_mutex` and `delete_mutex` make no supervisor call and are one
step each. `lock_mutex` is one step per supervisor call: the search for the
mutex in the used queue (`LockMutex`), per mutex that the caller holds an unlock
(`ToggleUnlock`) and a lock that may block and be repeated (`ToggleLock`), and
the lock it was called for (`FinalLock`). Between them the walk stands at an
entry of the manager's queue, which other threads may meanwhile have moved, and
`NextHeld` goes on from wherever that entry now is (`WalksOn`). `delete_mutex`
checks nothing, and neither does `DeleteMutex`: any thread deletes any mutex at
any time, one that is owned, waited for or in the middle of a walk, as
`usr/tests/test.c:175-183` and `200-208` do. `misused` is a history variable
that says whether that has happened. The walk does not meet a mutex that is not
in the used queue, so that it is not toggled: `NoDeadlock` therefore looks at
`misused`, and `BlocksNoBetterWaiter` speaks of managed mutexes.
What else goes wrong comes later, when `create_mutex` hands the mutex out again
and clears its lock word (`Recycled`): its owner loses it and its waiters are
left behind. `KeepsWhatItHeld` and `StrandedByRecycling` say that no other step
does either.

*Refinement.* `MutexService` has four variables: the managed mutexes, the owner
of each, what each user asks for, and what it has put down and not taken up
again. `Mutexes` maps a mutex to the listed thread whose pid is in its lock
word, and a call of `lock_mutex` to its argument and to the entry that it
toggles (`Service`). A mutex may be retired at any time and keeps its owner
until it is created again. Every step of manager and scheduler is then a step of
the service or changes nothing of it: pids, promotions, wait queues and walks
that go on from a moved entry never give a mutex to two threads, to one that did
not ask for it or has returned, and a toggle takes up what it put down.

`Interrupts` and `Preemption`. `c_irq_handler` runs masked and is one step; an
interrupt is possible before each statement of user mode that matters to it. A
thread's `pc` is the name of that statement. `left` remembers where each thread
last left user mode, to be compared with where it goes on. The compare bits of
the timers are seen whether the source is enabled or not, as the code reads
`SYS_TIMER_CS`; UART and GPIO are seen through the pending word. A null
`handler_info`, read when a handler is set before its information, has arbitrary
contents. One thread at a time is in `subscribe_irq` or `unsubscribe_irq` for
one source; two that are there together can leave handler and information of
different subscriptions, which the code does nothing about. `main` is there at
the start, at level 0 (`core.c:44`).

`cleanup` runs in user mode with interrupts enabled (`schedule.S:29`). Its pop
from the ready queue and its push to the free queue are therefore taken store by
store (`CleanupRead`, `CleanupUnlink`, `CleanupUntail`, `CleanupLink`,
`CleanupAppend`, `CleanupClose`) on `next`, the memory that `QueueMemory`
describes, while handlers that come between them pop and push the same queues
whole. Where that can go wrong the step has a `Window`:

* "queue": inside the two functions, where a value already read is stored later
  or a start and an end entry disagree: from where the pop has read that it
  takes the last entry, or has not told the end entry yet, to its last store; in
  the push from its first store to its last.
* "pool": between the pop and the push the entry is on no queue.
* "context": between `c_cleanup` and the load of `sp`, when the context of the
  thread that has returned, or that of the idle loop, goes where another
  thread's may be by then.

`struck` records the windows in which an interrupt has switched threads. After
"queue" the pointers need not form lists any more; the run goes on with them for
`MaxAftermath` further interrupts that switch. `NeverListedTwice` and the
three properties of the interrupt table hold as long as "queue" was not struck,
`PoolAccounted` if neither "queue" nor "pool", `ContextIntact` if neither
"queue" nor "context"; `RunsTheBest` holds always. The windows are faults of the
code; the properties say that outside them an interrupt does no harm. Two things
are left out: a pop by `c_cleanup` from a queue that a strike has emptied, which
takes the end entry of the queue for a thread, and the two words that
`c_irq_handler` loses of the stack of a running thread that is added again.

`SdCard`. One step per command or wait. A loop that polls is the way it ends: in
time, with an error flag, or with the count at zero, and then the card may have
executed the command or not (`Outcomes`). The card follows its state diagram: it
answers a command only in the state where it may come. `blame` says that a call
met a fault, or what an earlier one left behind. Three calls in the code fail
without a fault and are in the model: a card that does not report the voltage is
refused (`sd.c:287`), the sixth successful ACMD41 counts as a time-out, and an
error flag that appears after a wait makes `sd_status` fail in every call until
`sd_init`. The wait for the SCR does not count and may never end.

`Text`. One behaviour calls one function again and again, with its static buffer
kept between calls. `Digit` is the body of the loop that three functions share;
halves of 16 bits keep the width of `unsigned long`.

`Screen`. The pointer loops are kept (`Paint`, `RowStep`); the property knows
coordinates only, reads memory in the VideoCore's own mode and has its own
description of where a text's letters belong. Where the code spills over (a
letter past the end of a row, which in the mode asked for is the letter too many
on a line; `clear_screen` with a pitch that is not the width) the property says
which pixels it does not speak of.

`Clock`. A word is small, so that it wraps often; the counter runs between any
two loads.

`Status`. A call is one step; what was drawn before stays where the call does
not draw, so that a number shorter than the one before must have its old end
cleared. A letter is the text it belongs to and its place there. Only the column
behind the timer's value is left out of `ShowsTheLatest`: nothing clears it
(`status.c:99`), and a digit of a longer value stays there.

### Mutants

Operators marked "Mutant" stand before the definition they vary and are used by
nothing. Each is a plausible slip in the code, kept to show that a property
would notice it.

## Runs

| Run | Checks | Instance |
|---|---|---|
| `Scheduler` | `TypeOK`, `ThreadsConserved`, `QueueMatchesPriority`, `ListedPids`, `NoLostLockWakeup`, `PromotionRemembered`, `BestWaiterFirst`, `BaseIsKept` | 3 threads, 3 levels, 2 locks; 769,386 states |
| `SchedulerMixed` | `RunningIsBest`, `WaitersRetry`, `NoOvertaking`, `RoundRobin` | 3 threads, 2 levels, 1 lock, 1 semaphore; 242,271 states |
| `PriorityInheritance` | `OwnerInherits`, `PromotionEnds` | 3 threads, 3 levels, 2 locks, 1 semaphore; 403,168 states |
| `SemaphoreSignal` | `BestSignalledFirst` | 4 threads, 2 levels, 1 semaphore, calls 7 and 8; 678,254 states |
| `LinkedQueues` | `Linked`, `EntriesConserved`, `FindsWhatIsThere` | 4 entries, 3 queues; 7,701 states |
| `Mutexes` | `NoDeadlock`, `KeepsWhatItHeld`, `StrandedByRecycling`, `BlocksNoBetterWaiter`, `ImplementsService` | 3 threads, of which 2 use mutexes at a time, 3 levels, one thread each, 2 mutexes, deleted at any time; 541,316 states |
| `Interrupts` | `NeverListedTwice`, `PoolAccounted`, `ContextIntact`, `RunsTheBest`, `StartedAsSubscribed`, `OneShotOnce`, `Acknowledged` | 2 or 3 threads, 2 levels; a timer, a timer and the UART, or the GPIO bank with 2 pins; 2,306,559 states |
| `Devices` | of `SdCard`: `ReadsWhatWasAsked`, `AgreesWithCard`, `FailsForAReason`; of `Text`: `NumbersReadBack`, `ComparesAndCopies`, `RootIsFloor`; of `Screen`: `ShowsWhatWasAsked`; of `Clock`: `NeverAhead`, `WaitsLongEnough`; of `Status`: `ShowsTheLatest` | 19 kinds of card, 2 faults; 12 numbers, 1,131 roots; a screen of 4 letters; words of 4 ticks; two calls of 17 readings over an older page; 192,706 states |
| `PriorityInheritanceNested` | finds `OwnerInherits` violated | nested critical sections |
| `SemaphoreWakeup` | finds `NoLostSemaphoreWakeup` violated | 3 threads, 1 level |
| `SemaphoreIncrease` | finds `IncreasesByN` violated | calls 7 and 8 |
| `MutexDeadlock` | finds `NoDeadlock` violated | 3 threads, 1 level, 2 mutexes |

*Bounds.* Three threads are an owner, a waiter and a third that comes between,
or an owner and two waiters of one or two levels; three levels let an owner be
promoted twice, and let a promoted thread meet threads that started above,
beside and below it. Pids are counted modulo 7 or 8 with five kept for the
cores, so that two or three values go round and pids of living threads are
handed out again (in `PriorityInheritance` a start waits for a fresh pid).
Semaphores count modulo 2 or 3, so that they wrap. The pool runs empty.
`LinkedQueues` has room for the first, the last, the only and a middle entry of
a queue, and for stale pointers into two other queues. The theorems remove these
bounds for the safety properties they state. Deadlock is not checked: when no
thread is ready the kernel waits in `usrloopthread` for an interrupt. In
`Mutexes` two threads are in `lock_mutex` or own a mutex at a time
(`MaxLockers`), no two have the same level (`SharedLevels`), and there are two
mutexes; these are the conditions under which `NoDeadlock` holds: see
`MutexDeadlock`. `BlocksNoBetterWaiter` is stated for two mutexes, because with
three two lockers violate it: a walk that has passed a mutex does not come back
to it. `KeepsWhatItHeld`, `StrandedByRecycling` and `ImplementsService` are
proved without any of these bounds. In `Interrupts` one window is struck
(`MaxStrikes`), and one more interrupt switches threads after a "queue" window
was (`MaxAftermath`); the instances (`Clients`) are chosen so that a source is
subscribed again with other information while the first one's threads run, that
a timer's interrupt coincides with another source's, and that the pool runs
empty. `Devices` has one part in each behaviour (`part`): they share no state,
so that a product would show nothing more. Two faults are enough for one call to
leave something unfinished and the next one to fail again while it meets it; the
cards have one feature at most, because features are looked at one by one, and
answer "busy" so often that ACMD41 succeeds at once, at the last try that
counts, and at the sixth. Numbers are those at which the count of digits, the
sign or the carry between halves changes; roots are all up to 1,100 and the
neighbours of squares up to 2^31. The screen is two letters wide and high, so
that a text wraps twice, and its texts are up to five letters. `MaxRun` lets the
timer's lower word wrap twice in a call. The readings of `Status` are numbers of
different lengths and all the colours. Locks are interchangeable (symmetry) in
the runs without liveness.

*Fairness* (`FairSpec`). `WF(SvcYield)`: a thread that runs and could yield goes
on to do so or something else; the processor executes instructions, and clients
give up the processor now and then, which the scheduler, having no time slices,
relies on. `WF(Repeat)`: a thread at a call to repeat executes it. Nothing is
assumed of unlocks, signals or returns.

### What the violations show

* `SemaphoreWakeup`: two threads wait, a third signals twice. The second V finds
  the value 1 and makes it 2; `svc.S:107` looks for a waiter only when the new
  value is 1. The first waiter takes one unit; the second waits on although the
  value is 1.
* `SemaphoreIncrease`: at call 8 the flags left by the dispatch make the
  conditional store a no-op; the value never changes, and if it was positive the
  loop does not end.
* `MutexDeadlock`: two threads of one priority lock two mutexes in different
  orders. The first to block toggles the mutex it holds while nobody waits for
  it, and has it back. The second one's toggle wakes the first, but an unlock
  leaves the caller at the head of the ready queue of their level: it takes its
  mutex back too, blocks, and the woken one finds the mutex taken again. With
  three threads at different priorities the same happens, because a thread that
  is woken for its last `SYS_LOCK` does not toggle again; with three mutexes two
  threads of different priorities are enough, because the `SYS_LOCK` of a toggle
  can block with another mutex in hand (neither is a regular run).
* `PriorityInheritanceNested`: a thread that owns two locks, each waited for by
  a better one, is demoted by the first unlock.

## Proofs

Each `...Proofs` module extends the module it is about. All theorems hold for
every value of the constants that the named assumptions of the modules allow:
for `Scheduler` at least one thread, 1 to 255 priorities (20 in the code),
priorities passed to `add_thread` are naturals, locks, semaphores and null are
different addresses, pids counted modulo more than 5 and semaphores modulo more
than 1 (both 2^32).

`ThreadQueuesProofs` has, for any family of queues over any set of entries, what
pop, push, prepend and remove do to the positions of entries, and from that the
effect of a move: the entry is in the target queue and nowhere else, all others
are where they were (`Moved`), and no two that stay on a queue change their
order.

`LinkedQueuesProofs` proves that `Linked`, `EntriesConserved`,
`FindsWhatIsThere` and types hold for any number of queues and entries. `queue`
in `LinkedQueues` is an auxiliary variable: each operation changes the memory as
the C code does and `queue` by the operator of `ThreadQueues`, and `Linked`
relates the two. `EntriesConserved` is needed for it: only because no entry is
on two queues does an assignment to one entry leave all other queues as they
were. So the queues of `Scheduler` may be sequences. The discipline it takes
(only entries on no queue are pushed) is what `ThreadsConserved` proves of
`Scheduler`. That `find_value` visits the entries of the sequence in their order
is shown by taking the least place where the walk along the pointers would
differ (`VisitedFacts`); that the walk is long enough follows from the
cardinality of the entries (`LengthIsBounded`).

`SchedulerProofs` proves `Spec => []IInv` where `IInv` is the conjunction of
`TypeOK`, `ThreadsConserved`, `QueueMatchesPriority`, `RunningIsBest`,
`WaitersRetry`, `ListedPids` and `PromotionRemembered`. `NoLostLockWakeup` is
proved beside it, lock by lock (`WakeUpsKept`): no supervisor call takes the
wake-up of any lock away, which the proof about mutexes needs in a state where
one lock has lost its own. No
conjunct is inductive alone: that a call pops the caller needs `RunningIsBest`;
that `schedule` restores it needs `QueueMatchesPriority`; a move needs the
partition; a woken thread takes the lock because of `WaitersRetry`; a lock that
was taken is not free because of `ListedPids`; a demoted thread's new queue
exists and differs from the old one because of `PromotionRemembered`. There is
one lemma per supervisor call. The two outcomes of `SYS_LOCK` on a taken lock
(owner promoted or not) and of `SYS_UNLOCK` (caller demoted or not) share one
argument, stated for a set of at most one moved thread. The action properties
`BaseIsKept`, `NoOvertaking` and `BestWaiterFirst` follow from the same
invariant and the order lemmas; `BaseIsKept` needs that the demoted head is the
caller (`DemotesCaller`).

`PriorityInheritanceProofs` assumes `~ Nesting` (a thread holds one lock at a
time: with nesting `OwnerInherits` is false, see the run) and proves
`OwnerInherits` and `PromotionEnds`. `DInv` adds to `IInv`: every lock word
names exactly one listed thread (`Ownership`, which holds with nesting too); the
thread woken for a free lock is as good as any that waits for it (`BestWoken`),
because when it takes the lock it owns it without having been promoted; whoever
waits owns nothing (`WaitersOwnNone`), because a waiter is not on a ready queue
when it is promoted; and a promoted thread owns a lock that somebody waits for
(`PromotedForSomebody`), which is what ends a promotion.

`MutexesProofs` proves that `Mutexes` implements `MutexService`, with nesting,
for any number of threads in `lock_mutex` and whatever is deleted in use,
`KeepsWhatItHeld`, and `StrandedByRecycling` (`OnlyRecyclingStrands`). `MInv`
adds to `IInv` and `Ownership` that the manager keeps each mutex once, and that
each call under way is that of a listed thread that asked for a mutex and, in a
toggle, stands at one. Each action of `Mutexes` has a lemma that gives its step
of the service or a stutter. That nothing but `create_mutex` strands a waiter
follows from the scheduler's wake-ups (`WakeUpsKept`): all other steps are steps
of the scheduler or leave it alone.

`PreemptionProofs` has two invariants. `PInv` says that unless a "queue" window
was struck `ThreadsOK` holds: the memory represents sequences, each entry is on
one queue at most, and every place where a context may be (in the processor or
switched out) has what makes it safe to go on there, so that a thread inside
`c_cleanup` finds the head, the end and the free queue as its next store needs
them. Its memory lemmas come in two kinds. A whole pop or push, as handlers do
it, does to the memory what it does to the sequences (`PopKeepsMemory`,
`PushKeepsMemory`, `MoveKeepsMemory`). Each store of `cleanup` has a lemma of
its own (`UnlinkKeeps`, `UntailKeeps`, `LinkKeeps`, `AppendKeeps`), which says
how far the pop or the push has come. A handler that switches between two of
them strikes the window there is, and where there is none the context that is
saved finds later what it needs. What `PoolAccounted` and
`ContextIntact` need is conditional on their windows, as they are.
`NeverListedTwice`, `PoolAccounted` and `ContextIntact` follow. `RunsTheBest`
has an invariant of its own (`BestInv`): a context in its own code was switched
to from the head of the best queue that the memory shows, whatever has become of
the memory. `TInv` is about the table and the devices, again unless a "queue"
window was struck: nobody else is busy with a source while a thread is in
`subscribe_irq` or `unsubscribe_irq` for it, so that what it stored is still
there; a handler is that of the information next to it except in between; an
enabled source has both; a one-shot timer that shot is not enabled; edges are
those that were asked for. `StartedAsSubscribed`, `OneShotOnce` and
`Acknowledged` follow. The assumption `NoneAssumption` of `Interrupts` keeps the
null pointer apart from records of information.

`SemaphoreIncreaseProofs` carries `IInv` over to `IncreaseSpec`, in which call 8
may move any number of waiters in one step (`IncreaseInvariant`; in particular
`ThreadsConserved`), and proves `BestSignalledFirst` for calls 7 and 8. A turn
of the loop moves the first waiter, which `ThreadQueuesProofs` describes; what
any number of turns keep is stated once (`Resurrected`): every thread is ready
with its mptr cleared or where it was, in the same order, and one that was woken
comes before one that was not. That it holds after each turn is shown by taking
the first turn after which it would not. `RunningIsBest` needs that the call
switches threads whenever it has woken one.

`DevicesProofs` has a section for each of four modules.

*SD card.* The three properties hold for every kind of card, every request and
any number of faults. `SInv` is a table of what holds at each step: in `sd_init`
no error flag is set and the bus is one bit wide (`InitOK`), ACMD41 has counted
down the card's busy answers (`OpCondOK`), between calls driver, controller and
card agree (`ReadyOK`), and in `sd_readblock` the card is about to send the next
block of those asked for and has as many left as the driver will take
(`ReadOK`). It rests on what a command does to a card (`Reactions`,
`IssueFacts`, `AppFacts`): one that succeeded was executed and met no fault, and
one that the card takes fails only for a fault. So within a call everything
before the current step went well, ACMD41 and ALL_SEND_CID aside, whose failure
the code survives: there the next command succeeds only if the card is where it
should be.

*Clock.* `NeverAhead` and `WaitsLongEnough` hold for words of any size. Between
the two loads, the upper word lies between those of the call's start and of now
(`UpperMonotone`); and the remainder of a difference is at most the difference
(`ElapsedAtLeast`), so that a wrapped subtraction never says that more ticks
went by than did.

*Text.* `RootIsFloor` holds for every number of 32 bits (`SquaresAssumption`)
although its last step is recursive: `RootSoFar` relates the loop's two
variables to a root that is at most one step of the current bit too low,
`NextBit` keeps it, and a first bit that breaks it would contradict that.
`ComparesAndCopies` holds for strings of any length that the caller's buffer
holds (`StringsAssumption`): the place where the loops stop exists and is the
only one of its kind (`FirstStop`), and up to it the two strings are the same.

`NumbersReadBack` holds for every word of 32 bits and each of the five
functions. What the loop does is stated against the list of quotients of the
number by its base (`Quotients`): after i turns the last i remainders stand in
their places, the point among them, and the i-th quotient is left (`SoFar`,
`SoFarStep`); ten turns are enough (`TenDigits`), and behind the last digit
nothing is written (`LeftAlone`), so that the NUL put there at the beginning
ends every text. In the other direction, a text of the remainders of x reads as
x (`DigitsRead`). Both rest on what dividing and multiplying two halves does to
their value (`DividedBy10`, `Multiplied`). The invariant `FormatInv` says of
each function's buffer that the number last formatted stands in front of that
NUL, with a minus sign where it is negative.

*Status.* `ShowsTheLatest` holds for all readings with one mode of the screen
and one frequency of the timer, which are set at boot (`ModeAssumption`). The
invariant is that each line shows letters only where its texts for one of the
readings are (`LettersInPlace`); and wherever these are, the texts of another
reading, or its blanks, are too, but for the column behind the timer's value
(`Overdrawn`). This rests on a number having one to ten digits (`Widths`) and on
27 and 11 blanks being enough for the difference.

*Screen.* `ShowsWhatWasAsked` holds for every mode in which the boxes that are
drawn lie inside the screen (`ScreenAssumption`; the requested mode is 1920 by
1080, the boxes of the picture are 240 by 80, and no function clips), every font
and every text. The walk of the pointer has a closed form (`Rows`): row j of a
box starts j pitches behind its first. A pixel that is not in a row above, past
the pitch (`Clear`), can then only be met by the row and the column that it has
on the screen (`RowOfPixel`), which gives what a box shows (`Painted`); a box
that ends inside the screen never leaves its row (`BoxShown`). The loop over a
text reaches the places that the property computes by division (`SpotFacts`),
and of the letters at one place the last stays (`TextShown`). The invariant adds
that the driver has no frame or the mode of the VideoCore, and that nothing is
drawn before that is settled (`ModeInv`).

The types of `Scheduler` and `SdCard` are part of their invariants, those of
`LinkedQueues` a theorem (`PointersAreTyped`).

What stays with TLC, and why:

* `RoundRobin`: liveness, which the provers cannot do.
* `NoDeadlock` and `BlocksNoBetterWaiter`: true for two lockers of different
  levels, the bounds of the run, and false beyond (for the latter, with a third
  mutex); a proof would be one for the instance.

## Not modelled

* *UART buffer.* `uart_print` is the only function that fills it and is not
  called; `find_duplicate`, which only it uses, does not return when the running
  thread's ready queue has another pc at its head, as it nearly always has.
* *The core's own timer and the fast interrupt.* `subscribe_irq` routes the
  timer to FIQ (`irq.c:169`), and F is masked from boot on.
* *`uart_scheduler`* prints and changes nothing. `length` is 0 before each of
  its walks but the last: the number it prints for the free threads includes the
  waiters of the last semaphore level (`schedule.c:321`).
* *MMU, boot, power, USB, fault handlers.* Register writes in a straight line,
  without decisions that a property could be about; the fault handlers print and
  go on.
* *Registers and flags.* `preserve_ctx` saves `spsr_svc` also for a thread that
  was preempted, whose flags are in `spsr_irq` (`macros.inc:28`); to model it
  takes the flags of client code.
* *Interrupts inside `create_mutex`, `delete_mutex` and the walk of
  `lock_mutex`.* `Mutexes` has no interrupts, as the program that is built.
* *Applications.* Threads make any call of those listed; the comments of
  `usr/tests` are used for the properties.
* *Two simultaneous calls of one driver*, which no code prevents.

## Plan

1. The mutex manager under interrupts: `create_mutex` and `delete_mutex` store by
   store on `QueueMemory`, as `cleanup` is in `Preemption`.
2. The flags of client code, for the `spsr` that `preserve_ctx` saves.
