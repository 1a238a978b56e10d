----------------------------- MODULE Scheduler ------------------------------
(***************************************************************************)
(* The scheduler of kernel/sys/schedule.c with the supervisor calls of     *)
(* kernel/exceptions/svc.S that drive it: threads on FIFO queues of        *)
(* several priorities, locks with priority inheritance, and semaphores.    *)
(*                                                                         *)
(* Granularity.  svc.S masks every interrupt on entry (cpsid aif) and one  *)
(* core runs, so one supervisor call, up to the switch to the thread it    *)
(* chooses, is one step.  usr/main.c subscribes no interrupt handler, so   *)
(* no other step changes this state; the thread's own code between two     *)
(* calls does not touch it either.                                         *)
(*                                                                         *)
(* Threads are arbitrary clients: at each turn the running thread may make *)
(* any call with any argument, or return.                                  *)
(***************************************************************************)
EXTENDS ThreadQueues, Integers

CONSTANTS
    MAX_THREADS,    \* size of the thread pool (0x2000)
    PRIORITIES,     \* number of priority levels (20); 0 is the best
    PriorityArgs,   \* values of r2 that threads pass to add_thread
    Locks,          \* addresses used as struct Lock (a struct Mutex is one)
    Semaphores,     \* addresses used as struct Semaphore
    Null,           \* the null pointer
    PidModulus,     \* pids are counted modulo this (2^32)
    SemModulus      \* semaphore values are counted modulo this (2^32)

ASSUME ThreadsAssumption == MAX_THREADS \in Nat \ {0}
ASSUME PrioritiesAssumption == PRIORITIES \in 1..255
ASSUME PriorityArgsAssumption == PriorityArgs \subseteq Nat
ASSUME AddressAssumption == Locks \cap Semaphores = {} /\ Null \notin Locks \cup Semaphores
ASSUME PidAssumption == PidModulus \in Nat /\ PidModulus > 5
ASSUME SemAssumption == SemModulus \in Nat /\ SemModulus > 1

NULL_PID        == 0
FIRST_AVAIL_PID == 5
NO_PRIORITY     == 255      \* old_priority of a thread that is not promoted

Threads       == 0 .. MAX_THREADS - 1       \* a thread is its offset
usrloopthread == -1
Priority      == 0 .. PRIORITIES - 1
Pids          == FIRST_AVAIL_PID .. PidModulus - 1
Objects       == Locks \cup Semaphores

(* struct Scheduler: the names of its queues. *)
Ready(p) == <<"ready", p>>
Mwait(p) == <<"mwait", p>>
Swait(p) == <<"swait", p>>
Free     == <<"free", 0>>
ReadyQueues == {Ready(p) : p \in Priority}
MwaitQueues == {Mwait(p) : p \in Priority}
SwaitQueues == {Swait(p) : p \in Priority}
QueueNames  == ReadyQueues \cup MwaitQueues \cup SwaitQueues \cup {Free}

VARIABLES
    rthread,        \* scheduler.rthread: the thread that runs
    queue,          \* every queue of the scheduler
    pid,            \* threads[t].pid
    priority,       \* threads[t].priority
    old_priority,   \* threads[t].old_priority
    mptr,           \* threads[t].mptr: what a waiting thread waits for
    retry,          \* the object whose supervisor call threads[t].pc is at:
                    \*   svc.S moves lr back (sub lr, #4) when it blocks
    nextpid,        \* nextpid
    lockpid,        \* Lock.pid of every lock: its owner's pid, or NULL_PID
    semval          \* Semaphore.value of every semaphore

threadVars == <<pid, priority, old_priority, mptr, retry>>
vars == <<rthread, queue, threadVars, nextpid, lockpid, semval>>
-----------------------------------------------------------------------------
(***************************************************************************)
(* State functions of schedule.c.                                          *)
(***************************************************************************)

(* next_thread: the head of the best ready queue that has one. *)
IsNextThread(q, t) ==
    \/ /\ \A p \in Priority : q[Ready(p)] = <<>>
       /\ t = usrloopthread
    \/ \E p \in Priority :
         /\ q[Ready(p)] # <<>>
         /\ \A b \in Priority : b < p => q[Ready(b)] = <<>>
         /\ t = Head(q[Ready(p)])

(* The order in which find_pid and the find_*_wait_next functions scan. *)
KindRank(a) == CASE a[1] = "ready" -> 0 [] a[1] = "mwait" -> 1 [] OTHER -> 2

(* Mutant: the last waiter of a level first.                               *)
ScannedBeforeLIFO(x, y) ==
    \/ x[1][2] < y[1][2]
    \/ x[1][2] = y[1][2] /\ KindRank(x[1]) < KindRank(y[1])
    \/ x[1] = y[1] /\ x[2] > y[2]

ScannedBefore(x, y) ==
    \/ x[1][2] < y[1][2]
    \/ x[1][2] = y[1][2] /\ KindRank(x[1]) < KindRank(y[1])
    \/ x[1] = y[1] /\ x[2] < y[2]
IsFirst(x, S) == x \in S /\ \A y \in S : y = x \/ ScannedBefore(x, y)

(* The positions at which find_pid would stop. *)
PidPositions(q, n) ==
    {x \in Positions(q, QueueNames \ {Free}) : pid[EntryAt(q, x)] = n}

(* The positions at which find_mutex_wait_next, find_signal_wait_next stop. *)
(* Mutant: the search ends after the first level.                          *)
WaitPositionsTop(A, o) ==
    {x \in Positions(queue, A) : x[1][2] = 0 /\ mptr[EntryAt(queue, x)] = o}

WaitPositions(A, o) == {x \in Positions(queue, A) : mptr[EntryAt(queue, x)] = o}

(* SYS_ADD_THREAD's cap on the priority, an unsigned char.  Mutant: > for >=. *)
CappedAboveLast(arg) ==
    IF arg % 256 > PRIORITIES THEN PRIORITIES - 1 ELSE arg % 256

CappedPriority(arg) ==
    IF arg % 256 >= PRIORITIES THEN PRIORITIES - 1 ELSE arg % 256

(* nextpid++ and its reset.  Mutant: no reset after an overflow. *)
PidAfterNoReset(n) == (n + 1) % PidModulus

PidAfter(n) ==
    LET k == (n + 1) % PidModulus IN
    IF k < FIRST_AVAIL_PID THEN FIRST_AVAIL_PID ELSE k
-----------------------------------------------------------------------------
(***************************************************************************)
(* init_scheduler, the add_thread(main, 0, 0) of sysinit and the first     *)
(* svc #2 of kernel_main: main is thread 0 and runs.                       *)
(***************************************************************************)
Init ==
    /\ rthread = 0
    /\ queue = [[a \in QueueNames |-> <<>>] EXCEPT
                   ![Free]     = [i \in 1 .. MAX_THREADS - 1 |-> i],
                   ![Ready(0)] = <<0>>]
    /\ pid = [t \in Threads |-> IF t = 0 THEN FIRST_AVAIL_PID ELSE 0]
    /\ priority = [t \in Threads |-> 0]
    /\ old_priority = [t \in Threads |-> IF t = 0 THEN NO_PRIORITY ELSE 0]
    /\ mptr = [t \in Threads |-> Null]
    /\ retry = [t \in Threads |-> Null]
    /\ nextpid = PidAfter(FIRST_AVAIL_PID)
    /\ lockpid = [m \in Locks |-> NULL_PID]
    /\ semval = [s \in Semaphores |-> 0]
-----------------------------------------------------------------------------
(* schedule: the thread that next_thread finds becomes rthread.            *)
(* Mutant: the running thread stays while it is ready.                     *)
scheduleLazily ==
    IF \E p \in Priority : Holds(queue', Ready(p), rthread)
    THEN rthread' = rthread
    ELSE rthread' \in Threads \cup {usrloopthread} /\ IsNextThread(queue', rthread')

schedule ==
    /\ rthread' \in Threads \cup {usrloopthread}
    /\ IsNextThread(queue', rthread')

(* A thread whose pc is at a call to repeat makes that call and no other.  *)
Running   == rthread # usrloopthread
Fresh     == Running /\ retry[rthread] = Null
AtCall(o) == Running /\ retry[rthread] \in {Null, o}

(* SYS_YIELD: the head of the running thread's queue goes to its end.      *)
(* Mutant: it is put back at the front.                                    *)
SvcYieldToFront ==
    LET own == Ready(priority[rthread]) IN
    /\ Fresh
    /\ queue' = MoveHeadToFront(queue, own, own)
    /\ schedule
    /\ UNCHANGED <<threadVars, nextpid, lockpid, semval>>

SvcYield ==
    LET own == Ready(priority[rthread]) IN
    /\ Fresh
    /\ queue' = MoveHead(queue, own, own)
    /\ schedule
    /\ UNCHANGED <<threadVars, nextpid, lockpid, semval>>

(* SYS_SCHEDULE: only the switch. *)
SvcSchedule ==
    /\ Fresh
    /\ UNCHANGED <<queue, threadVars, nextpid, lockpid, semval>>
    /\ schedule

(* SYS_ADD_THREAD (svc_add_thread): fails only when the pool is empty.     *)
SvcAddThread(arg) ==
    /\ Fresh
    /\ IF queue[Free] = <<>>
       THEN UNCHANGED <<queue, threadVars, nextpid>>
       ELSE LET t == Head(queue[Free])
                p == CappedPriority(arg)
            IN /\ mptr' = [mptr EXCEPT ![t] = Null]
               /\ retry' = [retry EXCEPT ![t] = Null]
               /\ pid' = [pid EXCEPT ![t] = nextpid]
               /\ nextpid' = PidAfter(nextpid)
               /\ priority' = [priority EXCEPT ![t] = p]
               /\ old_priority' = [old_priority EXCEPT ![t] = NO_PRIORITY]
               /\ queue' = MoveHead(queue, Free, Ready(p))
    /\ schedule
    /\ UNCHANGED <<lockpid, semval>>

(* SYS_LOCK on a free lock: the caller's pid is stored and it goes on.     *)
SvcLockTaken(m) ==
    /\ AtCall(m)
    /\ lockpid[m] = NULL_PID
    /\ lockpid' = [lockpid EXCEPT ![m] = pid[rthread]]
    /\ retry' = [retry EXCEPT ![rthread] = Null]
    /\ UNCHANGED <<rthread, queue, pid, priority, old_priority, mptr, nextpid, semval>>

(* The promotion in sched_mutex_yield: the thread at x, which find_pid     *)
(* found to own the lock, gets priority p if its own is worse, and becomes *)
(* ready whatever queue it was on.  q are the queues without the caller.   *)
(* Mutants: the entry stays in its queue; an equal priority promotes; a    *)
(* second promotion overwrites old_priority; nobody is promoted.           *)
PromoteInPlace(q, x, p) ==
    LET t == EntryAt(q, x) IN
    IF priority[t] > p
    THEN /\ old_priority' = [old_priority EXCEPT ![t] =
                                 IF @ = NO_PRIORITY THEN priority[t] ELSE @]
         /\ priority' = [priority EXCEPT ![t] = p]
         /\ queue' = q
    ELSE queue' = q /\ UNCHANGED <<priority, old_priority>>

PromoteEqual(q, x, p) ==
    LET t == EntryAt(q, x) IN
    IF priority[t] >= p
    THEN /\ old_priority' = [old_priority EXCEPT ![t] =
                                 IF @ = NO_PRIORITY THEN priority[t] ELSE @]
         /\ priority' = [priority EXCEPT ![t] = p]
         /\ queue' = MoveFrom(q, x, Ready(p))
    ELSE queue' = q /\ UNCHANGED <<priority, old_priority>>

PromoteForgetting(q, x, p) ==
    LET t == EntryAt(q, x) IN
    IF priority[t] > p
    THEN /\ old_priority' = [old_priority EXCEPT ![t] = priority[t]]
         /\ priority' = [priority EXCEPT ![t] = p]
         /\ queue' = MoveFrom(q, x, Ready(p))
    ELSE queue' = q /\ UNCHANGED <<priority, old_priority>>

PromoteNobody(q, x, p) == queue' = q /\ UNCHANGED <<priority, old_priority>>

Promote(q, x, p) ==
    LET t == EntryAt(q, x) IN
    IF priority[t] > p
    THEN /\ old_priority' = [old_priority EXCEPT ![t] =
                                 IF @ = NO_PRIORITY THEN priority[t] ELSE @]
         /\ priority' = [priority EXCEPT ![t] = p]
         /\ queue' = MoveFrom(q, x, Ready(p))
    ELSE queue' = q /\ UNCHANGED <<priority, old_priority>>

(* SYS_LOCK on a lock that is taken: sched_mutex_yield puts the caller on  *)
(* the wait queue of its priority and promotes the owner; svc.S sets the   *)
(* caller's pc back to the call.                                           *)
SvcLockBlocked(m) ==
    LET p      == priority[rthread]
        q      == MoveHead(queue, Ready(p), Mwait(p))
        owners == PidPositions(q, lockpid[m])
    IN /\ AtCall(m)
       /\ lockpid[m] # NULL_PID
       /\ mptr' = [mptr EXCEPT ![rthread] = m]
       /\ retry' = [retry EXCEPT ![rthread] = m]
       /\ \/ owners = {} /\ queue' = q /\ UNCHANGED <<priority, old_priority>>
          \/ \E x \in owners : IsFirst(x, owners) /\ Promote(q, x, p)
       /\ schedule
       /\ UNCHANGED <<pid, nextpid, lockpid, semval>>

(* The demotion in sched_mutex_resurrect: the head of the running thread's *)
(* ready queue gets the priority kept in rthread's old_priority, and goes  *)
(* to the front of that queue.  q are the queues with the waiter moved.    *)
(* Mutants: old_priority is not cleared; nobody is demoted.                *)
DemoteOnlyPriority(q) ==
    LET p  == priority[rthread]
        op == old_priority[rthread]
    IN IF op # NO_PRIORITY
       THEN /\ priority' = [priority EXCEPT ![Head(q[Ready(p)])] = op]
            /\ queue' = MoveHeadToFront(q, Ready(p), Ready(op))
            /\ UNCHANGED old_priority
       ELSE queue' = q /\ UNCHANGED <<priority, old_priority>>

DemoteNobody(q) == queue' = q /\ UNCHANGED <<priority, old_priority>>

Demote(q) ==
    LET p  == priority[rthread]
        op == old_priority[rthread]
        t  == Head(q[Ready(p)])
    IN IF op # NO_PRIORITY
       THEN /\ priority' = [priority EXCEPT ![t] = op]
            /\ old_priority' = [old_priority EXCEPT ![t] = NO_PRIORITY]
            /\ queue' = MoveHeadToFront(q, Ready(p), Ready(op))
       ELSE queue' = q /\ UNCHANGED <<priority, old_priority>>

(* SYS_UNLOCK: the lock is freed, whoever holds it; sched_mutex_resurrect  *)
(* makes its first waiter ready, if there is one, and demotes the caller.  *)
SvcUnlock(m) ==
    LET waiters == WaitPositions(MwaitQueues, m) IN
    /\ Fresh
    /\ lockpid' = [lockpid EXCEPT ![m] = NULL_PID]
    /\ \/ /\ waiters = {}
          /\ UNCHANGED <<rthread, queue, priority, old_priority, mptr>>
       \/ \E x \in waiters :
            LET t == EntryAt(queue, x) IN
            /\ IsFirst(x, waiters)
            /\ mptr' = [mptr EXCEPT ![t] = Null]
            /\ Demote(MoveFrom(queue, x, Ready(priority[t])))
            /\ schedule
    /\ UNCHANGED <<pid, retry, nextpid, semval>>

(* SYS_SEMAPHORE_P on a positive semaphore. *)
SvcSemaphoreTaken(s) ==
    /\ AtCall(s)
    /\ semval[s] # 0
    /\ semval' = [semval EXCEPT ![s] = @ - 1]
    /\ retry' = [retry EXCEPT ![rthread] = Null]
    /\ UNCHANGED <<rthread, queue, pid, priority, old_priority, mptr, nextpid, lockpid>>

(* SYS_SEMAPHORE_P on a semaphore at zero (sched_semaphore_yield).         *)
(* Mutant: the caller is queued with the waiters for locks.                *)
SvcSemaphoreBlockedOnMwait(s) ==
    LET p == priority[rthread] IN
    /\ AtCall(s)
    /\ semval[s] = 0
    /\ mptr' = [mptr EXCEPT ![rthread] = s]
    /\ retry' = [retry EXCEPT ![rthread] = s]
    /\ queue' = MoveHead(queue, Ready(p), Mwait(p))
    /\ schedule
    /\ UNCHANGED <<pid, priority, old_priority, nextpid, lockpid, semval>>

SvcSemaphoreBlocked(s) ==
    LET p == priority[rthread] IN
    /\ AtCall(s)
    /\ semval[s] = 0
    /\ mptr' = [mptr EXCEPT ![rthread] = s]
    /\ retry' = [retry EXCEPT ![rthread] = s]
    /\ queue' = MoveHead(queue, Ready(p), Swait(p))
    /\ schedule
    /\ UNCHANGED <<pid, priority, old_priority, nextpid, lockpid, semval>>

(* SYS_SEMAPHORE_V: only the step from zero to one looks for a waiter      *)
(* (sched_semaphore_resurrect with count 1).                               *)
SvcSemaphoreV(s) ==
    LET waiters == WaitPositions(SwaitQueues, s)
        v       == (semval[s] + 1) % SemModulus
    IN /\ Fresh
       /\ semval' = [semval EXCEPT ![s] = v]
       /\ \/ /\ v # 1 \/ waiters = {}
             /\ UNCHANGED <<rthread, queue, mptr>>
          \/ \E x \in waiters :
               LET t == EntryAt(queue, x) IN
               /\ v = 1 /\ IsFirst(x, waiters)
               /\ mptr' = [mptr EXCEPT ![t] = Null]
               /\ queue' = MoveFrom(queue, x, Ready(priority[t]))
               /\ schedule
       /\ UNCHANGED <<pid, priority, old_priority, retry, nextpid, lockpid>>

(* A thread's function returns into cleanup: its entry goes to the free    *)
(* queue (c_cleanup) and svc #2 switches.  Locks it holds stay taken.      *)
Cleanup ==
    /\ Fresh
    /\ queue' = MoveHead(queue, Ready(priority[rthread]), Free)
    /\ schedule
    /\ UNCHANGED <<threadVars, nextpid, lockpid, semval>>

Next ==
    \/ SvcYield \/ SvcSchedule \/ Cleanup
    \/ \E arg \in PriorityArgs : SvcAddThread(arg)
    \/ \E m \in Locks : SvcLockTaken(m) \/ SvcLockBlocked(m) \/ SvcUnlock(m)
    \/ \E s \in Semaphores :
           SvcSemaphoreTaken(s) \/ SvcSemaphoreBlocked(s) \/ SvcSemaphoreV(s)

Spec == Init /\ [][Next]_vars
-----------------------------------------------------------------------------
(***************************************************************************)
(* Safety.                                                                 *)
(***************************************************************************)
Listed(t)   == ~ Holds(queue, Free, t)
IsReady(t)  == \E p \in Priority : Holds(queue, Ready(p), t)
Waits(t, m) == mptr[t] = m /\ \E p \in Priority : Holds(queue, Mwait(p), t)

(* Every field keeps its C type; a pid is 0 or one that nextpid can hand   *)
(* out, and a queue holds threads of the pool only.                        *)
TypeOK ==
    /\ rthread \in Threads \cup {usrloopthread}
    /\ queue \in [QueueNames -> Seq(Threads)]
    /\ pid \in [Threads -> Pids \cup {NULL_PID}]
    /\ priority \in [Threads -> Priority]
    /\ old_priority \in [Threads -> Priority \cup {NO_PRIORITY}]
    /\ mptr \in [Threads -> Objects \cup {Null}]
    /\ retry \in [Threads -> Objects \cup {Null}]
    /\ nextpid \in Pids
    /\ lockpid \in [Locks -> Pids \cup {NULL_PID}]
    /\ semval \in [Semaphores -> 0 .. SemModulus - 1]

(* No call loses a thread or links its one entry into two queues: the      *)
(* pool is partitioned into the free, ready, mwait and swait queues, also  *)
(* when find_pid moves a thread that waits for something else.             *)
ThreadsConserved ==
    /\ OnePosition(queue, QueueNames)
    /\ SomePosition(queue, QueueNames, Threads)

(* A listed thread is on a queue of the level its priority field names:    *)
(* promotion and demotion change the field and the queue together.         *)
QueueMatchesPriority ==
    \A p \in Priority : \A a \in {Ready(p), Mwait(p), Swait(p)} : \A t \in Threads :
        Holds(queue, a, t) => priority[t] = p

(* yield, sched_mutex_yield, sched_semaphore_yield, c_cleanup and the      *)
(* demotion pop the head of ready[rthread->priority] without looking: it   *)
(* is always rthread, and no better ready thread is kept waiting, although *)
(* several calls return without a switch.                                  *)
RunningIsBest ==
    /\ IsNextThread(queue, rthread)
    /\ Running => /\ queue[Ready(priority[rthread])] # <<>>
                  /\ Head(queue[Ready(priority[rthread])]) = rthread

(* A thread on a wait queue will repeat the call that blocked it, and mptr *)
(* names the object of that call and of the right kind.                    *)
WaitersRetry ==
    \A p \in Priority : \A t \in Threads :
        /\ Holds(queue, Mwait(p), t) => mptr[t] \in Locks /\ retry[t] = mptr[t]
        /\ Holds(queue, Swait(p), t) => mptr[t] \in Semaphores /\ retry[t] = mptr[t]

(* A lock word says "free" with NULL_PID: no listed thread ever has that   *)
(* pid, or one below the pids kept for the cores, also after nextpid has   *)
(* overflowed.                                                             *)
ListedPids == \A t \in Threads : Listed(t) => pid[t] \in Pids

(* A free lock that threads wait for has a ready thread about to repeat    *)
(* its SYS_LOCK.  An unlock wakes one waiter only; that the wake-up is not *)
(* lost depends on every later lock and unlock, by owners or not.          *)
NoLostLockWakeup ==
    \A m \in Locks :
        (lockpid[m] = NULL_PID /\ \E t \in Threads : Waits(t, m))
            => \E t \in Threads : IsReady(t) /\ retry[t] = m

(* "Signal a semaphore", "Wait on a semaphore" (README.md:85): a positive  *)
(* semaphore that threads wait for has a ready thread about to take it.    *)
(* Fails: a V that finds a positive value wakes nobody.                    *)
NoLostSemaphoreWakeup ==
    \A s \in Semaphores :
        (semval[s] # 0 /\ \E p \in Priority, t \in Threads :
                               Holds(queue, Swait(p), t) /\ mptr[t] = s)
            => \E t \in Threads : IsReady(t) /\ retry[t] = s

(* old_priority is set exactly while a listed thread runs above it: a      *)
(* thread is demoted once, to a worse level than the one it leaves.        *)
PromotionRemembered ==
    \A t \in Threads :
        Listed(t) => old_priority[t] = NO_PRIORITY \/ priority[t] < old_priority[t]
-----------------------------------------------------------------------------
(***************************************************************************)
(* What no step may do.                                                    *)
(***************************************************************************)
(* The priority a thread was started with. *)
Base(t) == IF old_priority[t] = NO_PRIORITY THEN priority[t] ELSE old_priority[t]

(* Promotions never change it: "Preserve the old priority", also when a    *)
(* promoted owner is promoted again, "Restore the original priority level",*)
(* also when the unlock that demotes is of another lock.                   *)
BaseIsKept ==
    [][\A t \in Threads : Listed(t) /\ Listed(t)' => Base(t)' = Base(t)]_vars

(* "FIFO queues of various priorities": within a ready queue only the      *)
(* running thread can lose its place to a thread that stood behind it.     *)
NoOvertaking ==
    [][\A p \in Priority : \A t, u \in Threads :
          AheadIn(queue, Ready(p), t, u) /\ AheadIn(queue', Ready(p), u, t)
              => t = rthread]_vars

(* A waiter that an unlock wakes has the best priority among the waiters   *)
(* of the lock, and among equals has waited longest.                       *)
BestWaiterFirst ==
    [][\A m \in Locks : \A t, u \in Threads :
          (Waits(t, m) /\ Waits(u, m) /\ Waits(t, m)' /\ mptr'[u] = Null)
              => \/ priority[u] < priority[t]
                 \/ AheadIn(queue, Mwait(priority[t]), u, t)]_vars
-----------------------------------------------------------------------------
(***************************************************************************)
(* Liveness, for threads that keep giving up the processor: a thread that  *)
(* can yield does so in the end (a cooperative client), and a repeated     *)
(* call is executed (the processor does not stop).                         *)
(***************************************************************************)
Repeat == \/ \E m \in Locks : retry[rthread] = m /\ (SvcLockTaken(m) \/ SvcLockBlocked(m))
          \/ \E s \in Semaphores :
                 retry[rthread] = s /\ (SvcSemaphoreTaken(s) \/ SvcSemaphoreBlocked(s))
FairSpec == Spec /\ WF_vars(SvcYield) /\ WF_vars(Running /\ Repeat)

(* Round robin at the best priority: a ready thread there gets to run,     *)
(* whatever the others lock, unlock, signal, start or wait for.            *)
RoundRobin ==
    \A t \in Threads : Holds(queue, Ready(0), t) ~> rthread = t
=============================================================================
