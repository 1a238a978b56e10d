-------------------------- MODULE SchedulerProofs ---------------------------
(***************************************************************************)
(* Theorems about Scheduler, for every number of threads, priorities,      *)
(* locks, semaphores and pids.                                             *)
(*                                                                         *)
(* None of the safety invariants is inductive alone: that a call pops the  *)
(* running thread needs RunningIsBest, that needs QueueMatchesPriority,    *)
(* both need the partition of the threads into queues, and the wake-up of  *)
(* a waiter needs WaitersRetry and ListedPids.  Their conjunction is, with *)
(* the types; and with it that the wake-ups of any one lock are kept.      *)
(***************************************************************************)
EXTENDS Scheduler, ThreadQueuesProofs

IInv ==
    /\ TypeOK
    /\ ThreadsConserved
    /\ QueueMatchesPriority
    /\ RunningIsBest
    /\ WaitersRetry
    /\ ListedPids
    /\ PromotionRemembered

(* Of one lock: the wake-up of a waiter is not lost.  That is kept with    *)
(* IInv lock by lock.                                                      *)
WakeUpOf(m) ==
    (lockpid[m] = NULL_PID /\ \E t \in Threads : Waits(t, m))
        => \E t \in Threads : IsReady(t) /\ retry[t] = m
WakeUpsKept == \A m \in Locks : WakeUpOf(m) => WakeUpOf(m)'
-----------------------------------------------------------------------------
(* The names of the queues are all different. *)
LEMMA QueueNameFacts ==
    /\ \A p \in Priority : {Ready(p), Mwait(p), Swait(p)} \subseteq QueueNames \ {Free}
    /\ Free \in QueueNames
    /\ \A p, b \in Priority : /\ Ready(p) # Mwait(b) /\ Ready(p) # Swait(b)
                              /\ Mwait(p) # Swait(b)
    /\ \A p, b : /\ Ready(p) = Ready(b) => p = b
                 /\ Mwait(p) = Mwait(b) => p = b
                 /\ Swait(p) = Swait(b) => p = b
    /\ \A a \in QueueNames \ {Free} :
           \E p \in Priority : a \in {Ready(p), Mwait(p), Swait(p)}
BY DEF QueueNames, ReadyQueues, MwaitQueues, SwaitQueues, Ready, Mwait, Swait, Free

(* Ranges of the constants that the proofs use. *)
LEMMA ConstantFacts ==
    /\ 0 \in Priority /\ PRIORITIES - 1 \in Priority
    /\ NO_PRIORITY \notin Priority
    /\ \A p \in Priority : p \in Nat /\ p < NO_PRIORITY
    /\ 0 \in Threads /\ usrloopthread \notin Threads
    /\ FIRST_AVAIL_PID \in Pids /\ NULL_PID \notin Pids
    /\ Null \notin Objects /\ Locks \cap Semaphores = {}
    /\ Locks \subseteq Objects /\ Semaphores \subseteq Objects
BY ThreadsAssumption, PrioritiesAssumption, PidAssumption, AddressAssumption
   DEF Priority, NO_PRIORITY, Threads, usrloopthread, Pids, FIRST_AVAIL_PID, NULL_PID, Objects

(* nextpid never takes a value below those kept for the cores. *)
LEMMA PidAfterFacts == \A n \in Pids : PidAfter(n) \in Pids
BY PidAssumption DEF Pids, PidAfter, FIRST_AVAIL_PID

(* A position that find_pid or find_*_wait_next returns is one. *)
LEMMA PositionFacts ==
    ASSUME NEW q, NEW A, NEW x \in Positions(q, A)
    PROVE  /\ x = <<x[1], x[2]>> /\ x[1] \in A /\ x[2] \in DOMAIN q[x[1]]
           /\ EntryAt(q, x) = q[x[1]][x[2]]
BY DEF Positions, EntryAt

(* The thread that next_thread finds is ready. *)
LEMMA NextThreadIsReady ==
    ASSUME NEW q \in [QueueNames -> Seq(Threads)], NEW t, IsNextThread(q, t)
    PROVE  \/ t = usrloopthread
           \/ \E p \in Priority : /\ q[Ready(p)] # <<>> /\ t = Head(q[Ready(p)])
                                  /\ Holds(q, Ready(p), t) /\ t \in Threads
<1>1. ASSUME NEW p \in Priority, q[Ready(p)] # <<>>
      PROVE  Holds(q, Ready(p), Head(q[Ready(p)])) /\ Head(q[Ready(p)]) \in Threads
  BY <1>1, HoldsIn, QueueNameFacts
<1>2. QED
  BY <1>1 DEF IsNextThread

(* The running thread is the head of its ready queue. *)
LEMMA RunningFacts ==
    ASSUME TypeOK, ThreadsConserved, RunningIsBest, Running
    PROVE  LET own == Ready(priority[rthread]) IN
           /\ rthread \in Threads /\ priority[rthread] \in Priority
           /\ own \in QueueNames /\ queue[own] # <<>> /\ Head(queue[own]) = rthread
           /\ Holds(queue, own, rthread)
           /\ \A a \in QueueNames : Holds(queue, a, rthread) => a = own
           /\ Listed(rthread)
<1> DEFINE own == Ready(priority[rthread])
<1>1. rthread \in Threads /\ priority[rthread] \in Priority /\ own \in QueueNames \ {Free}
  BY QueueNameFacts DEF TypeOK, Running
<1>2. queue[own] # <<>> /\ Head(queue[own]) = rthread
  BY DEF RunningIsBest
<1>3. Holds(queue, own, rthread)
  BY <1>1, <1>2, HoldsIn DEF TypeOK
<1>4. \A a \in QueueNames : Holds(queue, a, rthread) => a = own
  BY <1>1, <1>3 DEF ThreadsConserved, OnePosition, Holds
<1>5. QED
  BY <1>1, <1>2, <1>3, <1>4, QueueNameFacts DEF Listed

(* schedule restores RunningIsBest whatever the queues were before. *)
LEMMA ScheduleIsBest ==
    ASSUME TypeOK', QueueMatchesPriority', schedule
    PROVE  RunningIsBest'
<1>1. CASE rthread' = usrloopthread
  BY <1>1 DEF RunningIsBest, schedule, Running
<1>2. CASE rthread' # usrloopthread
  <2>1. PICK p \in Priority : /\ queue'[Ready(p)] # <<>> /\ rthread' = Head(queue'[Ready(p)])
                              /\ Holds(queue', Ready(p), rthread') /\ rthread' \in Threads
    BY <1>2, NextThreadIsReady DEF TypeOK, schedule
  <2>2. priority'[rthread'] = p
    BY <2>1 DEF QueueMatchesPriority
  <2>3. QED
    BY <2>1, <2>2 DEF RunningIsBest, schedule
<1>3. QED
  BY <1>1, <1>2
-----------------------------------------------------------------------------
(***************************************************************************)
(* One lemma per supervisor call: it preserves IInv.                       *)
(***************************************************************************)
LEMMA InitIInv == Init => IInv /\ NoLostLockWakeup
<1> SUFFICES ASSUME Init PROVE IInv /\ NoLostLockWakeup
  OBVIOUS
<1>1. \A i \in 1 .. MAX_THREADS - 1 : i \in Threads
  BY ThreadsAssumption DEF Threads
<1>2. /\ queue[Free] \in Seq(Threads) /\ Len(queue[Free]) = MAX_THREADS - 1
      /\ \A i \in 1 .. MAX_THREADS - 1 : queue[Free][i] = i
      /\ queue[Ready(0)] = <<0>>
      /\ \A a \in QueueNames : a # Free /\ a # Ready(0) => queue[a] = <<>>
  <2>1. /\ queue[Free] = [i \in 1 .. MAX_THREADS - 1 |-> i]
        /\ queue[Ready(0)] = <<0>>
        /\ \A a \in QueueNames : a # Free /\ a # Ready(0) => queue[a] = <<>>
    BY ConstantFacts, QueueNameFacts DEF Init
  <2>2. QED
    BY <1>1, <2>1, ThreadsAssumption
<1>3. queue \in [QueueNames -> Seq(Threads)]
  <2>1. queue = [a \in QueueNames |-> queue[a]]
    BY DEF Init
  <2>2. <<0>> \in Seq(Threads) /\ <<>> \in Seq(Threads)
    BY ConstantFacts
  <2>4. ASSUME NEW a \in QueueNames
        PROVE  queue[a] \in Seq(Threads)
    BY <1>2, <2>2
  <2>3. QED
    BY <2>1, <2>4
<1>4. TypeOK
  BY <1>3, ConstantFacts, PidAfterFacts, SemAssumption
     DEF Init, TypeOK, Pids, NULL_PID, FIRST_AVAIL_PID
<1>5. /\ \A t \in Threads : Holds(queue, Free, t) <=> t # 0
      /\ \A a \in QueueNames \ {Free} : \A t : Holds(queue, a, t) <=> a = Ready(0) /\ t = 0
  <2>1. DOMAIN queue[Free] = 1 .. MAX_THREADS - 1
    BY <1>2, <1>3, HoldsIn, QueueNameFacts
  <2>2. \A t \in Threads : Holds(queue, Free, t) <=> t # 0
    BY <1>2, <2>1, ThreadsAssumption DEF Holds, Threads
  <2>3. \A a \in QueueNames \ {Free} : \A t : Holds(queue, a, t) <=> a = Ready(0) /\ t = 0
    BY <1>2, ConstantFacts, QueueNameFacts DEF Holds
  <2>4. QED
    BY <2>2, <2>3
<1>6. ThreadsConserved
  <2>1. OnePosition(queue, QueueNames)
    <3>1. DOMAIN queue[Free] = 1 .. MAX_THREADS - 1
      BY <1>2, <1>3, HoldsIn, QueueNameFacts
    <3>2. \A a \in QueueNames : \A i \in DOMAIN queue[a] :
              \/ a = Free /\ queue[a][i] = i /\ i # 0
              \/ a = Ready(0) /\ i = 1 /\ queue[a][i] = 0
      BY <1>2, <3>1, ThreadsAssumption
    <3>3. QED
      BY <3>2 DEF OnePosition
  <2>2. SomePosition(queue, QueueNames, Threads)
    BY <1>5, ConstantFacts, QueueNameFacts DEF SomePosition
  <2>3. QED
    BY <2>1, <2>2 DEF ThreadsConserved
<1>7. QueueMatchesPriority
  BY <1>5, ConstantFacts, QueueNameFacts DEF QueueMatchesPriority, Init
<1>8. RunningIsBest
  <2>1. queue[Ready(0)] # <<>> /\ Head(queue[Ready(0)]) = 0
    BY <1>2
  <2>2. \A b \in Priority : ~ (b < 0)
    BY DEF Priority
  <2>3. rthread = 0 /\ priority[rthread] = 0
    BY ConstantFacts DEF Init
  <2>4. QED
    BY <2>1, <2>2, <2>3, ConstantFacts DEF RunningIsBest, IsNextThread
<1>9. WaitersRetry /\ ListedPids /\ NoLostLockWakeup /\ PromotionRemembered
  <2>1. \A p \in Priority : \A t : ~ Holds(queue, Mwait(p), t) /\ ~ Holds(queue, Swait(p), t)
    BY <1>5, ConstantFacts, QueueNameFacts
  <2>2. WaitersRetry /\ NoLostLockWakeup
    BY <2>1 DEF WaitersRetry, NoLostLockWakeup, Waits
  <2>3. ListedPids /\ PromotionRemembered
    BY <1>5, ConstantFacts DEF ListedPids, PromotionRemembered, Listed, Init
  <2>4. QED
    BY <2>2, <2>3
<1>10. QED
  BY <1>4, <1>6, <1>7, <1>8, <1>9 DEF IInv

(* A call after which every thread is in the queue it was in. *)
LEMMA SameQueues ==
    ASSUME IInv, queue' \in [QueueNames -> Seq(Threads)], OnePosition(queue', QueueNames),
           SomePosition(queue', QueueNames, Threads),
           \A a \in QueueNames : \A t : Holds(queue', a, t) <=> Holds(queue, a, t),
           schedule,
           UNCHANGED <<threadVars, nextpid, lockpid, semval>>
    PROVE  IInv' /\ WakeUpsKept
<1>1. TypeOK' /\ ThreadsConserved'
  BY DEF IInv, TypeOK, ThreadsConserved, threadVars, schedule
<1>2. \A p \in Priority : \A t : /\ Holds(queue', Ready(p), t) <=> Holds(queue, Ready(p), t)
                                 /\ Holds(queue', Mwait(p), t) <=> Holds(queue, Mwait(p), t)
                                 /\ Holds(queue', Swait(p), t) <=> Holds(queue, Swait(p), t)
                                 /\ Holds(queue', Free, t) <=> Holds(queue, Free, t)
  BY QueueNameFacts
<1>3. QueueMatchesPriority' /\ WaitersRetry' /\ ListedPids' /\ PromotionRemembered'
  <2>1. QueueMatchesPriority'
    BY <1>2 DEF IInv, QueueMatchesPriority, threadVars
  <2>2. WaitersRetry'
    BY <1>2 DEF IInv, WaitersRetry, threadVars
  <2>3. \A t \in Threads : Listed(t)' <=> Listed(t)
    BY <1>2, ConstantFacts DEF Listed
  <2>4. ListedPids' /\ PromotionRemembered'
    BY <2>3 DEF IInv, ListedPids, PromotionRemembered, threadVars
  <2>5. QED
    BY <2>1, <2>2, <2>4
<1>4. WakeUpsKept
  BY <1>2 DEF WakeUpsKept, WakeUpOf, Waits, IsReady, threadVars
<1>5. RunningIsBest'
  BY <1>1, <1>3, ScheduleIsBest
<1>6. QED
  BY <1>1, <1>3, <1>4, <1>5 DEF IInv

LEMMA YieldStep ==
    ASSUME IInv, SvcYield
    PROVE  IInv' /\ WakeUpsKept
<1> DEFINE own == Ready(priority[rthread])
<1>1. /\ own \in QueueNames /\ queue[own] # <<>> /\ Head(queue[own]) = rthread
      /\ Holds(queue, own, rthread)
      /\ \A a \in QueueNames : Holds(queue, a, rthread) => a = own
  BY RunningFacts DEF IInv, SvcYield, Fresh
<1>2. Moved(queue, queue', QueueNames, Threads, rthread, own)
  BY <1>1, MoveHeadFacts DEF IInv, TypeOK, ThreadsConserved, SvcYield
<1>3. \A a \in QueueNames : \A t : Holds(queue', a, t) <=> Holds(queue, a, t)
  BY <1>1, <1>2 DEF Moved
<1>4. QED
  BY <1>2, <1>3, SameQueues DEF Moved, SvcYield, IInv, ThreadsConserved

LEMMA ScheduleStep ==
    ASSUME IInv, SvcSchedule
    PROVE  IInv' /\ WakeUpsKept
BY SameQueues DEF SvcSchedule, IInv, TypeOK, ThreadsConserved

(* A thread that is in one queue is in no other. *)
LEMMA OnlyQueue ==
    ASSUME OnePosition(queue, QueueNames),
           NEW a \in QueueNames, NEW b \in QueueNames, NEW t,
           Holds(queue, a, t), Holds(queue, b, t)
    PROVE  a = b
BY DEF OnePosition, Holds

(* What is left of IInv when the queues are as before. *)
LEMMA LockTakenStep ==
    ASSUME IInv, NEW m \in Locks, SvcLockTaken(m)
    PROVE  IInv' /\ WakeUpsKept
<1>1. /\ rthread \in Threads /\ Listed(rthread)
      /\ \A p \in Priority : /\ ~ Holds(queue, Mwait(p), rthread)
                             /\ ~ Holds(queue, Swait(p), rthread)
  BY RunningFacts, QueueNameFacts DEF IInv, SvcLockTaken, AtCall
<1>2. pid[rthread] \in Pids
  BY <1>1 DEF IInv, ListedPids
<1>3. TypeOK'
  BY <1>1, <1>2 DEF IInv, TypeOK, SvcLockTaken
<1>4. ThreadsConserved' /\ QueueMatchesPriority' /\ ListedPids' /\ PromotionRemembered'
  BY DEF IInv, SvcLockTaken, ThreadsConserved, QueueMatchesPriority, ListedPids,
         PromotionRemembered, Listed
<1>5. RunningIsBest'
  BY DEF IInv, SvcLockTaken, RunningIsBest, Running
<1>6. WaitersRetry'
  BY <1>1 DEF IInv, TypeOK, SvcLockTaken, WaitersRetry
<1>7. WakeUpsKept
  <2> SUFFICES ASSUME NEW n \in Locks, WakeUpOf(n), lockpid'[n] = NULL_PID,
                      NEW t \in Threads, Waits(t, n)'
               PROVE  \E u \in Threads : IsReady(u)' /\ retry'[u] = n
    BY DEF WakeUpsKept, WakeUpOf
  <2>1. n # m /\ lockpid[n] = NULL_PID
    BY <1>2, ConstantFacts DEF IInv, TypeOK, SvcLockTaken
  <2>2. Waits(t, n)
    BY DEF Waits, SvcLockTaken
  <2>3. PICK u \in Threads : IsReady(u) /\ retry[u] = n
    BY <2>1, <2>2 DEF WakeUpOf
  <2>4. u # rthread
    BY <2>1, <2>3, ConstantFacts DEF SvcLockTaken, AtCall
  <2>5. QED
    BY <2>3, <2>4 DEF IInv, TypeOK, SvcLockTaken, IsReady
<1>8. QED
  BY <1>3, <1>4, <1>5, <1>6, <1>7 DEF IInv

LEMMA SemaphoreTakenStep ==
    ASSUME IInv, NEW s \in Semaphores, SvcSemaphoreTaken(s)
    PROVE  IInv' /\ WakeUpsKept
<1>1. /\ rthread \in Threads
      /\ \A p \in Priority : /\ ~ Holds(queue, Mwait(p), rthread)
                             /\ ~ Holds(queue, Swait(p), rthread)
  BY RunningFacts, QueueNameFacts DEF IInv, SvcSemaphoreTaken, AtCall
<1>2. TypeOK'
  <2>1. semval[s] - 1 \in 0 .. SemModulus - 1
    BY SemAssumption DEF IInv, TypeOK, SvcSemaphoreTaken
  <2>2. QED
    BY <1>1, <2>1 DEF IInv, TypeOK, SvcSemaphoreTaken
<1>3. ThreadsConserved' /\ QueueMatchesPriority' /\ ListedPids' /\ PromotionRemembered'
  BY DEF IInv, SvcSemaphoreTaken, ThreadsConserved, QueueMatchesPriority, ListedPids,
         PromotionRemembered, Listed
<1>4. RunningIsBest'
  BY DEF IInv, SvcSemaphoreTaken, RunningIsBest, Running
<1>5. WaitersRetry'
  BY <1>1 DEF IInv, TypeOK, SvcSemaphoreTaken, WaitersRetry
<1>6. WakeUpsKept
  <2> SUFFICES ASSUME NEW n \in Locks, WakeUpOf(n), lockpid'[n] = NULL_PID,
                      NEW t \in Threads, Waits(t, n)'
               PROVE  \E u \in Threads : IsReady(u)' /\ retry'[u] = n
    BY DEF WakeUpsKept, WakeUpOf
  <2>1. Waits(t, n) /\ lockpid[n] = NULL_PID
    BY DEF Waits, SvcSemaphoreTaken
  <2>2. PICK u \in Threads : IsReady(u) /\ retry[u] = n
    BY <2>1 DEF WakeUpOf
  <2>3. u # rthread
    BY <2>2, ConstantFacts DEF SvcSemaphoreTaken, AtCall
  <2>4. QED
    BY <2>2, <2>3 DEF IInv, TypeOK, SvcSemaphoreTaken, IsReady
<1>7. QED
  BY <1>2, <1>3, <1>4, <1>5, <1>6 DEF IInv

LEMMA CleanupStep ==
    ASSUME IInv, Cleanup
    PROVE  IInv' /\ WakeUpsKept
<1> DEFINE own == Ready(priority[rthread])
<1>1. /\ rthread \in Threads /\ own \in QueueNames /\ queue[own] # <<>>
      /\ Head(queue[own]) = rthread /\ retry[rthread] = Null
  BY RunningFacts DEF IInv, Cleanup, Fresh
<1>2. Moved(queue, queue', QueueNames, Threads, rthread, Free)
  <2>1. /\ queue \in [QueueNames -> Seq(Threads)] /\ OnePosition(queue, QueueNames)
        /\ Free \in QueueNames
    BY QueueNameFacts DEF IInv, TypeOK, ThreadsConserved
  <2>2. queue' = MoveHead(queue, own, Free)
    BY DEF Cleanup
  <2>3. QED
    BY <1>1, <2>1, <2>2, MoveHeadFacts
<1>3. /\ \A a \in QueueNames \ {Free} : \A t :
             Holds(queue', a, t) <=> Holds(queue, a, t) /\ t # rthread
      /\ \A t \in Threads : Listed(t)' => Listed(t)
  BY <1>2, QueueNameFacts DEF Moved, Listed
<1>4. \A p \in Priority : \A t :
          /\ Holds(queue', Ready(p), t) <=> Holds(queue, Ready(p), t) /\ t # rthread
          /\ Holds(queue', Mwait(p), t) => Holds(queue, Mwait(p), t)
          /\ Holds(queue', Swait(p), t) => Holds(queue, Swait(p), t)
  BY <1>3, QueueNameFacts
<1>5. TypeOK' /\ ThreadsConserved'
  BY <1>2 DEF IInv, TypeOK, ThreadsConserved, Moved, Cleanup, threadVars, schedule
<1>6. QueueMatchesPriority'
  BY <1>4 DEF IInv, QueueMatchesPriority, Cleanup, threadVars
<1>7. WaitersRetry'
  BY <1>4 DEF IInv, WaitersRetry, Cleanup, threadVars
<1>8. ListedPids' /\ PromotionRemembered'
  BY <1>3 DEF IInv, ListedPids, PromotionRemembered, Cleanup, threadVars
<1>9. WakeUpsKept
  <2> SUFFICES ASSUME NEW n \in Locks, WakeUpOf(n), lockpid'[n] = NULL_PID,
                      NEW t \in Threads, Waits(t, n)'
               PROVE  \E u \in Threads : IsReady(u)' /\ retry'[u] = n
    BY DEF WakeUpsKept, WakeUpOf
  <2>1. Waits(t, n) /\ lockpid[n] = NULL_PID
    BY <1>4 DEF Waits, Cleanup, threadVars
  <2>2. PICK u \in Threads : IsReady(u) /\ retry[u] = n
    BY <2>1 DEF WakeUpOf
  <2>3. u # rthread
    BY <1>1, <2>2, ConstantFacts
  <2>4. QED
    BY <1>4, <2>2, <2>3 DEF Cleanup, IsReady, threadVars
<1>10. RunningIsBest'
  BY <1>5, <1>6, ScheduleIsBest DEF Cleanup
<1>11. QED
  BY <1>5, <1>6, <1>7, <1>8, <1>9, <1>10 DEF IInv

LEMMA SemaphoreBlockedStep ==
    ASSUME IInv, NEW s \in Semaphores, SvcSemaphoreBlocked(s)
    PROVE  IInv' /\ WakeUpsKept
<1> DEFINE p == priority[rthread]
<1>1. /\ rthread \in Threads /\ p \in Priority /\ Ready(p) \in QueueNames
      /\ queue[Ready(p)] # <<>> /\ Head(queue[Ready(p)]) = rthread /\ Listed(rthread)
  BY RunningFacts DEF IInv, SvcSemaphoreBlocked, AtCall
<1>2. Moved(queue, queue', QueueNames, Threads, rthread, Swait(p))
  <2>1. /\ queue \in [QueueNames -> Seq(Threads)] /\ OnePosition(queue, QueueNames)
        /\ Swait(p) \in QueueNames
    BY <1>1, QueueNameFacts DEF IInv, TypeOK, ThreadsConserved
  <2>2. queue' = MoveHead(queue, Ready(p), Swait(p))
    BY DEF SvcSemaphoreBlocked
  <2>3. QED
    BY <1>1, <2>1, <2>2, MoveHeadFacts
<1>3. /\ \A b \in Priority : \A t :
             /\ Holds(queue', Ready(b), t) <=> Holds(queue, Ready(b), t) /\ t # rthread
             /\ Holds(queue', Mwait(b), t) <=> Holds(queue, Mwait(b), t) /\ t # rthread
             /\ Holds(queue', Swait(b), t) =>
                    (Holds(queue, Swait(b), t) /\ t # rthread) \/ (t = rthread /\ b = p)
      /\ \A t \in Threads : Listed(t)' => Listed(t)
  <2>1. Ready(p) \in QueueNames /\ Swait(p) \in QueueNames /\ Free \in QueueNames
    BY <1>1, QueueNameFacts
  <2>2. \A b \in Priority :
            /\ Ready(b) \in QueueNames /\ Mwait(b) \in QueueNames /\ Swait(b) \in QueueNames
            /\ Ready(b) # Swait(p) /\ Mwait(b) # Swait(p) /\ (Swait(b) = Swait(p) => b = p)
    BY <1>1, QueueNameFacts
  <2>3. QED
    BY <1>1, <1>2, <2>1, <2>2 DEF Moved, Listed
<1>4. s \in Objects /\ s \notin Locks
  BY ConstantFacts
<1>5. TypeOK' /\ ThreadsConserved'
  BY <1>1, <1>2, <1>4
     DEF IInv, TypeOK, ThreadsConserved, Moved, SvcSemaphoreBlocked, schedule
<1>6. QueueMatchesPriority'
  BY <1>3 DEF IInv, QueueMatchesPriority, SvcSemaphoreBlocked
<1>7. WaitersRetry'
  BY <1>1, <1>3 DEF IInv, TypeOK, WaitersRetry, SvcSemaphoreBlocked
<1>8. ListedPids' /\ PromotionRemembered'
  BY <1>3 DEF IInv, ListedPids, PromotionRemembered, SvcSemaphoreBlocked
<1>9. WakeUpsKept
  <2> SUFFICES ASSUME NEW n \in Locks, WakeUpOf(n), lockpid'[n] = NULL_PID,
                      NEW t \in Threads, Waits(t, n)'
               PROVE  \E u \in Threads : IsReady(u)' /\ retry'[u] = n
    BY DEF WakeUpsKept, WakeUpOf
  <2>1. Waits(t, n) /\ lockpid[n] = NULL_PID
    BY <1>3 DEF IInv, TypeOK, Waits, SvcSemaphoreBlocked
  <2>2. PICK u \in Threads : IsReady(u) /\ retry[u] = n
    BY <2>1 DEF WakeUpOf
  <2>3. u # rthread
    BY <1>4, <2>2, ConstantFacts DEF SvcSemaphoreBlocked, AtCall
  <2>4. QED
    BY <1>3, <2>2, <2>3 DEF IInv, TypeOK, SvcSemaphoreBlocked, IsReady
<1>10. RunningIsBest'
  BY <1>5, <1>6, ScheduleIsBest DEF SvcSemaphoreBlocked
<1>11. QED
  BY <1>5, <1>6, <1>7, <1>8, <1>9, <1>10 DEF IInv

(* Who is where after the thread t moved to a ready queue. *)
LEMMA MovedToReady ==
    ASSUME NEW q, NEW r, NEW t, NEW p \in Priority,
           Moved(q, r, QueueNames, Threads, t, Ready(p))
    PROVE  /\ r \in [QueueNames -> Seq(Threads)] /\ OnePosition(r, QueueNames)
           /\ \A b \in Priority : \A u :
                 /\ Holds(r, Ready(b), u) <=> IF u = t THEN b = p ELSE Holds(q, Ready(b), u)
                 /\ Holds(r, Mwait(b), u) <=> u # t /\ Holds(q, Mwait(b), u)
                 /\ Holds(r, Swait(b), u) <=> u # t /\ Holds(q, Swait(b), u)
           /\ \A u : Holds(r, Free, u) <=> u # t /\ Holds(q, Free, u)
<1>1. \A b \in Priority :
          /\ Ready(b) \in QueueNames /\ Mwait(b) \in QueueNames /\ Swait(b) \in QueueNames
          /\ (Ready(b) = Ready(p) => b = p)
          /\ Mwait(b) # Ready(p) /\ Swait(b) # Ready(p)
  BY QueueNameFacts
<1>2. Free \in QueueNames /\ Free # Ready(p)
  BY QueueNameFacts
<1>3. QED
  BY <1>1, <1>2 DEF Moved

LEMMA AddThreadStep ==
    ASSUME IInv, NEW arg \in PriorityArgs, SvcAddThread(arg)
    PROVE  IInv' /\ WakeUpsKept
<1>1. CASE queue[Free] = <<>>
  BY <1>1, SameQueues DEF SvcAddThread, IInv, TypeOK, ThreadsConserved
<1>2. CASE queue[Free] # <<>>
  <2> DEFINE t == Head(queue[Free])
  <2>1. PICK p \in Priority :
            /\ mptr' = [mptr EXCEPT ![t] = Null]
            /\ retry' = [retry EXCEPT ![t] = Null]
            /\ pid' = [pid EXCEPT ![t] = nextpid]
            /\ nextpid' = PidAfter(nextpid)
            /\ priority' = [priority EXCEPT ![t] = p]
            /\ old_priority' = [old_priority EXCEPT ![t] = NO_PRIORITY]
            /\ queue' = MoveHead(queue, Free, Ready(p))
            /\ schedule
            /\ UNCHANGED <<lockpid, semval>>
    <3>1. CappedPriority(arg) \in Priority
      BY PrioritiesAssumption, PriorityArgsAssumption DEF Priority, CappedPriority
    <3>2. QED
      BY <1>2, <3>1 DEF SvcAddThread
  <2>2. /\ Moved(queue, queue', QueueNames, Threads, t, Ready(p))
        /\ t \in Threads /\ Holds(queue, Free, t)
    <3>1. /\ queue \in [QueueNames -> Seq(Threads)] /\ OnePosition(queue, QueueNames)
          /\ Free \in QueueNames /\ Ready(p) \in QueueNames
      BY QueueNameFacts DEF IInv, TypeOK, ThreadsConserved
    <3>2. QED
      BY <1>2, <2>1, <3>1, MoveHeadFacts
  <2> HIDE DEF t
  <2>3. \A b \in Priority : \A u :
            /\ Holds(queue', Ready(b), u) <=> IF u = t THEN b = p ELSE Holds(queue, Ready(b), u)
            /\ Holds(queue', Mwait(b), u) <=> u # t /\ Holds(queue, Mwait(b), u)
            /\ Holds(queue', Swait(b), u) <=> u # t /\ Holds(queue, Swait(b), u)
    BY <2>2, MovedToReady
  <2>4. \A u \in Threads : Listed(u)' => u = t \/ Listed(u)
    BY <2>2, MovedToReady DEF Listed
  <2>5. nextpid' \in Pids
    BY <2>1, PidAfterFacts DEF IInv, TypeOK
  <2>6. TypeOK' /\ ThreadsConserved'
    <3>1. /\ queue' \in [QueueNames -> Seq(Threads)] /\ OnePosition(queue', QueueNames)
          /\ SomePosition(queue', QueueNames, Threads)
      BY <2>2 DEF Moved, IInv, ThreadsConserved
    <3>2. QED
      BY <2>1, <2>2, <2>5, <3>1 DEF IInv, TypeOK, ThreadsConserved, schedule
  <2>7. QueueMatchesPriority'
    BY <2>1, <2>2, <2>3 DEF IInv, TypeOK, QueueMatchesPriority
  <2>8. WaitersRetry'
    BY <2>1, <2>2, <2>3 DEF IInv, TypeOK, WaitersRetry
  <2>9. ListedPids' /\ PromotionRemembered'
    BY <2>1, <2>2, <2>4 DEF IInv, TypeOK, ListedPids, PromotionRemembered
  <2>10. WakeUpsKept
    <3> SUFFICES ASSUME NEW m \in Locks, WakeUpOf(m), lockpid'[m] = NULL_PID,
                        NEW u \in Threads, Waits(u, m)'
                 PROVE  \E v \in Threads : IsReady(v)' /\ retry'[v] = m
      BY DEF WakeUpsKept, WakeUpOf
    <3>1. Waits(u, m) /\ lockpid[m] = NULL_PID
      BY <2>1, <2>2, <2>3 DEF IInv, TypeOK, Waits
    <3>2. PICK v \in Threads : IsReady(v) /\ retry[v] = m
      BY <3>1 DEF WakeUpOf
    <3>3. v # t
      <4>1. \A b \in Priority : Ready(b) \in QueueNames \ {Free}
        BY QueueNameFacts
      <4>2. QED
        BY <2>2, <3>2, <4>1, OnlyQueue, QueueNameFacts DEF IInv, ThreadsConserved, IsReady
    <3>4. QED
      BY <2>1, <2>2, <2>3, <3>2, <3>3 DEF IInv, TypeOK, IsReady
  <2>11. RunningIsBest'
    BY <2>1, <2>6, <2>7, ScheduleIsBest
  <2>12. QED
    BY <2>6, <2>7, <2>8, <2>9, <2>10, <2>11 DEF IInv
<1>3. QED
  BY <1>1, <1>2

LEMMA SemaphoreVStep ==
    ASSUME IInv, NEW s \in Semaphores, SvcSemaphoreV(s)
    PROVE  IInv' /\ WakeUpsKept
<1> DEFINE waiters == WaitPositions(SwaitQueues, s)
<1>0. semval' \in [Semaphores -> 0 .. SemModulus - 1]
  <2>1. (semval[s] + 1) % SemModulus \in 0 .. SemModulus - 1
    BY SemAssumption DEF IInv, TypeOK
  <2>2. QED
    BY <2>1 DEF IInv, TypeOK, SvcSemaphoreV
<1>1. CASE UNCHANGED <<rthread, queue, mptr>>
  <2>1. TypeOK'
    BY <1>0, <1>1 DEF IInv, TypeOK, SvcSemaphoreV
  <2>2. ThreadsConserved' /\ QueueMatchesPriority' /\ ListedPids' /\ PromotionRemembered'
    BY <1>1 DEF IInv, SvcSemaphoreV, ThreadsConserved, QueueMatchesPriority, ListedPids,
                PromotionRemembered, Listed
  <2>3. RunningIsBest' /\ WaitersRetry'
    BY <1>1 DEF IInv, SvcSemaphoreV, RunningIsBest, Running, WaitersRetry
  <2>4. WakeUpsKept
    BY <1>1 DEF SvcSemaphoreV, WakeUpsKept, WakeUpOf, Waits, IsReady
  <2>5. QED
    BY <2>1, <2>2, <2>3, <2>4 DEF IInv
<1>2. ASSUME NEW x \in waiters,
             mptr' = [mptr EXCEPT ![EntryAt(queue, x)] = Null],
             queue' = MoveFrom(queue, x, Ready(priority[EntryAt(queue, x)])),
             schedule
      PROVE  IInv' /\ WakeUpsKept
  <2> DEFINE t == EntryAt(queue, x)
             p == priority[t]
  <2>1. /\ x = <<x[1], x[2]>> /\ x[1] \in SwaitQueues /\ x[2] \in DOMAIN queue[x[1]]
        /\ t = queue[x[1]][x[2]]
    BY PositionFacts DEF WaitPositions
  <2>2. x[1] \in QueueNames /\ queue \in [QueueNames -> Seq(Threads)]
        /\ OnePosition(queue, QueueNames)
    BY <2>1 DEF QueueNames, IInv, TypeOK, ThreadsConserved
  <2>3. t \in Threads /\ Holds(queue, x[1], t)
    BY <2>1, <2>2, HoldsIn DEF Holds
  <2>4. p \in Priority /\ Ready(p) \in QueueNames
    BY <2>3, QueueNameFacts DEF IInv, TypeOK
  <2>5. Moved(queue, queue', QueueNames, Threads, t, Ready(p))
    BY <1>2, <2>1, <2>2, <2>4, MoveFromFacts
  <2>6. x[1] # Free /\ \A b \in Priority : x[1] # Mwait(b) /\ x[1] # Ready(b)
    BY <2>1, QueueNameFacts DEF SwaitQueues
  <2> HIDE DEF t, p
  <2>7. \A b \in Priority : \A u :
            /\ Holds(queue', Ready(b), u) <=> IF u = t THEN b = p ELSE Holds(queue, Ready(b), u)
            /\ Holds(queue', Mwait(b), u) <=> u # t /\ Holds(queue, Mwait(b), u)
            /\ Holds(queue', Swait(b), u) <=> u # t /\ Holds(queue, Swait(b), u)
    BY <2>4, <2>5, MovedToReady
  <2>8. Listed(t) /\ \A u \in Threads : Listed(u)' => Listed(u)
    <3>1. Listed(t)
      BY <2>2, <2>3, <2>6, OnlyQueue, QueueNameFacts DEF Listed
    <3>2. QED
      BY <2>4, <2>5, <3>1, MovedToReady DEF Listed
  <2>9. mptr' = [mptr EXCEPT ![t] = Null]
    BY <1>2 DEF t
  <2>10. TypeOK' /\ ThreadsConserved'
    <3>1. /\ queue' \in [QueueNames -> Seq(Threads)] /\ OnePosition(queue', QueueNames)
          /\ SomePosition(queue', QueueNames, Threads)
      BY <2>5 DEF Moved, IInv, ThreadsConserved
    <3>2. QED
      BY <1>0, <1>2, <2>3, <2>9, <3>1
         DEF IInv, TypeOK, ThreadsConserved, schedule, SvcSemaphoreV
  <2>11. QueueMatchesPriority'
    BY <2>7 DEF IInv, QueueMatchesPriority, SvcSemaphoreV, p
  <2>12. WaitersRetry'
    BY <2>3, <2>7, <2>9 DEF IInv, TypeOK, WaitersRetry, SvcSemaphoreV
  <2>13. ListedPids' /\ PromotionRemembered'
    BY <2>8 DEF IInv, ListedPids, PromotionRemembered, SvcSemaphoreV
  <2>14. WakeUpsKept
    <3> SUFFICES ASSUME NEW m \in Locks, WakeUpOf(m), lockpid'[m] = NULL_PID,
                        NEW u \in Threads, Waits(u, m)'
                 PROVE  \E v \in Threads : IsReady(v)' /\ retry'[v] = m
      BY DEF WakeUpsKept, WakeUpOf
    <3>1. Waits(u, m) /\ lockpid[m] = NULL_PID
      BY <2>3, <2>7, <2>9 DEF IInv, TypeOK, Waits, SvcSemaphoreV
    <3>2. PICK v \in Threads : IsReady(v) /\ retry[v] = m
      BY <3>1 DEF WakeUpOf
    <3>3. QED
      BY <2>4, <2>7, <3>2 DEF IsReady, SvcSemaphoreV
  <2>15. RunningIsBest'
    BY <1>2, <2>10, <2>11, ScheduleIsBest
  <2>16. QED
    BY <2>10, <2>11, <2>12, <2>13, <2>14, <2>15 DEF IInv
<1>3. QED
  BY <1>1, <1>2 DEF SvcSemaphoreV

(* What SYS_LOCK on a taken lock does: the caller waits at its level, and  *)
(* the promoted threads P, at most one, are ready there.  Whoever has the  *)
(* pid in the lock word is now as good as the caller.                      *)
Blocked(m, P) ==
    LET p == priority[rthread] IN
    /\ queue' \in [QueueNames -> Seq(Threads)] /\ OnePosition(queue', QueueNames)
    /\ SomePosition(queue', QueueNames, Threads)
    /\ priority' \in [Threads -> Priority]
    /\ old_priority' \in [Threads -> Priority \cup {NO_PRIORITY}]
    /\ \A b \in Priority : \A u :
          /\ Holds(queue', Ready(b), u) <=>
                 (u \in P /\ b = p) \/ (u \notin P \cup {rthread} /\ Holds(queue, Ready(b), u))
          /\ Holds(queue', Mwait(b), u) <=>
                 u \notin P /\ IF u = rthread THEN b = p ELSE Holds(queue, Mwait(b), u)
          /\ Holds(queue', Swait(b), u) <=> u \notin P \cup {rthread} /\ Holds(queue, Swait(b), u)
    /\ \A u \in Threads : Listed(u)' <=> Listed(u)
    /\ \A u \in Threads \ P : priority'[u] = priority[u] /\ old_priority'[u] = old_priority[u]
    /\ \A u \in P : /\ priority'[u] = p /\ p < priority[u] /\ p < old_priority'[u]
                    /\ Listed(u) /\ pid[u] = lockpid[m]
    /\ (\E u \in Threads : Listed(u) /\ pid[u] = lockpid[m])
           => \E u \in Threads : /\ Listed(u) /\ pid[u] = lockpid[m]
                               /\ priority'[u] <= p

LEMMA LockBlockedFacts ==
    ASSUME IInv, NEW m \in Locks, SvcLockBlocked(m)
    PROVE  \E P \in SUBSET (Threads \ {rthread}) : Blocked(m, P)
<1> DEFINE p == priority[rthread]
           q == MoveHead(queue, Ready(p), Mwait(p))
           owners == PidPositions(q, lockpid[m])
           mine(u) == Listed(u) /\ pid[u] = lockpid[m]
<1>1. /\ rthread \in Threads /\ p \in Priority /\ Ready(p) \in QueueNames
      /\ queue[Ready(p)] # <<>> /\ Head(queue[Ready(p)]) = rthread /\ Listed(rthread)
  BY RunningFacts DEF IInv, SvcLockBlocked, AtCall
<1>2. Moved(queue, q, QueueNames, Threads, rthread, Mwait(p))
  <2>1. /\ queue \in [QueueNames -> Seq(Threads)] /\ OnePosition(queue, QueueNames)
        /\ Mwait(p) \in QueueNames
    BY <1>1, QueueNameFacts DEF IInv, TypeOK, ThreadsConserved
  <2>2. QED
    BY <1>1, <2>1, MoveHeadFacts
<1>3. \/ owners = {} /\ queue' = q /\ UNCHANGED <<priority, old_priority>>
      \/ \E x \in owners : Promote(q, x, p)
  BY DEF SvcLockBlocked
<1> HIDE DEF q, p
<1>4. /\ \A b \in Priority : \A u :
             /\ Holds(q, Ready(b), u) <=> Holds(queue, Ready(b), u) /\ u # rthread
             /\ Holds(q, Mwait(b), u) <=> IF u = rthread THEN b = p ELSE Holds(queue, Mwait(b), u)
             /\ Holds(q, Swait(b), u) <=> Holds(queue, Swait(b), u) /\ u # rthread
      /\ \A u \in Threads : ~ Holds(q, Free, u) <=> Listed(u)
  <2>1. \A b \in Priority :
            /\ Ready(b) \in QueueNames /\ Mwait(b) \in QueueNames /\ Swait(b) \in QueueNames
            /\ Ready(b) # Mwait(p) /\ Swait(b) # Mwait(p) /\ (Mwait(b) = Mwait(p) <=> b = p)
    BY <1>1, QueueNameFacts
  <2>2. Free \in QueueNames /\ Free # Mwait(p)
    BY <1>1, QueueNameFacts
  <2>3. QED
    BY <1>1, <1>2, <2>1, <2>2 DEF Moved, Listed
<1>5. /\ q \in [QueueNames -> Seq(Threads)] /\ OnePosition(q, QueueNames)
      /\ SomePosition(q, QueueNames, Threads)
  BY <1>2 DEF Moved, IInv, ThreadsConserved
<1>6. p = priority[rthread]
  BY DEF p
<1>7. ASSUME queue' = q, UNCHANGED <<priority, old_priority>>,
             (\E u \in Threads : mine(u)) => \E u \in Threads : mine(u) /\ priority'[u] <= p
      PROVE  Blocked(m, {})
  <2>1. /\ priority' \in [Threads -> Priority]
        /\ old_priority' \in [Threads -> Priority \cup {NO_PRIORITY}]
    BY <1>7 DEF IInv, TypeOK
  <2>2. \A b \in Priority : \A u :
            /\ Holds(queue', Ready(b), u) <=>
                   (u \in {} /\ b = p) \/ (u \notin {} \cup {rthread} /\ Holds(queue, Ready(b), u))
            /\ Holds(queue', Mwait(b), u) <=>
                   u \notin {} /\ IF u = rthread THEN b = p ELSE Holds(queue, Mwait(b), u)
            /\ Holds(queue', Swait(b), u) <=>
                   u \notin {} \cup {rthread} /\ Holds(queue, Swait(b), u)
    BY <1>4, <1>7
  <2>3. \A u \in Threads : Listed(u)' <=> Listed(u)
    BY <1>4, <1>7 DEF Listed
  <2>4. \A u \in Threads : priority'[u] = priority[u] /\ old_priority'[u] = old_priority[u]
    BY <1>7
  <2>5. QED
    BY <1>5, <1>6, <1>7, <2>1, <2>2, <2>3, <2>4 DEF Blocked
<1>8. CASE owners = {} /\ queue' = q /\ UNCHANGED <<priority, old_priority>>
  <2>1. ASSUME NEW u \in Threads, mine(u) PROVE FALSE
    <3>1. PICK a \in QueueNames : Holds(q, a, u)
      BY <1>5 DEF SomePosition
    <3>2. PICK i \in DOMAIN q[a] : q[a][i] = u
      BY <3>1 DEF Holds
    <3>3. a # Free
      BY <1>4, <2>1, <3>1
    <3>4. <<a, i>> \in Positions(q, QueueNames \ {Free}) /\ EntryAt(q, <<a, i>>) = u
      BY <3>2, <3>3 DEF Positions, EntryAt
    <3>5. <<a, i>> \in owners
      BY <2>1, <3>4 DEF PidPositions
    <3>6. QED
      BY <1>8, <3>5
  <2>2. QED
    BY <1>7, <1>8, <2>1
<1>9. ASSUME NEW x \in owners, Promote(q, x, p)
      PROVE  \E P \in SUBSET (Threads \ {rthread}) : Blocked(m, P)
  <2> DEFINE t == EntryAt(q, x)
  <2>1. /\ x = <<x[1], x[2]>> /\ x[1] \in QueueNames \ {Free} /\ x[2] \in DOMAIN q[x[1]]
        /\ t = q[x[1]][x[2]] /\ pid[t] = lockpid[m]
    BY PositionFacts DEF PidPositions
  <2>2. t \in Threads /\ Holds(q, x[1], t)
    BY <1>5, <2>1, HoldsIn DEF Holds
  <2>3. Listed(t) /\ ~ Holds(q, Free, t)
    <3>1. ~ Holds(q, Free, t)
      BY <1>5, <2>1, <2>2, QueueNameFacts DEF OnePosition, Holds
    <3>2. QED
      BY <1>4, <2>2, <3>1
  <2>4. CASE ~ (priority[t] > p)
    <3>1. priority[t] \in Priority
      BY <2>2 DEF IInv, TypeOK
    <3>2. queue' = q /\ UNCHANGED <<priority, old_priority>> /\ priority'[t] <= p
      BY <1>1, <1>9, <2>4, <3>1 DEF Promote, Priority
    <3>3. QED
      BY <1>7, <2>1, <2>2, <2>3, <3>2
  <2>5. CASE priority[t] > p
    <3>1. /\ old_priority' = [old_priority EXCEPT ![t] =
                                  IF old_priority[t] = NO_PRIORITY THEN priority[t]
                                                                   ELSE old_priority[t]]
          /\ priority' = [priority EXCEPT ![t] = p]
          /\ queue' = MoveFrom(q, <<x[1], x[2]>>, Ready(p))
      BY <1>9, <2>1, <2>5 DEF Promote
    <3>2. Moved(q, queue', QueueNames, Threads, t, Ready(p))
      <4>1. PICK a \in QueueNames : \E i \in DOMAIN q[a] :
                /\ queue' = MoveFrom(q, <<a, i>>, Ready(p))
                /\ t = q[a][i]
        BY <2>1, <3>1
      <4>2. PICK i \in DOMAIN q[a] : /\ queue' = MoveFrom(q, <<a, i>>, Ready(p))
                                     /\ t = q[a][i]
        BY <4>1
      <4> HIDE DEF t
      <4>3. QED
        BY <1>1, <1>5, <4>2, MoveFromFacts
    <3> HIDE DEF t
    <3>3. t # rthread
      BY <1>1, <1>6, <2>5 DEF Priority
    <3>4. /\ queue' \in [QueueNames -> Seq(Threads)] /\ OnePosition(queue', QueueNames)
          /\ SomePosition(queue', QueueNames, Threads)
      BY <1>5, <3>2 DEF Moved
    <3>5. /\ \A b \in Priority : \A u :
               /\ Holds(queue', Ready(b), u) <=> IF u = t THEN b = p ELSE Holds(q, Ready(b), u)
               /\ Holds(queue', Mwait(b), u) <=> u # t /\ Holds(q, Mwait(b), u)
               /\ Holds(queue', Swait(b), u) <=> u # t /\ Holds(q, Swait(b), u)
          /\ \A u : Holds(queue', Free, u) <=> u # t /\ Holds(q, Free, u)
      BY <1>1, <3>2, MovedToReady
    <3>6. \A b \in Priority : \A u :
              /\ Holds(queue', Ready(b), u) <=>
                     \/ u \in {t} /\ b = p
                     \/ u \notin {t} \cup {rthread} /\ Holds(queue, Ready(b), u)
              /\ Holds(queue', Mwait(b), u) <=>
                     u \notin {t} /\ IF u = rthread THEN b = p ELSE Holds(queue, Mwait(b), u)
              /\ Holds(queue', Swait(b), u) <=>
                     u \notin {t} \cup {rthread} /\ Holds(queue, Swait(b), u)
      BY <1>4, <3>3, <3>5
    <3>7. priority[t] \in Priority /\ old_priority[t] \in Priority \cup {NO_PRIORITY}
      BY <2>2 DEF IInv, TypeOK
    <3>8. /\ priority' \in [Threads -> Priority]
          /\ old_priority' \in [Threads -> Priority \cup {NO_PRIORITY}]
      BY <1>1, <1>6, <3>1, <3>7 DEF IInv, TypeOK
    <3>9. p < old_priority'[t] /\ priority'[t] = p
      <4>1. old_priority[t] = NO_PRIORITY \/ priority[t] < old_priority[t]
        BY <2>2, <2>3 DEF IInv, PromotionRemembered
      <4>2. QED
        BY <1>1, <1>6, <2>2, <2>5, <3>1, <3>7, <4>1 DEF IInv, TypeOK, Priority, NO_PRIORITY
    <3>10. \A u \in Threads \ {t} :
               priority'[u] = priority[u] /\ old_priority'[u] = old_priority[u]
      BY <3>1 DEF IInv, TypeOK
    <3>11. \A u \in Threads : Listed(u)' <=> Listed(u)
      BY <1>4, <2>3, <3>5 DEF Listed
    <3>12. p <= p /\ p < priority[t]
      BY <1>1, <2>5, <3>7 DEF Priority
    <3>13. Blocked(m, {t})
      BY <1>6, <2>1, <2>2, <2>3, <3>4, <3>6, <3>8, <3>9, <3>10, <3>11, <3>12 DEF Blocked
    <3>14. QED
      BY <2>2, <3>3, <3>13
  <2>6. QED
    BY <2>4, <2>5
<1>10. QED
  BY <1>3, <1>8, <1>7, <1>9

LEMMA LockBlockedStep ==
    ASSUME IInv, NEW m \in Locks, SvcLockBlocked(m)
    PROVE  IInv' /\ WakeUpsKept
<1> DEFINE p == priority[rthread]
<1>1. rthread \in Threads /\ p \in Priority
  BY RunningFacts DEF IInv, SvcLockBlocked, AtCall
<1>2. /\ mptr' = [mptr EXCEPT ![rthread] = m] /\ retry' = [retry EXCEPT ![rthread] = m]
      /\ schedule
      /\ UNCHANGED <<pid, nextpid, lockpid, semval>>
      /\ lockpid[m] # NULL_PID /\ retry[rthread] \in {Null, m}
  BY DEF SvcLockBlocked, AtCall
<1>3. PICK P \in SUBSET (Threads \ {rthread}) : Blocked(m, P)
  BY LockBlockedFacts
<1>4. p = priority[rthread] /\ m \in Objects /\ m # Null
  BY ConstantFacts
<1> HIDE DEF p
<1>5. TypeOK' /\ ThreadsConserved'
  BY <1>1, <1>2, <1>3, <1>4 DEF IInv, TypeOK, ThreadsConserved, schedule, Blocked
<1>6. \A b \in Priority : \A u :
          /\ Holds(queue', Ready(b), u) <=>
                 (u \in P /\ b = p) \/ (u \notin P \cup {rthread} /\ Holds(queue, Ready(b), u))
          /\ Holds(queue', Mwait(b), u) <=>
                 u \notin P /\ IF u = rthread THEN b = p ELSE Holds(queue, Mwait(b), u)
          /\ Holds(queue', Swait(b), u) <=> u \notin P \cup {rthread} /\ Holds(queue, Swait(b), u)
  BY <1>3, <1>4 DEF Blocked
<1>7. /\ \A u \in Threads \ P : priority'[u] = priority[u] /\ old_priority'[u] = old_priority[u]
      /\ \A u \in P : priority'[u] = p /\ p < old_priority'[u]
      /\ \A u \in Threads : Listed(u)' <=> Listed(u)
  BY <1>3, <1>4 DEF Blocked
<1>8. QueueMatchesPriority'
  BY <1>4, <1>6, <1>7 DEF IInv, QueueMatchesPriority
<1>9. WaitersRetry'
  BY <1>1, <1>2, <1>6 DEF IInv, TypeOK, WaitersRetry
<1>10. ListedPids' /\ PromotionRemembered'
  BY <1>2, <1>7 DEF IInv, ListedPids, PromotionRemembered
<1>11. WakeUpsKept
  <2> SUFFICES ASSUME NEW n \in Locks, WakeUpOf(n), lockpid'[n] = NULL_PID,
                      NEW u \in Threads, Waits(u, n)'
               PROVE  \E v \in Threads : IsReady(v)' /\ retry'[v] = n
    BY DEF WakeUpsKept, WakeUpOf
  <2>1. n # m /\ lockpid[n] = NULL_PID
    BY <1>2
  <2>2. u # rthread
    BY <1>1, <1>2, <2>1 DEF IInv, TypeOK, Waits
  <2>3. Waits(u, n)
    BY <1>1, <1>2, <1>6, <2>2 DEF IInv, TypeOK, Waits
  <2>4. PICK v \in Threads : IsReady(v) /\ retry[v] = n
    BY <2>1, <2>3 DEF WakeUpOf
  <2>5. v # rthread
    BY <1>2, <2>1, <2>4, ConstantFacts
  <2>6. IsReady(v)'
    BY <1>1, <1>6, <2>4, <2>5 DEF IsReady
  <2>7. QED
    BY <1>1, <1>2, <2>4, <2>5, <2>6 DEF IInv, TypeOK
<1>12. RunningIsBest'
  BY <1>2, <1>5, <1>8, ScheduleIsBest
<1>13. QED
  BY <1>5, <1>8, <1>9, <1>10, <1>11, <1>12 DEF IInv

(* The head of the caller's ready queue is still the caller after an       *)
(* unlock has made a waiter ready, so that the caller is the one demoted.  *)
LEMMA DemotesCaller ==
    ASSUME IInv, Running, NEW m \in Locks, NEW x \in WaitPositions(MwaitQueues, m)
    PROVE  Head(MoveFrom(queue, x, Ready(priority[EntryAt(queue, x)]))
                    [Ready(priority[rthread])]) = rthread
<1> DEFINE t   == EntryAt(queue, x)
           r   == Ready(priority[t])
           own == Ready(priority[rthread])
           q   == MoveFrom(queue, x, r)
<1>1. /\ own \in QueueNames /\ queue[own] # <<>> /\ Head(queue[own]) = rthread
      /\ own \in ReadyQueues
  BY RunningFacts DEF IInv, ReadyQueues
<1>2. /\ x = <<x[1], x[2]>> /\ x[1] \in MwaitQueues /\ x[2] \in DOMAIN queue[x[1]]
      /\ t = queue[x[1]][x[2]]
  BY PositionFacts DEF WaitPositions
<1>3. queue \in [QueueNames -> Seq(Threads)] /\ x[1] \in QueueNames
  BY <1>2 DEF QueueNames, IInv, TypeOK
<1>4. x[1] # own
  BY <1>1, <1>2, QueueNameFacts DEF MwaitQueues, ReadyQueues
<1>5. t \in Threads
  BY <1>2, <1>3, HoldsIn
<1>6. q[own] = IF own = r THEN Append(queue[own], t) ELSE queue[own]
  BY <1>1, <1>3, <1>4 DEF MoveFrom, push_to_queue, remove_next_from_queue
<1>7. Head(Append(queue[own], t)) = Head(queue[own])
  BY <1>1, <1>3, <1>5
<1>8. QED
  BY <1>1, <1>6, <1>7

(* What an unlock of a lock that threads wait for does: the waiter t, the  *)
(* best of them and among equals the one that has waited longest, is ready *)
(* at its level, and the caller, if it was promoted, at the level it had.  *)
Woken(m, t) ==
    LET op   == old_priority[rthread]
        back == op # NO_PRIORITY
    IN /\ queue' \in [QueueNames -> Seq(Threads)] /\ OnePosition(queue', QueueNames)
       /\ SomePosition(queue', QueueNames, Threads)
       /\ schedule
       /\ Waits(t, m) /\ retry[t] = m /\ t # rthread
       /\ \A u \in Threads \ {t} : Waits(u, m) =>
              \/ priority[t] < priority[u]
              \/ priority[t] = priority[u] /\ AheadIn(queue, Mwait(priority[t]), t, u)
       /\ mptr' = [mptr EXCEPT ![t] = Null]
       /\ IF back THEN /\ priority' = [priority EXCEPT ![rthread] = op]
                       /\ old_priority' = [old_priority EXCEPT ![rthread] = NO_PRIORITY]
                  ELSE UNCHANGED <<priority, old_priority>>
       /\ \A b \in Priority : \A u :
             /\ Holds(queue', Ready(b), u) <=>
                    IF u = rthread /\ back THEN b = op
                    ELSE IF u = t THEN b = priority[t] ELSE Holds(queue, Ready(b), u)
             /\ Holds(queue', Mwait(b), u) <=> u # t /\ Holds(queue, Mwait(b), u)
             /\ Holds(queue', Swait(b), u) <=> Holds(queue, Swait(b), u)
       /\ \A u \in Threads : Listed(u)' <=> Listed(u)

(* A thread that waits for a lock has a position at which find_mutex_wait_ *)
(* next would stop, and such a position holds a thread that waits.         *)
LEMMA WaitersHavePositions ==
    ASSUME NEW m, NEW u, Waits(u, m), QueueMatchesPriority, u \in Threads
    PROVE  \E i \in DOMAIN queue[Mwait(priority[u])] :
               /\ queue[Mwait(priority[u])][i] = u
               /\ <<Mwait(priority[u]), i>> \in WaitPositions(MwaitQueues, m)
<1>1. PICK b \in Priority : Holds(queue, Mwait(b), u) /\ mptr[u] = m
  BY DEF Waits
<1>2. b = priority[u]
  BY <1>1 DEF QueueMatchesPriority
<1>3. PICK i \in DOMAIN queue[Mwait(b)] : queue[Mwait(b)][i] = u
  BY <1>1 DEF Holds
<1>4. EntryAt(queue, <<Mwait(b), i>>) = u
  BY <1>3 DEF EntryAt
<1>5. <<Mwait(b), i>> \in Positions(queue, MwaitQueues)
  BY <1>3 DEF Positions, MwaitQueues
<1>6. QED
  BY <1>1, <1>2, <1>3, <1>4, <1>5 DEF WaitPositions

LEMMA UnlockFacts ==
    ASSUME IInv, NEW m \in Locks, SvcUnlock(m)
    PROVE  \/ /\ \A u \in Threads : ~ Waits(u, m)
              /\ UNCHANGED <<rthread, queue, priority, old_priority, mptr>>
           \/ \E t \in Threads : Woken(m, t)
<1> DEFINE waiters == WaitPositions(MwaitQueues, m)
<1>1. CASE waiters = {} /\ UNCHANGED <<rthread, queue, priority, old_priority, mptr>>
  <2>1. \A u \in Threads : ~ Waits(u, m)
    BY <1>1, WaitersHavePositions DEF IInv
  <2>2. QED
    BY <1>1, <2>1
<1>2. ASSUME NEW x \in waiters, IsFirst(x, waiters),
             mptr' = [mptr EXCEPT ![EntryAt(queue, x)] = Null],
             Demote(MoveFrom(queue, x, Ready(priority[EntryAt(queue, x)]))),
             schedule
      PROVE  Woken(m, EntryAt(queue, x)) /\ EntryAt(queue, x) \in Threads
  <2> DEFINE t  == EntryAt(queue, x)
             pt == priority[t]
             q  == MoveFrom(queue, x, Ready(pt))
             p  == priority[rthread]
             op == old_priority[rthread]
  <2>1. /\ x = <<x[1], x[2]>> /\ x[1] \in MwaitQueues /\ x[2] \in DOMAIN queue[x[1]]
        /\ t = queue[x[1]][x[2]] /\ mptr[t] = m
    BY PositionFacts DEF WaitPositions
  <2>2. x[1] \in QueueNames /\ queue \in [QueueNames -> Seq(Threads)]
        /\ OnePosition(queue, QueueNames) /\ SomePosition(queue, QueueNames, Threads)
    BY <2>1 DEF QueueNames, IInv, TypeOK, ThreadsConserved
  <2>3. t \in Threads /\ Holds(queue, x[1], t)
    BY <2>1, <2>2, HoldsIn DEF Holds
  <2>4. /\ pt \in Priority /\ Ready(pt) \in QueueNames
        /\ x[1] = Mwait(pt) /\ retry[t] = m /\ Waits(t, m)
    <3>1. PICK b \in Priority : x[1] = Mwait(b)
      BY <2>1 DEF MwaitQueues
    <3>2. b = pt /\ retry[t] = m
      BY <2>1, <2>3, <3>1 DEF IInv, WaitersRetry, QueueMatchesPriority
    <3>3. QED
      BY <2>1, <2>3, <3>1, <3>2, QueueNameFacts DEF Waits
  <2>5. Moved(queue, q, QueueNames, Threads, t, Ready(pt))
    <3>1. Ready(pt) \in QueueNames
      BY <2>4
    <3>2. QED
      BY <2>1, <2>2, <3>1, MoveFromFacts
  <2>6. /\ rthread \in Threads /\ p \in Priority /\ Ready(p) \in QueueNames
        /\ Holds(queue, Ready(p), rthread) /\ ~ Holds(queue, Free, rthread)
        /\ \A b \in Priority : /\ ~ Holds(queue, Mwait(b), rthread)
                               /\ ~ Holds(queue, Swait(b), rthread)
    BY RunningFacts, QueueNameFacts DEF IInv, SvcUnlock, Fresh, Listed
  <2>7. t # rthread
    BY <2>3, <2>4, <2>6
  <2>8. /\ Head(q[Ready(p)]) = rthread
        /\ op \in Priority \cup {NO_PRIORITY}
    BY <1>2, <2>6, DemotesCaller DEF IInv, TypeOK, SvcUnlock, Fresh
  <2>9. \/ op = NO_PRIORITY /\ queue' = q /\ UNCHANGED <<priority, old_priority>>
        \/ /\ op # NO_PRIORITY
           /\ priority' = [priority EXCEPT ![rthread] = op]
           /\ old_priority' = [old_priority EXCEPT ![rthread] = NO_PRIORITY]
           /\ queue' = MoveHeadToFront(q, Ready(p), Ready(op))
    BY <1>2, <2>8 DEF Demote
  <2>10. ~ Holds(queue, Free, t)
    BY <2>2, <2>3, <2>4, OnlyQueue, QueueNameFacts
  <2>11. mptr' = [mptr EXCEPT ![t] = Null]
    BY <1>2
  <2>12. \A u \in Threads \ {t} : Waits(u, m) =>
             \/ pt < priority[u]
             \/ pt = priority[u] /\ AheadIn(queue, Mwait(pt), t, u)
    <3> SUFFICES ASSUME NEW u \in Threads \ {t}, Waits(u, m)
                 PROVE  \/ pt < priority[u]
                        \/ pt = priority[u] /\ AheadIn(queue, Mwait(pt), t, u)
      OBVIOUS
    <3> DEFINE b == priority[u]
    <3>1. PICK i \in DOMAIN queue[Mwait(b)] : /\ queue[Mwait(b)][i] = u
                                              /\ <<Mwait(b), i>> \in waiters
      BY WaitersHavePositions DEF IInv
    <3>2. x = <<Mwait(b), i>> \/ ScannedBefore(x, <<Mwait(b), i>>)
      BY <1>2, <3>1 DEF IsFirst
    <3>3. x # <<Mwait(b), i>>
      BY <2>1, <3>1
    <3>4. /\ x[1][2] = pt /\ Mwait(b)[2] = b
          /\ KindRank(x[1]) = 1 /\ KindRank(Mwait(b)) = 1
      BY <2>4 DEF KindRank, Mwait
    <3>5. \/ pt < b
          \/ x[1] = Mwait(b) /\ x[2] < i
      BY <3>2, <3>3, <3>4 DEF ScannedBefore
    <3>6. CASE x[1] = Mwait(b) /\ x[2] < i
      <4>1. pt = b
        BY <3>4, <3>6
      <4>2. AheadIn(queue, Mwait(pt), t, u)
        BY <2>1, <3>1, <3>6, <4>1 DEF AheadIn
      <4>3. QED
        BY <4>1, <4>2
    <3>7. QED
      BY <3>5, <3>6
  <2> HIDE DEF t, pt, q, p, op, waiters
  <2>13. /\ q \in [QueueNames -> Seq(Threads)] /\ OnePosition(q, QueueNames)
         /\ SomePosition(q, QueueNames, Threads)
    BY <2>2, <2>5 DEF Moved
  <2>14. /\ \A b \in Priority : \A u :
                /\ Holds(q, Ready(b), u) <=> IF u = t THEN b = pt ELSE Holds(queue, Ready(b), u)
                /\ Holds(q, Mwait(b), u) <=> u # t /\ Holds(queue, Mwait(b), u)
                /\ Holds(q, Swait(b), u) <=> u # t /\ Holds(queue, Swait(b), u)
         /\ \A u : Holds(q, Free, u) <=> u # t /\ Holds(queue, Free, u)
    BY <2>4, <2>5, MovedToReady
  <2>15. \A b \in Priority : ~ Holds(queue, Swait(b), t)
    BY <2>2, <2>3, <2>4, OnlyQueue, QueueNameFacts
  <2>16. pt = priority[t] /\ op = old_priority[rthread]
    BY DEF pt, op
  <2>17. CASE op = NO_PRIORITY
    <3>1. queue' = q /\ UNCHANGED <<priority, old_priority>>
      BY <2>9, <2>17
    <3>2. \A u \in Threads : Listed(u)' <=> Listed(u)
      BY <2>10, <2>14, <3>1 DEF Listed
    <3>3. \A b \in Priority : \A u :
              /\ Holds(queue', Ready(b), u) <=>
                     IF u = t THEN b = pt ELSE Holds(queue, Ready(b), u)
              /\ Holds(queue', Mwait(b), u) <=> u # t /\ Holds(queue, Mwait(b), u)
              /\ Holds(queue', Swait(b), u) <=> Holds(queue, Swait(b), u)
      BY <2>14, <2>15, <3>1
    <3>4. /\ queue' \in [QueueNames -> Seq(Threads)] /\ OnePosition(queue', QueueNames)
          /\ SomePosition(queue', QueueNames, Threads)
      BY <2>13, <3>1
    <3>5. QED
      BY <1>2, <2>3, <2>4, <2>7, <2>11, <2>12, <2>16, <2>17, <3>1, <3>2, <3>3, <3>4
         DEF Woken, t
  <2>18. CASE op # NO_PRIORITY
    <3>1. /\ op \in Priority /\ Ready(op) \in QueueNames
          /\ priority' = [priority EXCEPT ![rthread] = op]
          /\ old_priority' = [old_priority EXCEPT ![rthread] = NO_PRIORITY]
          /\ queue' = MoveHeadToFront(q, Ready(p), Ready(op))
      BY <2>8, <2>9, <2>18, QueueNameFacts
    <3>2. q[Ready(p)] # <<>>
      <4>1. Holds(q, Ready(p), rthread)
        BY <2>6, <2>7, <2>14
      <4>2. QED
        BY <4>1 DEF Holds
    <3>3. Moved(q, queue', QueueNames, Threads, rthread, Ready(op))
      BY <2>6, <2>8, <2>13, <3>1, <3>2, MoveHeadToFrontFacts
    <3>4. /\ queue' \in [QueueNames -> Seq(Threads)] /\ OnePosition(queue', QueueNames)
          /\ SomePosition(queue', QueueNames, Threads)
      BY <2>13, <3>3 DEF Moved
    <3>5. /\ \A b \in Priority : \A u :
               /\ Holds(queue', Ready(b), u) <=> IF u = rthread THEN b = op ELSE Holds(q, Ready(b), u)
               /\ Holds(queue', Mwait(b), u) <=> u # rthread /\ Holds(q, Mwait(b), u)
               /\ Holds(queue', Swait(b), u) <=> u # rthread /\ Holds(q, Swait(b), u)
          /\ \A u : Holds(queue', Free, u) <=> u # rthread /\ Holds(q, Free, u)
      BY <3>1, <3>3, MovedToReady
    <3>6. \A b \in Priority : \A u :
              /\ Holds(queue', Ready(b), u) <=>
                     IF u = rthread THEN b = op
                     ELSE IF u = t THEN b = pt ELSE Holds(queue, Ready(b), u)
              /\ Holds(queue', Mwait(b), u) <=> u # t /\ Holds(queue, Mwait(b), u)
              /\ Holds(queue', Swait(b), u) <=> Holds(queue, Swait(b), u)
      BY <2>6, <2>14, <2>15, <3>5
    <3>7. \A u \in Threads : Listed(u)' <=> Listed(u)
      BY <2>6, <2>10, <2>14, <3>5 DEF Listed
    <3>8. QED
      BY <1>2, <2>3, <2>4, <2>7, <2>11, <2>12, <2>16, <2>18, <3>1, <3>4, <3>6, <3>7
         DEF Woken, t
  <2>19. t = EntryAt(queue, x)
    BY DEF t
  <2>20. QED
    BY <2>3, <2>17, <2>18, <2>19
<1>3. QED
  BY <1>1, <1>2 DEF SvcUnlock

LEMMA UnlockStep ==
    ASSUME IInv, NEW m \in Locks, SvcUnlock(m)
    PROVE  IInv' /\ WakeUpsKept
<1>1. /\ lockpid' = [lockpid EXCEPT ![m] = NULL_PID]
      /\ UNCHANGED <<pid, retry, nextpid, semval>>
      /\ lockpid' \in [Locks -> Pids \cup {NULL_PID}]
  BY DEF SvcUnlock, IInv, TypeOK
<1>2. CASE /\ \A u \in Threads : ~ Waits(u, m)
           /\ UNCHANGED <<rthread, queue, priority, old_priority, mptr>>
  <2>1. TypeOK' /\ ThreadsConserved' /\ QueueMatchesPriority'
    BY <1>1, <1>2 DEF IInv, TypeOK, ThreadsConserved, QueueMatchesPriority
  <2>2. RunningIsBest' /\ WaitersRetry'
    BY <1>1, <1>2 DEF IInv, RunningIsBest, Running, WaitersRetry
  <2>3. ListedPids' /\ PromotionRemembered'
    BY <1>1, <1>2 DEF IInv, ListedPids, PromotionRemembered, Listed
  <2>4. WakeUpsKept
    <3> SUFFICES ASSUME NEW n \in Locks, WakeUpOf(n), lockpid'[n] = NULL_PID,
                        NEW u \in Threads, Waits(u, n)'
                 PROVE  \E v \in Threads : IsReady(v)' /\ retry'[v] = n
      BY DEF WakeUpsKept, WakeUpOf
    <3>1. Waits(u, n) /\ n # m
      BY <1>2 DEF Waits
    <3>2. PICK v \in Threads : IsReady(v) /\ retry[v] = n
      BY <1>1, <3>1 DEF IInv, TypeOK, WakeUpOf
    <3>3. QED
      BY <1>1, <1>2, <3>2 DEF IsReady
  <2>5. QED
    BY <2>1, <2>2, <2>3, <2>4 DEF IInv
<1>3. ASSUME NEW t \in Threads, Woken(m, t)
      PROVE  IInv' /\ WakeUpsKept
  <2> DEFINE op   == old_priority[rthread]
             back == op # NO_PRIORITY
  <2>1. /\ rthread \in Threads /\ priority[rthread] \in Priority
        /\ op \in Priority \cup {NO_PRIORITY}
        /\ priority[t] \in Priority
        /\ \A b \in Priority : /\ ~ Holds(queue, Mwait(b), rthread)
                               /\ ~ Holds(queue, Swait(b), rthread)
    BY RunningFacts, QueueNameFacts DEF IInv, TypeOK, SvcUnlock, Fresh
  <2>2. /\ mptr' = [mptr EXCEPT ![t] = Null] /\ retry[t] = m /\ t # rthread /\ schedule
        /\ \A u \in Threads : Listed(u)' <=> Listed(u)
        /\ \A b \in Priority : \A u :
              /\ Holds(queue', Ready(b), u) <=>
                    IF u = rthread /\ back THEN b = op
                    ELSE IF u = t THEN b = priority[t] ELSE Holds(queue, Ready(b), u)
              /\ Holds(queue', Mwait(b), u) <=> u # t /\ Holds(queue, Mwait(b), u)
              /\ Holds(queue', Swait(b), u) <=> Holds(queue, Swait(b), u)
    BY <1>3 DEF Woken
  <2>3. /\ \A u \in Threads :
               /\ priority'[u] = IF u = rthread /\ back THEN op ELSE priority[u]
               /\ old_priority'[u] = IF u = rthread THEN NO_PRIORITY ELSE old_priority[u]
        /\ priority' \in [Threads -> Priority]
        /\ old_priority' \in [Threads -> Priority \cup {NO_PRIORITY}]
    <3>1. CASE back
      <4>1. /\ priority' = [priority EXCEPT ![rthread] = op]
            /\ old_priority' = [old_priority EXCEPT ![rthread] = NO_PRIORITY]
        BY <1>3, <3>1 DEF Woken
      <4>2. QED
        BY <2>1, <3>1, <4>1 DEF IInv, TypeOK
    <3>2. CASE ~ back
      <4>1. UNCHANGED <<priority, old_priority>>
        BY <1>3, <3>2 DEF Woken
      <4>2. QED
        BY <3>2, <4>1 DEF IInv, TypeOK
    <3>3. QED
      BY <3>1, <3>2
  <2>4. TypeOK' /\ ThreadsConserved'
    <3>1. /\ queue' \in [QueueNames -> Seq(Threads)] /\ OnePosition(queue', QueueNames)
          /\ SomePosition(queue', QueueNames, Threads)
      BY <1>3 DEF Woken
    <3>2. QED
      BY <1>1, <2>2, <2>3, <3>1 DEF IInv, TypeOK, ThreadsConserved, schedule
  <2>5. QueueMatchesPriority'
    BY <2>1, <2>2, <2>3 DEF IInv, QueueMatchesPriority
  <2>6. WaitersRetry'
    <3> SUFFICES ASSUME NEW b \in Priority, NEW u \in Threads
                 PROVE /\ Holds(queue', Mwait(b), u) => mptr'[u] \in Locks /\ retry'[u] = mptr'[u]
                       /\ Holds(queue', Swait(b), u) => mptr'[u] \in Semaphores /\ retry'[u] = mptr'[u]
      BY DEF WaitersRetry
    <3>1. u # t => mptr'[u] = mptr[u]
      BY <2>2 DEF IInv, TypeOK
    <3>2. ~ Holds(queue, Swait(b), t)
      <4>1. PICK c \in Priority : Holds(queue, Mwait(c), t)
        BY <1>3 DEF Woken, Waits
      <4>2. QED
        BY <4>1, OnlyQueue, QueueNameFacts DEF IInv, ThreadsConserved
    <3>3. QED
      BY <1>1, <2>2, <3>1, <3>2 DEF IInv, WaitersRetry
  <2>7. ListedPids' /\ PromotionRemembered'
    BY <1>1, <2>2, <2>3 DEF IInv, ListedPids, PromotionRemembered
  <2>8. \A u \in Threads : IsReady(u) \/ u = t => IsReady(u)'
    BY <2>1, <2>2 DEF IsReady
  <2>9. WakeUpsKept
    <3> SUFFICES ASSUME NEW n \in Locks, WakeUpOf(n), lockpid'[n] = NULL_PID,
                        NEW u \in Threads, Waits(u, n)'
                 PROVE  \E v \in Threads : IsReady(v)' /\ retry'[v] = n
      BY DEF WakeUpsKept, WakeUpOf
    <3>1. CASE n = m
      BY <1>1, <2>2, <2>8, <3>1
    <3>2. CASE n # m
      <4>1. Waits(u, n) /\ lockpid[n] = NULL_PID
        BY <1>1, <2>2, <3>2 DEF IInv, TypeOK, Waits
      <4>2. PICK v \in Threads : IsReady(v) /\ retry[v] = n
        BY <4>1 DEF WakeUpOf
      <4>3. QED
        BY <1>1, <2>8, <4>2
    <3>3. QED
      BY <3>1, <3>2
  <2>10. RunningIsBest'
    BY <2>2, <2>4, <2>5, ScheduleIsBest
  <2>11. QED
    BY <2>4, <2>5, <2>6, <2>7, <2>9, <2>10 DEF IInv
<1>4. QED
  BY <1>2, <1>3, UnlockFacts
-----------------------------------------------------------------------------
(***************************************************************************)
(* The theorems.                                                           *)
(***************************************************************************)
LEMMA NextIInv == IInv /\ [Next]_vars => IInv' /\ WakeUpsKept
<1> SUFFICES ASSUME IInv, [Next]_vars PROVE IInv' /\ WakeUpsKept
  OBVIOUS
<1>1. CASE SvcYield
  BY <1>1, YieldStep
<1>2. CASE SvcSchedule
  BY <1>2, ScheduleStep
<1>3. CASE Cleanup
  BY <1>3, CleanupStep
<1>4. ASSUME NEW arg \in PriorityArgs, SvcAddThread(arg) PROVE IInv' /\ WakeUpsKept
  BY <1>4, AddThreadStep
<1>5. ASSUME NEW m \in Locks, SvcLockTaken(m) PROVE IInv' /\ WakeUpsKept
  BY <1>5, LockTakenStep
<1>6. ASSUME NEW m \in Locks, SvcLockBlocked(m) PROVE IInv' /\ WakeUpsKept
  BY <1>6, LockBlockedStep
<1>7. ASSUME NEW m \in Locks, SvcUnlock(m) PROVE IInv' /\ WakeUpsKept
  BY <1>7, UnlockStep
<1>8. ASSUME NEW s \in Semaphores, SvcSemaphoreTaken(s) PROVE IInv' /\ WakeUpsKept
  BY <1>8, SemaphoreTakenStep
<1>9. ASSUME NEW s \in Semaphores, SvcSemaphoreBlocked(s) PROVE IInv' /\ WakeUpsKept
  BY <1>9, SemaphoreBlockedStep
<1>10. ASSUME NEW s \in Semaphores, SvcSemaphoreV(s) PROVE IInv' /\ WakeUpsKept
  BY <1>10, SemaphoreVStep
<1>11. CASE UNCHANGED vars
  <2>1. /\ TypeOK' /\ ThreadsConserved' /\ QueueMatchesPriority' /\ RunningIsBest'
        /\ WaitersRetry'
    BY <1>11 DEF vars, threadVars, IInv, TypeOK, ThreadsConserved, QueueMatchesPriority,
                 RunningIsBest, Running, WaitersRetry
  <2>2. ListedPids' /\ WakeUpsKept /\ PromotionRemembered'
    BY <1>11 DEF vars, threadVars, IInv, ListedPids, Listed, WakeUpsKept, WakeUpOf, Waits,
                 IsReady, PromotionRemembered
  <2>3. QED
    BY <2>1, <2>2 DEF IInv
<1>12. QED
  BY <1>1, <1>2, <1>3, <1>4, <1>5, <1>6, <1>7, <1>8, <1>9, <1>10, <1>11 DEF Next

(* The inductive invariant holds in every reachable state. *)
THEOREM InductiveInvariant == Spec => []IInv
<1>1. IInv /\ [Next]_vars => IInv'
  BY NextIInv
<1>2. Init => IInv
  BY InitIInv
<1>3. QED
  BY <1>1, <1>2, PTL DEF Spec

(* Every field keeps its C type, and the queues hold threads of the pool:  *)
(* no call of svc.S stores a value outside a field's range.                *)
THEOREM TypeCorrect == Spec => []TypeOK
<1>1. IInv => TypeOK
  BY DEF IInv
<1>2. QED
  BY <1>1, InductiveInvariant, PTL

(* No sequence of supervisor calls loses a thread of the pool or links its *)
(* entry into two queues of struct Scheduler.                              *)
THEOREM ThreadsAreConserved == Spec => []ThreadsConserved
<1>1. IInv => ThreadsConserved
  BY DEF IInv
<1>2. QED
  BY <1>1, InductiveInvariant, PTL

(* rthread is what next_thread finds and the head of its ready queue, so   *)
(* the handlers that pop that queue blindly take rthread and not another.  *)
THEOREM RunningThreadIsBest == Spec => []RunningIsBest
<1>1. IInv => RunningIsBest
  BY DEF IInv
<1>2. QED
  BY <1>1, InductiveInvariant, PTL

(* A thread on a wait queue names, in mptr, the object of the call it will *)
(* repeat, although find_pid may have moved it between queues meanwhile.   *)
THEOREM WaitersWillRetry == Spec => []WaitersRetry
<1>1. IInv => WaitersRetry
  BY DEF IInv
<1>2. QED
  BY <1>1, InductiveInvariant, PTL

(* An unlock wakes one waiter only, and that is enough: while a lock that  *)
(* threads wait for is free, a ready thread is about to repeat SYS_LOCK.   *)
THEOREM LockWakeupsAreKept == Spec => []NoLostLockWakeup
<1>1. IInv /\ NoLostLockWakeup /\ [Next]_vars => NoLostLockWakeup'
  BY NextIInv DEF WakeUpsKept, WakeUpOf, NoLostLockWakeup
<1>2. Init => NoLostLockWakeup
  BY InitIInv
<1>3. QED
  BY <1>1, <1>2, InductiveInvariant, PTL DEF Spec

(* A promotion is never forgotten: sched_mutex_yield stores old_priority   *)
(* once, and only while the thread runs above it.                          *)
THEOREM PromotionsAreRemembered == Spec => []PromotionRemembered
<1>1. IInv => PromotionRemembered
  BY DEF IInv
<1>2. QED
  BY <1>1, InductiveInvariant, PTL

(* The priority field and the queue of a listed thread change together. *)
THEOREM QueuesMatchPriorities == Spec => []QueueMatchesPriority
<1>1. IInv => QueueMatchesPriority
  BY DEF IInv
<1>2. QED
  BY <1>1, InductiveInvariant, PTL

(* The pid of a listed thread is never one that a lock word uses for       *)
(* "free", nor one kept for the cores, also after nextpid has overflowed.  *)
THEOREM PidsOfListedThreads == Spec => []ListedPids
<1>1. IInv => ListedPids
  BY DEF IInv
<1>2. QED
  BY <1>1, InductiveInvariant, PTL

LEMMA NextBase ==
    ASSUME IInv, [Next]_vars
    PROVE  \A t \in Threads : Listed(t) /\ Listed(t)' => Base(t)' = Base(t)
<1>1. CASE UNCHANGED <<priority, old_priority>>
  BY <1>1 DEF Base
<1>2. ASSUME NEW arg \in PriorityArgs, SvcAddThread(arg), queue[Free] # <<>>
      PROVE  \A t \in Threads : Listed(t) => Base(t)' = Base(t)
  <2> DEFINE h == Head(queue[Free])
  <2>1. Holds(queue, Free, h)
    BY <1>2, HoldsIn, QueueNameFacts DEF IInv, TypeOK
  <2>2. \A t \in Threads : t # h =>
            priority'[t] = priority[t] /\ old_priority'[t] = old_priority[t]
    BY <1>2 DEF SvcAddThread, IInv, TypeOK
  <2>3. QED
    BY <2>1, <2>2 DEF Listed, Base
<1>3. ASSUME NEW q, NEW x, NEW p, Promote(q, x, p)
      PROVE  \A t \in Threads : Base(t)' = Base(t)
  <2> SUFFICES ASSUME NEW t \in Threads PROVE Base(t)' = Base(t)
    OBVIOUS
  <2>1. CASE t # EntryAt(q, x) \/ ~ (priority[EntryAt(q, x)] > p)
    BY <1>3, <2>1 DEF Promote, IInv, TypeOK, Base
  <2>2. CASE t = EntryAt(q, x) /\ priority[EntryAt(q, x)] > p
    <3>1. old_priority'[t] = IF old_priority[t] = NO_PRIORITY THEN priority[t]
                                                              ELSE old_priority[t]
      BY <1>3, <2>2 DEF Promote, IInv, TypeOK
    <3>2. priority[t] # NO_PRIORITY
      BY ConstantFacts DEF IInv, TypeOK
    <3>3. QED
      BY <3>1, <3>2 DEF Base
  <2>3. QED
    BY <2>1, <2>2
<1>4. ASSUME NEW m \in Locks, SvcUnlock(m), NEW x \in WaitPositions(MwaitQueues, m),
             Demote(MoveFrom(queue, x, Ready(priority[EntryAt(queue, x)])))
      PROVE  \A t \in Threads : Base(t)' = Base(t)
  <2>1. Running
    BY <1>4 DEF SvcUnlock, Fresh
  <2>2. \/ UNCHANGED <<priority, old_priority>>
        \/ /\ old_priority[rthread] # NO_PRIORITY
           /\ priority' = [priority EXCEPT ![rthread] = old_priority[rthread]]
           /\ old_priority' = [old_priority EXCEPT ![rthread] = NO_PRIORITY]
    BY <1>4, <2>1, DemotesCaller DEF Demote
  <2>3. QED
    BY <2>2 DEF IInv, TypeOK, Base
<1>5. \/ UNCHANGED <<priority, old_priority>>
      \/ \E arg \in PriorityArgs : SvcAddThread(arg)
      \/ \E m \in Locks : SvcLockBlocked(m) \/ SvcUnlock(m)
  BY DEF Next, SvcYield, SvcSchedule, Cleanup, SvcLockTaken, SvcSemaphoreTaken,
         SvcSemaphoreBlocked, SvcSemaphoreV, threadVars, vars
<1>6. ASSUME NEW m \in Locks, SvcLockBlocked(m)
      PROVE  \/ UNCHANGED <<priority, old_priority>>
             \/ \E q, x, p : Promote(q, x, p)
  BY <1>6 DEF SvcLockBlocked
<1>7. ASSUME NEW m \in Locks, SvcUnlock(m)
      PROVE  \/ UNCHANGED <<priority, old_priority>>
             \/ \E x \in WaitPositions(MwaitQueues, m) :
                    Demote(MoveFrom(queue, x, Ready(priority[EntryAt(queue, x)])))
  BY <1>7 DEF SvcUnlock
<1>8. ASSUME NEW arg \in PriorityArgs, SvcAddThread(arg), queue[Free] = <<>>
      PROVE  UNCHANGED <<priority, old_priority>>
  BY <1>8 DEF SvcAddThread, threadVars
<1>9. QED
  BY <1>1, <1>2, <1>3, <1>4, <1>5, <1>6, <1>7, <1>8

(* "Restore the original priority level" (schedule.c:441): whatever chain  *)
(* of promotions and unlocks a thread goes through, the level it was       *)
(* started at is in priority or in old_priority until it returns.          *)
THEOREM BasePriorityIsKept == Spec => BaseIsKept
<1>1. IInv /\ [Next]_vars =>
          [\A t \in Threads : Listed(t) /\ Listed(t)' => Base(t)' = Base(t)]_vars
  BY NextBase
<1>2. QED
  BY <1>1, InductiveInvariant, PTL DEF Spec, BaseIsKept

(* No call lets a ready thread pass another one of its level: only the     *)
(* caller changes its place, and it can only fall back.                    *)
LEMMA NextOrder ==
    ASSUME IInv, [Next]_vars, NEW p \in Priority, NEW t \in Threads, NEW u \in Threads,
           AheadIn(queue, Ready(p), t, u), AheadIn(queue', Ready(p), u, t)
    PROVE  t = rthread
<1> DEFINE own == Ready(priority[rthread])
<1>1. /\ queue \in [QueueNames -> Seq(Threads)] /\ OnePosition(queue, QueueNames)
      /\ Ready(p) \in QueueNames /\ Free \in QueueNames /\ Ready(p) # Free
  BY QueueNameFacts DEF IInv, TypeOK, ThreadsConserved
<1>2. /\ Holds(queue, Ready(p), t) /\ Holds(queue, Ready(p), u)
      /\ ~ AheadIn(queue, Ready(p), u, t)
  BY <1>1, AheadFacts
<1>3. /\ priority[t] = p /\ priority[u] = p
      /\ \A a \in QueueNames : Holds(queue, a, t) => a = Ready(p)
  <2>1. priority[t] = p /\ priority[u] = p
    BY <1>2 DEF IInv, QueueMatchesPriority
  <2>2. \A a \in QueueNames : Holds(queue, a, t) => a = Ready(p)
    BY <1>1, <1>2, OnlyQueue
  <2>3. QED
    BY <2>1, <2>2
<1>4. queue' # queue
  BY <1>2
<1>5. ASSUME Running
      PROVE  /\ rthread \in Threads /\ priority[rthread] \in Priority /\ own \in QueueNames
             /\ queue[own] # <<>> /\ Head(queue[own]) = rthread
  BY <1>5, RunningFacts DEF IInv
<1>6. CASE SvcYield
  <2>1. Running /\ queue' = MoveHead(queue, own, own)
    BY <1>6 DEF SvcYield, Fresh
  <2>2. QED
    BY <1>1, <1>2, <1>5, <2>1, MoveHeadOrder
<1>7. CASE Cleanup
  <2>1. Running /\ queue' = MoveHead(queue, own, Free)
    BY <1>7 DEF Cleanup, Fresh
  <2>2. QED
    BY <1>1, <1>2, <1>5, <2>1, MoveHeadOrder
<1>8. ASSUME NEW arg \in PriorityArgs, SvcAddThread(arg) PROVE FALSE
  <2> DEFINE c == Ready(CappedPriority(arg))
  <2>1. queue[Free] # <<>> /\ queue' = MoveHead(queue, Free, c)
    BY <1>4, <1>8 DEF SvcAddThread
  <2>2. c \in QueueNames
    <3>1. CappedPriority(arg) \in Priority
      BY PrioritiesAssumption, PriorityArgsAssumption DEF Priority, CappedPriority
    <3>2. QED
      BY <3>1, QueueNameFacts
  <2> HIDE DEF c
  <2>3. t = Head(queue[Free])
    BY <1>1, <1>2, <2>1, <2>2, MoveHeadOrder
  <2>4. Holds(queue, Free, t)
    BY <1>1, <2>1, <2>3, HoldsIn
  <2>5. QED
    BY <1>1, <1>3, <2>4
<1>9. ASSUME NEW s \in Semaphores, SvcSemaphoreBlocked(s) PROVE FALSE
  <2>1. /\ Running /\ queue' = MoveHead(queue, own, Swait(priority[rthread]))
    BY <1>9 DEF SvcSemaphoreBlocked, AtCall
  <2>2. Swait(priority[rthread]) \in QueueNames /\ Swait(priority[rthread]) # Ready(p)
    BY <1>5, <2>1, QueueNameFacts
  <2>3. QED
    BY <1>1, <1>2, <1>5, <2>1, <2>2, MoveHeadOrder
(* A thread that is moved from a position of other queues is not t. *)
<1>10. ASSUME NEW A \in SUBSET QueueNames, NEW o, NEW x \in WaitPositions(A, o),
              Ready(p) \notin A, EntryAt(queue, x) \in Threads,
              AheadIn(MoveFrom(queue, x, Ready(priority[EntryAt(queue, x)])), Ready(p), u, t)
       PROVE  FALSE
  <2> DEFINE e == EntryAt(queue, x)
             c == Ready(priority[e])
  <2>1. /\ x = <<x[1], x[2]>> /\ x[1] \in A /\ x[2] \in DOMAIN queue[x[1]]
        /\ e = queue[x[1]][x[2]]
    BY PositionFacts DEF WaitPositions
  <2>2. c \in QueueNames
    BY <1>10, QueueNameFacts DEF IInv, TypeOK
  <2>3. AheadIn(MoveFrom(queue, <<x[1], x[2]>>, c), Ready(p), u, t)
    BY <1>10, <2>1
  <2> HIDE DEF c, e
  <2>4. t = e
    BY <1>1, <1>2, <1>10, <2>1, <2>2, <2>3, MoveFromOrder
  <2>5. Holds(queue, x[1], t)
    BY <2>1, <2>4 DEF Holds
  <2>6. QED
    BY <1>3, <1>10, <2>1, <2>5
<1>11. ASSUME NEW A \in SUBSET QueueNames, NEW o, NEW x \in WaitPositions(A, o)
       PROVE  EntryAt(queue, x) \in Threads
  BY <1>1, PositionFacts, HoldsIn DEF WaitPositions
<1>12. ASSUME NEW s \in Semaphores, SvcSemaphoreV(s) PROVE FALSE
  <2>1. PICK x \in WaitPositions(SwaitQueues, s) :
            queue' = MoveFrom(queue, x, Ready(priority[EntryAt(queue, x)]))
    BY <1>4, <1>12 DEF SvcSemaphoreV
  <2>2. SwaitQueues \in SUBSET QueueNames /\ Ready(p) \notin SwaitQueues
    BY DEF QueueNames, SwaitQueues, Ready, Swait
  <2>3. QED
    BY <1>10, <1>11, <2>1, <2>2
<1>13. ASSUME NEW m \in Locks, SvcLockBlocked(m) PROVE FALSE
  <2> DEFINE c == priority[rthread]
             q == MoveHead(queue, own, Mwait(c))
  <2>1. /\ Running
        /\ \/ queue' = q
           \/ \E x \in PidPositions(q, lockpid[m]) : Promote(q, x, c)
    BY <1>13 DEF SvcLockBlocked, AtCall
  <2>2. Mwait(c) \in QueueNames /\ Mwait(c) # Ready(p) /\ c \in Priority
    BY <1>5, <2>1, QueueNameFacts
  <2>3. ~ AheadIn(q, Ready(p), u, t)
    BY <1>1, <1>2, <1>5, <2>1, <2>2, MoveHeadOrder
  <2>4. q \in [QueueNames -> Seq(Threads)] /\ OnePosition(q, QueueNames)
    BY <1>1, <1>5, <2>1, <2>2, MoveHeadFacts DEF Moved
  <2> HIDE DEF q
  <2>5. PICK x \in PidPositions(q, lockpid[m]) :
            /\ priority[EntryAt(q, x)] > c /\ queue' = MoveFrom(q, x, Ready(c))
    BY <2>1, <2>3 DEF Promote
  <2>6. /\ x = <<x[1], x[2]>> /\ x[1] \in QueueNames /\ x[2] \in DOMAIN q[x[1]]
        /\ EntryAt(q, x) = q[x[1]][x[2]]
    BY PositionFacts DEF PidPositions
  <2>7. AheadIn(MoveFrom(q, <<x[1], x[2]>>, Ready(c)), Ready(p), u, t)
    BY <2>5, <2>6
  <2>8. Ready(c) \in QueueNames
    BY <2>2, QueueNameFacts
  <2>9. Ready(p) = Ready(c) /\ t = q[x[1]][x[2]]
    <3>1. ASSUME NEW a \in QueueNames, NEW i \in DOMAIN q[a],
                 AheadIn(MoveFrom(q, <<a, i>>, Ready(c)), Ready(p), u, t)
          PROVE  AheadIn(q, Ready(p), u, t) \/ (Ready(p) = Ready(c) /\ t = q[a][i])
      <4> HIDE DEF own, c
      <4>1. Ready(p) \in QueueNames
        BY <1>1
      <4>2. QED
        BY <2>4, <2>8, <3>1, <4>1, MoveFromOrder
    <3>2. QED
      BY <2>3, <2>6, <2>7, <3>1
  <2>10. p = c /\ priority[t] > c
    BY <2>5, <2>6, <2>9, QueueNameFacts
  <2>11. QED
    BY <1>3, <2>10 DEF Priority
<1>14. ASSUME NEW m \in Locks, SvcUnlock(m) PROVE FALSE
  <2>1. /\ Running
        /\ \E x \in WaitPositions(MwaitQueues, m) :
               Demote(MoveFrom(queue, x, Ready(priority[EntryAt(queue, x)])))
    BY <1>4, <1>14 DEF SvcUnlock, Fresh
  <2>2. PICK x \in WaitPositions(MwaitQueues, m) :
            Demote(MoveFrom(queue, x, Ready(priority[EntryAt(queue, x)])))
    BY <2>1
  <2> DEFINE e  == EntryAt(queue, x)
             q  == MoveFrom(queue, x, Ready(priority[e]))
             op == old_priority[rthread]
  <2>3. MwaitQueues \in SUBSET QueueNames /\ Ready(p) \notin MwaitQueues
    BY DEF QueueNames, MwaitQueues, Ready, Mwait
  <2>4. ~ AheadIn(q, Ready(p), u, t)
    BY <1>10, <1>11, <2>3
  <2>5. Head(q[own]) = rthread
    BY <2>1, DemotesCaller
  <2>6. /\ op # NO_PRIORITY /\ queue' = MoveHeadToFront(q, own, Ready(op))
    BY <2>2, <2>4 DEF Demote
  <2>7. q \in [QueueNames -> Seq(Threads)] /\ OnePosition(q, QueueNames) /\ q[own] # <<>>
    <3>1. /\ x = <<x[1], x[2]>> /\ x[1] \in MwaitQueues /\ x[2] \in DOMAIN queue[x[1]]
          /\ e = queue[x[1]][x[2]]
      BY PositionFacts DEF WaitPositions
    <3>2. Ready(priority[e]) \in QueueNames
      BY <1>11, <2>3, QueueNameFacts DEF IInv, TypeOK
    <3>3. Moved(queue, q, QueueNames, Threads, e, Ready(priority[e]))
      <4>1. /\ q = MoveFrom(queue, <<x[1], x[2]>>, Ready(priority[e]))
            /\ x[1] \in QueueNames
        BY <2>3, <3>1
      <4> HIDE DEF q, e
      <4>2. QED
        BY <1>1, <3>1, <3>2, <4>1, MoveFromFacts
    <3>4. Holds(queue, own, rthread) /\ own \in QueueNames \ MwaitQueues
      <4>1. own \notin MwaitQueues
        BY DEF MwaitQueues, Mwait, Ready
      <4>2. QED
        BY <1>1, <1>5, <2>1, <4>1, HoldsIn
    <3>5. Holds(queue, x[1], e)
      BY <3>1 DEF Holds
    <3>6. e # rthread
      BY <1>1, <2>3, <3>1, <3>4, <3>5, OnlyQueue
    <3> HIDE DEF q, e
    <3>7. Holds(q, own, rthread)
      BY <3>3, <3>4, <3>6 DEF Moved
    <3>8. QED
      BY <3>3, <3>7 DEF Moved, Holds
  <2> HIDE DEF q
  <2>8. op \in Priority /\ Ready(op) \in QueueNames
    <3>1. op \in Priority \cup {NO_PRIORITY}
      BY <1>5, <2>1 DEF IInv, TypeOK
    <3>2. QED
      BY <2>6, <3>1, QueueNameFacts
  <2>9. Ready(p) = Ready(op) /\ u = rthread
    BY <1>1, <1>5, <2>1, <2>4, <2>5, <2>6, <2>7, <2>8, MoveHeadToFrontOrder
  <2>10. p = op /\ priority[rthread] = p
    BY <1>3, <2>9, QueueNameFacts
  <2>11. priority[rthread] < op
    BY <1>5, <2>1, <2>6, RunningFacts DEF IInv, PromotionRemembered
  <2>12. QED
    BY <2>8, <2>10, <2>11 DEF Priority
<1>15. QED
  BY <1>4, <1>6, <1>7, <1>8, <1>9, <1>12, <1>13, <1>14
     DEF Next, SvcSchedule, SvcLockTaken, SvcSemaphoreTaken, vars

(* "FIFO queues of various priorities" (README.md), kept through blocking, *)
(* promotions, demotions and wake-ups of any number of threads.            *)
THEOREM ReadyQueuesAreFifo == Spec => NoOvertaking
<1>1. IInv /\ [Next]_vars =>
          [\A p \in Priority : \A t, u \in Threads :
              AheadIn(queue, Ready(p), t, u) /\ AheadIn(queue', Ready(p), u, t)
                  => t = rthread]_vars
  BY NextOrder
<1>2. QED
  BY <1>1, InductiveInvariant, PTL DEF Spec, NoOvertaking

(* Only an unlock takes a waiter's mptr away, and it takes the best one's. *)
LEMMA NextWaiter ==
    ASSUME IInv, [Next]_vars, NEW m \in Locks, NEW t \in Threads, NEW u \in Threads,
           Waits(t, m), Waits(u, m), Waits(t, m)', mptr'[u] = Null
    PROVE  priority[u] < priority[t] \/ AheadIn(queue, Mwait(priority[t]), u, t)
<1>1. mptr[t] = m /\ mptr[u] = m /\ mptr'[t] = m /\ m # Null
  BY ConstantFacts DEF Waits
<1>2. PICK b \in Priority : Holds(queue, Mwait(b), u)
  BY DEF Waits
<1>3. mptr' # mptr
  BY <1>1
<1>4. /\ Mwait(b) \in QueueNames /\ Mwait(b) # Free /\ Free \in QueueNames
      /\ Mwait(b) \notin SwaitQueues /\ SwaitQueues \subseteq QueueNames
      /\ OnePosition(queue, QueueNames) /\ queue \in [QueueNames -> Seq(Threads)]
  BY QueueNameFacts DEF IInv, TypeOK, ThreadsConserved, Mwait, Swait, SwaitQueues, QueueNames
<1>5. ASSUME NEW arg \in PriorityArgs, SvcAddThread(arg) PROVE FALSE
  <2>1. queue[Free] # <<>> /\ mptr' = [mptr EXCEPT ![Head(queue[Free])] = Null]
    BY <1>3, <1>5 DEF SvcAddThread, threadVars
  <2>2. u = Head(queue[Free])
    BY <1>1, <2>1 DEF IInv, TypeOK
  <2>3. Holds(queue, Free, u)
    BY <1>4, <2>1, <2>2, HoldsIn
  <2>4. QED
    BY <1>2, <1>4, <2>3, OnlyQueue
<1>6. ASSUME NEW s \in Semaphores, SvcSemaphoreV(s) PROVE FALSE
  <2>1. PICK x \in WaitPositions(SwaitQueues, s) : mptr' = [mptr EXCEPT ![EntryAt(queue, x)] = Null]
    BY <1>3, <1>6 DEF SvcSemaphoreV
  <2>2. u = EntryAt(queue, x)
    BY <1>1, <2>1 DEF IInv, TypeOK
  <2>3. x[1] \in SwaitQueues /\ Holds(queue, x[1], u)
    BY <2>2, PositionFacts DEF WaitPositions, Holds
  <2>4. QED
    BY <1>2, <1>4, <2>3, OnlyQueue
<1>7. ASSUME NEW n \in Locks, SvcUnlock(n)
      PROVE  priority[u] < priority[t] \/ AheadIn(queue, Mwait(priority[t]), u, t)
  <2>1. PICK w \in Threads : Woken(n, w)
    BY <1>3, <1>7, UnlockFacts
  <2>2. w = u
    BY <1>1, <2>1 DEF Woken, IInv, TypeOK
  <2>3. n = m /\ t # u
    BY <1>1, <2>1, <2>2 DEF Woken, Waits
  <2>4. QED
    BY <2>1, <2>2, <2>3 DEF Woken
<1>8. ASSUME NEW o \in Objects, mptr' = [mptr EXCEPT ![rthread] = o] PROVE FALSE
  <2>1. o # Null
    BY ConstantFacts
  <2>2. QED
    BY <1>1, <1>8, <2>1 DEF IInv, TypeOK
<1>9. /\ \A n \in Locks : SvcLockBlocked(n) => mptr' = [mptr EXCEPT ![rthread] = n] /\ n \in Objects
      /\ \A s \in Semaphores :
             SvcSemaphoreBlocked(s) => mptr' = [mptr EXCEPT ![rthread] = s] /\ s \in Objects
  BY ConstantFacts DEF SvcLockBlocked, SvcSemaphoreBlocked
<1>10. QED
  BY <1>3, <1>5, <1>6, <1>7, <1>8, <1>9
     DEF Next, SvcYield, SvcSchedule, Cleanup, SvcLockTaken, SvcSemaphoreTaken, vars, threadVars

(* find_mutex_wait_next (schedule.c) scans the levels from the best one:   *)
(* of any number of waiters an unlock wakes the best, and among equals the *)
(* first that came.                                                        *)
THEOREM BestWaiterIsWoken == Spec => BestWaiterFirst
<1>1. IInv /\ [Next]_vars =>
          [\A m \in Locks : \A t, u \in Threads :
              (Waits(t, m) /\ Waits(u, m) /\ Waits(t, m)' /\ mptr'[u] = Null)
                  => \/ priority[u] < priority[t]
                     \/ AheadIn(queue, Mwait(priority[t]), u, t)]_vars
  BY NextWaiter
<1>2. QED
  BY <1>1, InductiveInvariant, PTL DEF Spec, BestWaiterFirst
=============================================================================
