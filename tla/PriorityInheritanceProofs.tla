--------------------- MODULE PriorityInheritanceProofs ----------------------
(***************************************************************************)
(* Priority inheritance, for every number of threads, levels and locks:    *)
(* first who owns what, whatever the clients nest, then, for threads that  *)
(* hold one lock at a time, that an owner runs at least as well as those   *)
(* who wait for it, and that a promotion ends with the critical section.   *)
(***************************************************************************)
EXTENDS PriorityInheritance, SchedulerProofs

(* A lock word names one listed thread or none. *)
OnePid == \A t, u \in Threads : Listed(t) /\ Listed(u) /\ pid[t] = pid[u] => t = u
OwnersListed == \A m \in Locks : lockpid[m] # NULL_PID => \E t \in Threads : Owns(t, m)
Ownership == OnePid /\ OwnersListed

(* The thread that was woken for a free lock is as good as any that waits. *)
BestWoken ==
    \A m \in Locks : \A u \in Threads :
        lockpid[m] = NULL_PID /\ Waits(u, m)
            => \E t \in Threads : IsReady(t) /\ retry[t] = m /\ priority[t] <= priority[u]

(* Without nesting. *)
OneLock == \A t \in Threads : \A m, n \in Locks : Owns(t, m) /\ Owns(t, n) => m = n
WaitersOwnNone == \A t \in Threads : \A m \in Locks : Waits(t, m) => OwnsNone(t)
PromotedForSomebody ==
    \A t \in Threads : Listed(t) /\ old_priority[t] # NO_PRIORITY
        => \E m \in Locks : \E u \in Threads : Owns(t, m) /\ Waits(u, m)

DInv ==
    /\ IInv
    /\ Ownership
    /\ BestWoken
    /\ OneLock
    /\ WaitersOwnNone
    /\ OwnerInherits
    /\ PromotedForSomebody
-----------------------------------------------------------------------------
(***************************************************************************)
(* What the calls do to lists, waiters and owners.                         *)
(***************************************************************************)

(* No ready thread is better than the running one. *)
LEMMA NoneReadyIsBetter ==
    ASSUME IInv, Running, NEW t \in Threads, IsReady(t)
    PROVE  priority[rthread] <= priority[t]
<1> DEFINE p == priority[rthread]
<1>1. /\ rthread \in Threads /\ p \in Priority /\ Ready(p) \in QueueNames
      /\ Holds(queue, Ready(p), rthread)
  BY RunningFacts DEF IInv
<1>2. PICK b \in Priority : Holds(queue, Ready(b), t)
  BY DEF IsReady
<1>3. b = priority[t] /\ queue[Ready(b)] # <<>>
  BY <1>2 DEF IInv, QueueMatchesPriority, Holds
<1>4. PICK c \in Priority : /\ queue[Ready(c)] # <<>>
                            /\ \A a \in Priority : a < c => queue[Ready(a)] = <<>>
                            /\ rthread = Head(queue[Ready(c)])
  BY DEF IInv, RunningIsBest, IsNextThread, Running
<1>5. Holds(queue, Ready(c), rthread)
  BY <1>4, HoldsIn, QueueNameFacts DEF IInv, TypeOK
<1>6. c = p
  BY <1>1, <1>5 DEF IInv, QueueMatchesPriority
<1>7. QED
  BY <1>2, <1>3, <1>4, <1>6 DEF Priority

(* The running thread waits for nothing. *)
LEMMA RunningWaitsNot ==
    ASSUME IInv, Running
    PROVE  /\ rthread \in Threads /\ Listed(rthread) /\ priority[rthread] \in Priority
           /\ \A b \in Priority : ~ Holds(queue, Mwait(b), rthread)
           /\ \A m : ~ Waits(rthread, m)
BY RunningFacts, QueueNameFacts DEF IInv, Waits

(* The calls that are not about locks, but for the start of a thread and   *)
(* its return: nobody's lists, level or ownership changes.                 *)
Quiet ==
    \/ SvcYield \/ SvcSchedule
    \/ \E s \in Semaphores : SvcSemaphoreTaken(s) \/ SvcSemaphoreBlocked(s) \/ SvcSemaphoreV(s)

SameForLocks ==
    /\ UNCHANGED <<pid, lockpid, priority, old_priority>>
    /\ \A t \in Threads : Listed(t)' <=> Listed(t)
    /\ \A t \in Threads : \A m \in Locks : Waits(t, m)' <=> Waits(t, m)
    /\ \A t \in Threads : \A m \in Locks :
           IsReady(t) /\ retry[t] = m => IsReady(t)' /\ retry'[t] = m

LEMMA QuietFacts ==
    ASSUME IInv, Quiet
    PROVE  SameForLocks
<1> DEFINE p == priority[rthread]
<1>1. /\ queue \in [QueueNames -> Seq(Threads)] /\ OnePosition(queue, QueueNames)
      /\ Free \in QueueNames
  BY QueueNameFacts DEF IInv, TypeOK, ThreadsConserved
<1>2. ASSUME Running
      PROVE  /\ rthread \in Threads /\ p \in Priority /\ Ready(p) \in QueueNames
             /\ queue[Ready(p)] # <<>> /\ Head(queue[Ready(p)]) = rthread
             /\ Holds(queue, Ready(p), rthread) /\ Listed(rthread)
             /\ \A b \in Priority : ~ Holds(queue, Mwait(b), rthread)
             /\ \A a \in QueueNames : Holds(queue, a, rthread) => a = Ready(p)
  BY <1>2, RunningFacts, RunningWaitsNot DEF IInv
<1>3. CASE SvcYield
  <2>1. Moved(queue, queue', QueueNames, Threads, rthread, Ready(p))
    BY <1>1, <1>2, <1>3, MoveHeadFacts DEF SvcYield, Fresh
  <2>2. \A a \in QueueNames : \A t : Holds(queue', a, t) <=> Holds(queue, a, t)
    BY <1>2, <1>3, <2>1 DEF Moved, SvcYield, Fresh
  <2>3. \A t : /\ Holds(queue', Free, t) <=> Holds(queue, Free, t)
               /\ \A b \in Priority : /\ Holds(queue', Mwait(b), t) <=> Holds(queue, Mwait(b), t)
                                      /\ Holds(queue', Ready(b), t) <=> Holds(queue, Ready(b), t)
    BY <2>2, QueueNameFacts
  <2>4. QED
    BY <1>3, <2>3 DEF SvcYield, threadVars, SameForLocks, Listed, Waits, IsReady
<1>4. CASE SvcSchedule
  BY <1>4 DEF SvcSchedule, threadVars, SameForLocks, Listed, Waits, IsReady
<1>5. ASSUME NEW s \in Semaphores, SvcSemaphoreTaken(s) PROVE SameForLocks
  <2>1. /\ UNCHANGED <<queue, pid, lockpid, priority, old_priority, mptr>>
        /\ retry' = [retry EXCEPT ![rthread] = Null] /\ retry[rthread] \in {Null, s}
    BY <1>5 DEF SvcSemaphoreTaken, AtCall
  <2>2. s \notin Locks /\ Null \notin Locks
    BY ConstantFacts
  <2>3. \A t \in Threads : retry[t] \in Locks => retry'[t] = retry[t]
    BY <2>1, <2>2 DEF IInv, TypeOK
  <2>4. QED
    BY <2>1, <2>3 DEF SameForLocks, Listed, Waits, IsReady
<1>6. ASSUME NEW s \in Semaphores, SvcSemaphoreBlocked(s) PROVE SameForLocks
  <2>1. /\ UNCHANGED <<pid, lockpid, priority, old_priority>> /\ Running
        /\ mptr' = [mptr EXCEPT ![rthread] = s] /\ retry' = [retry EXCEPT ![rthread] = s]
        /\ retry[rthread] \in {Null, s}
        /\ queue' = MoveHead(queue, Ready(p), Swait(p))
    BY <1>6 DEF SvcSemaphoreBlocked, AtCall
  <2>2. Swait(p) \in QueueNames
    BY <1>2, <2>1, QueueNameFacts
  <2>3. Moved(queue, queue', QueueNames, Threads, rthread, Swait(p))
    <3> HIDE DEF p
    <3>1. /\ Ready(p) \in QueueNames /\ queue[Ready(p)] # <<>> /\ Head(queue[Ready(p)]) = rthread
          /\ queue' = MoveHead(queue, Ready(p), Swait(p))
      BY <1>2, <2>1
    <3>2. QED
      BY <1>1, <2>2, <3>1, MoveHeadFacts
  <2>4. /\ Free # Swait(p)
        /\ \A b \in Priority : /\ Mwait(b) \in QueueNames /\ Mwait(b) # Swait(p)
                               /\ Ready(b) \in QueueNames /\ Ready(b) # Swait(p)
    BY <1>2, <2>1, QueueNameFacts
  <2>5. \A t : /\ t # rthread =>
                     /\ Holds(queue', Free, t) <=> Holds(queue, Free, t)
                     /\ \A b \in Priority : /\ Holds(queue', Mwait(b), t) <=> Holds(queue, Mwait(b), t)
                                            /\ Holds(queue', Ready(b), t) <=> Holds(queue, Ready(b), t)
               /\ t = rthread => /\ ~ Holds(queue', Free, t)
                                 /\ \A b \in Priority : ~ Holds(queue', Mwait(b), t)
    BY <1>1, <2>3, <2>4 DEF Moved
  <2>6. s \notin Locks /\ Null \notin Locks
    BY ConstantFacts
  <2>7. \A t \in Threads : t # rthread => mptr'[t] = mptr[t] /\ retry'[t] = retry[t]
    BY <2>1 DEF IInv, TypeOK
  <2>8. \A t \in Threads : Listed(t)' <=> Listed(t)
    BY <1>2, <2>1, <2>5 DEF Listed
  <2>9. \A t \in Threads : \A m \in Locks : Waits(t, m)' <=> Waits(t, m)
    BY <1>2, <2>1, <2>5, <2>7 DEF Waits
  <2>10. \A t \in Threads : retry[t] \in Locks => t # rthread
    BY <2>1, <2>6
  <2>11. QED
    BY <2>1, <2>5, <2>7, <2>8, <2>9, <2>10 DEF SameForLocks, IsReady
<1>7. ASSUME NEW s \in Semaphores, SvcSemaphoreV(s), queue' # queue PROVE SameForLocks
  <2>1. PICK x \in WaitPositions(SwaitQueues, s) :
            /\ mptr' = [mptr EXCEPT ![EntryAt(queue, x)] = Null]
            /\ queue' = MoveFrom(queue, x, Ready(priority[EntryAt(queue, x)]))
            /\ UNCHANGED <<pid, priority, old_priority, retry, lockpid>>
    BY <1>7 DEF SvcSemaphoreV
  <2>2. /\ x = <<x[1], x[2]>> /\ x[1] \in SwaitQueues /\ x[2] \in DOMAIN queue[x[1]]
        /\ EntryAt(queue, x) = queue[x[1]][x[2]]
    BY PositionFacts DEF WaitPositions
  <2>3. PICK a \in SwaitQueues : \E i \in DOMAIN queue[a] :
            /\ mptr' = [mptr EXCEPT ![queue[a][i]] = Null]
            /\ queue' = MoveFrom(queue, <<a, i>>, Ready(priority[queue[a][i]]))
    BY <2>1, <2>2
  <2>4. PICK i \in DOMAIN queue[a] :
            /\ mptr' = [mptr EXCEPT ![queue[a][i]] = Null]
            /\ queue' = MoveFrom(queue, <<a, i>>, Ready(priority[queue[a][i]]))
    BY <2>3
  <2> DEFINE t == queue[a][i]
  <2>5. a \in QueueNames /\ t \in Threads /\ Holds(queue, a, t) /\ priority[t] \in Priority
    <3>1. a \in QueueNames
      BY DEF QueueNames
    <3>2. QED
      BY <1>1, <3>1, HoldsIn DEF Holds, IInv, TypeOK
  <2>6. Ready(priority[t]) \in QueueNames
    BY <2>5, QueueNameFacts
  <2>7. Moved(queue, queue', QueueNames, Threads, t, Ready(priority[t]))
    BY <1>1, <2>4, <2>5, <2>6, MoveFromFacts
  <2>8. a # Free /\ \A b \in Priority : Mwait(b) \in QueueNames /\ a # Mwait(b)
    BY QueueNameFacts DEF SwaitQueues
  <2>9. mptr' = [mptr EXCEPT ![t] = Null]
    BY <2>4
  <2> HIDE DEF t
  <2>10. ~ Holds(queue, Free, t) /\ \A b \in Priority : ~ Holds(queue, Mwait(b), t)
    BY <1>1, <2>5, <2>8, OnlyQueue
  <2>11. /\ \A b \in Priority : \A u :
                /\ Holds(queue', Ready(b), u) <=>
                       IF u = t THEN b = priority[t] ELSE Holds(queue, Ready(b), u)
                /\ Holds(queue', Mwait(b), u) <=> u # t /\ Holds(queue, Mwait(b), u)
         /\ \A u : Holds(queue', Free, u) <=> u # t /\ Holds(queue, Free, u)
    BY <2>5, <2>7, MovedToReady
  <2>12. \A u \in Threads : Listed(u)' <=> Listed(u)
    BY <2>10, <2>11 DEF Listed
  <2>13. \A u \in Threads : \A m \in Locks : Waits(u, m)' <=> Waits(u, m)
    BY <2>9, <2>10, <2>11 DEF Waits, IInv, TypeOK
  <2>14. \A u \in Threads : IsReady(u) => IsReady(u)'
    BY <2>5, <2>11 DEF IsReady
  <2>15. QED
    BY <2>1, <2>12, <2>13, <2>14 DEF SameForLocks
<1>8. ASSUME NEW s \in Semaphores, SvcSemaphoreV(s), queue' = queue PROVE SameForLocks
  <2>1. CASE UNCHANGED mptr
    BY <1>8, <2>1 DEF SvcSemaphoreV, SameForLocks, Listed, Waits, IsReady
  <2>2. CASE mptr' # mptr
    <3>1. PICK x \in WaitPositions(SwaitQueues, s) :
              /\ mptr' = [mptr EXCEPT ![EntryAt(queue, x)] = Null]
              /\ UNCHANGED <<pid, priority, old_priority, retry, lockpid>>
      BY <1>8, <2>2 DEF SvcSemaphoreV
    <3>2. /\ x[1] \in SwaitQueues /\ Holds(queue, x[1], EntryAt(queue, x))
      BY PositionFacts DEF WaitPositions, Holds
    <3>3. \A b \in Priority : ~ Holds(queue, Mwait(b), EntryAt(queue, x))
      <4>1. x[1] \in QueueNames /\ \A b \in Priority : Mwait(b) \in QueueNames /\ x[1] # Mwait(b)
        BY <3>2, QueueNameFacts DEF SwaitQueues, QueueNames
      <4>2. QED
        BY <1>1, <3>2, <4>1, OnlyQueue
    <3>4. \A u \in Threads : \A m \in Locks : Waits(u, m)' <=> Waits(u, m)
      BY <1>8, <3>1, <3>3 DEF Waits, IInv, TypeOK
    <3>5. QED
      BY <1>8, <3>1, <3>4 DEF SameForLocks, Listed, IsReady
  <2>3. QED
    BY <2>1, <2>2
<1>9. QED
  BY <1>3, <1>4, <1>5, <1>6, <1>7, <1>8 DEF Quiet

LEMMA CleanupFacts ==
    ASSUME IInv, Cleanup
    PROVE  /\ Running /\ retry[rthread] = Null
           /\ UNCHANGED <<pid, lockpid, priority, old_priority, retry>>
           /\ \A t \in Threads : Listed(t)' <=> Listed(t) /\ t # rthread
           /\ \A t \in Threads : \A m : Waits(t, m)' <=> Waits(t, m)
           /\ \A t \in Threads : IsReady(t) /\ t # rthread => IsReady(t)'
<1> DEFINE own == Ready(priority[rthread])
<1>1. Running /\ retry[rthread] = Null /\ queue' = MoveHead(queue, own, Free)
  BY DEF Cleanup, Fresh
<1>2. /\ rthread \in Threads /\ own \in QueueNames /\ queue[own] # <<>>
      /\ Head(queue[own]) = rthread /\ Free \in QueueNames
  BY <1>1, RunningFacts, QueueNameFacts DEF IInv
<1>3. Moved(queue, queue', QueueNames, Threads, rthread, Free)
  BY <1>1, <1>2, MoveHeadFacts DEF IInv, TypeOK, ThreadsConserved
<1>4. /\ \A t : Holds(queue', Free, t) <=> t = rthread \/ Holds(queue, Free, t)
      /\ \A b \in Priority : \A t :
            /\ Holds(queue', Ready(b), t) <=> t # rthread /\ Holds(queue, Ready(b), t)
            /\ Holds(queue', Mwait(b), t) <=> t # rthread /\ Holds(queue, Mwait(b), t)
  BY <1>3, QueueNameFacts DEF Moved
<1>5. \A b \in Priority : ~ Holds(queue, Mwait(b), rthread)
  BY <1>1, RunningWaitsNot
<1>6. QED
  BY <1>1, <1>4, <1>5 DEF Cleanup, threadVars, Listed, Waits, IsReady

(* A start finds the pool empty, or lists one thread with the next pid.    *)
LEMMA AddThreadFacts ==
    ASSUME IInv, NEW arg \in PriorityArgs, SvcAddThread(arg)
    PROVE  \/ UNCHANGED <<queue, threadVars, nextpid, lockpid>>
           \/ /\ UNCHANGED lockpid
              /\ \E h \in Threads :
                    /\ ~ Listed(h) /\ pid' = [pid EXCEPT ![h] = nextpid]
                    /\ old_priority'[h] = NO_PRIORITY
                    /\ \A t \in Threads : Listed(t)' <=> t = h \/ Listed(t)
                    /\ \A t \in Threads : \A m \in Locks : Waits(t, m)' <=> Waits(t, m)
                    /\ \A t \in Threads \ {h} :
                          /\ priority'[t] = priority[t] /\ old_priority'[t] = old_priority[t]
                          /\ retry'[t] = retry[t] /\ (IsReady(t) => IsReady(t)')
                    /\ ~ IsReady(h) /\ \A m : ~ Waits(h, m)
<1>1. CASE queue[Free] = <<>>
  BY <1>1 DEF SvcAddThread
<1>2. CASE queue[Free] # <<>>
  <2> DEFINE h == Head(queue[Free])
             p == CappedPriority(arg)
  <2>1. /\ mptr' = [mptr EXCEPT ![h] = Null] /\ retry' = [retry EXCEPT ![h] = Null]
        /\ pid' = [pid EXCEPT ![h] = nextpid] /\ priority' = [priority EXCEPT ![h] = p]
        /\ old_priority' = [old_priority EXCEPT ![h] = NO_PRIORITY]
        /\ queue' = MoveHead(queue, Free, Ready(p)) /\ UNCHANGED lockpid
    BY <1>2 DEF SvcAddThread
  <2>2. p \in Priority
    BY PrioritiesAssumption, PriorityArgsAssumption DEF Priority, CappedPriority
  <2> HIDE DEF p
  <2>3. /\ queue \in [QueueNames -> Seq(Threads)] /\ OnePosition(queue, QueueNames)
        /\ Free \in QueueNames /\ Ready(p) \in QueueNames
    BY <2>2, QueueNameFacts DEF IInv, TypeOK, ThreadsConserved
  <2>4. /\ Moved(queue, queue', QueueNames, Threads, h, Ready(p))
        /\ h \in Threads /\ Holds(queue, Free, h)
    BY <1>2, <2>1, <2>3, MoveHeadFacts
  <2> HIDE DEF h
  <2>5. /\ \A b \in Priority : \A u :
               /\ Holds(queue', Ready(b), u) <=> IF u = h THEN b = p ELSE Holds(queue, Ready(b), u)
               /\ Holds(queue', Mwait(b), u) <=> u # h /\ Holds(queue, Mwait(b), u)
        /\ \A u : Holds(queue', Free, u) <=> u # h /\ Holds(queue, Free, u)
    BY <2>2, <2>4, MovedToReady
  <2>6. \A b \in Priority : ~ Holds(queue, Ready(b), h) /\ ~ Holds(queue, Mwait(b), h)
    <3>1. \A b \in Priority : /\ Ready(b) \in QueueNames /\ Ready(b) # Free
                              /\ Mwait(b) \in QueueNames /\ Mwait(b) # Free
      BY QueueNameFacts
    <3>2. QED
      BY <2>3, <2>4, <3>1, OnlyQueue
  <2>7. /\ ~ Listed(h) /\ ~ IsReady(h) /\ \A m : ~ Waits(h, m)
        /\ \A t \in Threads : Listed(t)' <=> t = h \/ Listed(t)
    BY <2>4, <2>5, <2>6 DEF Listed, IsReady, Waits
  <2>8. \A t \in Threads : \A m \in Locks : Waits(t, m)' <=> Waits(t, m)
    BY <2>1, <2>5, <2>6 DEF Waits, IInv, TypeOK
  <2>9. old_priority'[h] = NO_PRIORITY
    BY <2>1, <2>4 DEF IInv, TypeOK
  <2>10. \A t \in Threads \ {h} :
             /\ priority'[t] = priority[t] /\ old_priority'[t] = old_priority[t]
             /\ retry'[t] = retry[t] /\ (IsReady(t) => IsReady(t)')
    BY <2>1, <2>5 DEF IsReady, IInv, TypeOK
  <2>11. QED
    BY <2>1, <2>4, <2>7, <2>8, <2>9, <2>10
<1>3. QED
  BY <1>1, <1>2
-----------------------------------------------------------------------------
(***************************************************************************)
(* Ownership: a lock word holds the pid of exactly one listed thread.      *)
(***************************************************************************)
LEMMA InitOwnership == Init => Ownership
<1> SUFFICES ASSUME Init PROVE Ownership
  OBVIOUS
<1>1. \A m \in Locks : lockpid[m] = NULL_PID
  BY DEF Init
<1>2. ASSUME NEW t \in Threads, Listed(t) PROVE t = 0
  <2>1. queue[Free] = [i \in 1 .. MAX_THREADS - 1 |-> i]
    BY ConstantFacts, QueueNameFacts DEF Init
  <2>2. t # 0 => t \in 1 .. MAX_THREADS - 1
    BY ThreadsAssumption DEF Threads
  <2>3. t # 0 => Holds(queue, Free, t)
    BY <2>1, <2>2 DEF Holds
  <2>4. QED
    BY <1>2, <2>3 DEF Listed
<1>3. QED
  BY <1>1, <1>2 DEF Ownership, OnePid, OwnersListed

(* The calls that neither list nor unlist a thread nor touch a lock word. *)
LEMMA SameOwners ==
    ASSUME Ownership, UNCHANGED <<pid, lockpid>>,
           \A t \in Threads : Listed(t)' <=> Listed(t)
    PROVE  /\ Ownership'
           /\ \A t \in Threads : \A m \in Locks : Owns(t, m)' <=> Owns(t, m)
<1>1. \A t \in Threads : \A m \in Locks : Owns(t, m)' <=> Owns(t, m)
  BY DEF Owns
<1>2. OnePid'
  BY DEF Ownership, OnePid
<1>3. OwnersListed'
  BY <1>1 DEF Ownership, OwnersListed
<1>4. QED
  BY <1>1, <1>2, <1>3 DEF Ownership

LEMMA TakenOwners ==
    ASSUME IInv, Ownership, NEW n \in Locks, SvcLockTaken(n)
    PROVE  /\ Ownership'
           /\ \A t \in Threads : Listed(t)' <=> Listed(t)
           /\ \A t \in Threads : \A m \in Locks :
                  Owns(t, m)' <=> Owns(t, m) \/ (t = rthread /\ m = n)
           /\ \A t \in Threads : ~ Owns(t, n)
<1>1. /\ Running /\ lockpid[n] = NULL_PID /\ lockpid' = [lockpid EXCEPT ![n] = pid[rthread]]
      /\ UNCHANGED <<queue, pid>>
  BY DEF SvcLockTaken, AtCall
<1>2. rthread \in Threads /\ Listed(rthread) /\ pid[rthread] # NULL_PID
  BY <1>1, RunningWaitsNot, ConstantFacts DEF IInv, ListedPids
<1>3. \A t \in Threads : Listed(t)' <=> Listed(t)
  BY <1>1 DEF Listed
<1>4. \A m \in Locks : lockpid'[m] = IF m = n THEN pid[rthread] ELSE lockpid[m]
  BY <1>1 DEF IInv, TypeOK
<1>5. \A t \in Threads : \A m \in Locks :
          Owns(t, m)' <=> Owns(t, m) \/ (t = rthread /\ m = n)
  BY <1>1, <1>2, <1>3, <1>4 DEF Owns, Ownership, OnePid
<1>6. OnePid'
  BY <1>1, <1>3 DEF Ownership, OnePid
<1>7. OwnersListed'
  BY <1>2, <1>4, <1>5 DEF Ownership, OwnersListed
<1>8. QED
  BY <1>1, <1>3, <1>5, <1>6, <1>7 DEF Ownership, Owns

LEMMA BlockedOwners ==
    ASSUME IInv, Ownership, NEW n \in Locks, SvcLockBlocked(n)
    PROVE  /\ Ownership'
           /\ \A t \in Threads : Listed(t)' <=> Listed(t)
           /\ \A t \in Threads : \A m \in Locks : Owns(t, m)' <=> Owns(t, m)
<1>1. UNCHANGED <<pid, lockpid>>
  BY DEF SvcLockBlocked
<1>2. \A t \in Threads : Listed(t)' <=> Listed(t)
  BY LockBlockedFacts DEF Blocked
<1>3. QED
  BY <1>1, <1>2, SameOwners

LEMMA UnlockOwners ==
    ASSUME IInv, Ownership, NEW n \in Locks, SvcUnlock(n)
    PROVE  /\ Ownership'
           /\ \A t \in Threads : Listed(t)' <=> Listed(t)
           /\ \A t \in Threads : \A m \in Locks : Owns(t, m)' <=> Owns(t, m) /\ m # n
<1>1. lockpid' = [lockpid EXCEPT ![n] = NULL_PID] /\ UNCHANGED pid
  BY DEF SvcUnlock
<1>2. \A t \in Threads : Listed(t)' <=> Listed(t)
  BY UnlockFacts DEF Woken, Listed
<1>3. \A m \in Locks : lockpid'[m] = IF m = n THEN NULL_PID ELSE lockpid[m]
  BY <1>1 DEF IInv, TypeOK
<1>4. \A t \in Threads : \A m \in Locks : Owns(t, m)' <=> Owns(t, m) /\ m # n
  BY <1>1, <1>2, <1>3 DEF Owns
<1>5. OnePid'
  BY <1>1, <1>2 DEF Ownership, OnePid
<1>6. OwnersListed'
  BY <1>3, <1>4 DEF Ownership, OwnersListed
<1>7. QED
  BY <1>2, <1>4, <1>5, <1>6 DEF Ownership

LEMMA CleanupOwners ==
    ASSUME IInv, Ownership, OwnsNone(rthread), Cleanup
    PROVE  /\ Ownership'
           /\ \A t \in Threads : \A m \in Locks : Owns(t, m)' <=> Owns(t, m)
<1>1. /\ UNCHANGED <<pid, lockpid>>
      /\ \A t \in Threads : Listed(t)' <=> Listed(t) /\ t # rthread
  BY CleanupFacts
<1>2. \A t \in Threads : \A m \in Locks : Owns(t, m)' <=> Owns(t, m)
  BY <1>1 DEF Owns, OwnsNone
<1>3. OnePid'
  BY <1>1 DEF Ownership, OnePid
<1>4. OwnersListed'
  BY <1>1, <1>2 DEF Ownership, OwnersListed
<1>5. QED
  BY <1>2, <1>3, <1>4 DEF Ownership

LEMMA AddThreadOwners ==
    ASSUME IInv, Ownership, PidIsFresh, NEW arg \in PriorityArgs, SvcAddThread(arg)
    PROVE  /\ Ownership'
           /\ \A t \in Threads : Listed(t) => Listed(t)'
           /\ \A t \in Threads : \A m \in Locks : Owns(t, m)' <=> Owns(t, m)
<1>1. CASE UNCHANGED <<queue, threadVars, nextpid, lockpid>>
  BY <1>1, SameOwners DEF Listed, threadVars
<1>2. ASSUME NEW h \in Threads, UNCHANGED lockpid,
             ~ Listed(h), pid' = [pid EXCEPT ![h] = nextpid],
             \A t \in Threads : Listed(t)' <=> t = h \/ Listed(t)
      PROVE  /\ Ownership'
             /\ \A t \in Threads : Listed(t) => Listed(t)'
             /\ \A t \in Threads : \A m \in Locks : Owns(t, m)' <=> Owns(t, m)
  <2>1. \A t \in Threads : pid'[t] = IF t = h THEN nextpid ELSE pid[t]
    BY <1>2 DEF IInv, TypeOK
  <2>2. \A m \in Locks : lockpid[m] # nextpid
    BY ConstantFacts DEF IInv, TypeOK, Ownership, OwnersListed, PidIsFresh, Owns
  <2>3. \A t \in Threads : \A m \in Locks : Owns(t, m)' <=> Owns(t, m)
    BY <1>2, <2>1, <2>2 DEF Owns
  <2>4. OnePid'
    BY <1>2, <2>1 DEF Ownership, OnePid, PidIsFresh
  <2>5. OwnersListed'
    BY <1>2, <2>3 DEF Ownership, OwnersListed
  <2>6. QED
    BY <1>2, <2>3, <2>4, <2>5 DEF Ownership
<1>3. QED
  BY <1>1, <1>2, AddThreadFacts
-----------------------------------------------------------------------------
(***************************************************************************)
(* Without nesting, every disciplined step preserves DInv.                 *)
(***************************************************************************)
LEMMA InitDInv == Init => DInv
<1> SUFFICES ASSUME Init PROVE DInv
  OBVIOUS
<1>1. IInv /\ Ownership
  BY InitIInv, InitOwnership
<1>2. \A t \in Threads : OwnsNone(t) /\ \A m \in Locks : ~ Waits(t, m)
  BY ConstantFacts DEF Init, OwnsNone, Owns, Waits
<1>3. BestWoken /\ OneLock /\ WaitersOwnNone /\ OwnerInherits
  BY <1>2 DEF BestWoken, OneLock, WaitersOwnNone, OwnerInherits, OwnsNone
<1>4. PromotedForSomebody
  <2>1. queue[Free] = [i \in 1 .. MAX_THREADS - 1 |-> i]
    BY ConstantFacts, QueueNameFacts DEF Init
  <2>2. \A t \in Threads : t # 0 => t \in 1 .. MAX_THREADS - 1
    BY ThreadsAssumption DEF Threads
  <2>3. \A t \in Threads : t # 0 => ~ Listed(t)
    BY <2>1, <2>2 DEF Listed, Holds
  <2>4. old_priority[0] = NO_PRIORITY
    BY ConstantFacts DEF Init
  <2>5. QED
    BY <2>3, <2>4 DEF PromotedForSomebody
<1>5. QED
  BY <1>1, <1>3, <1>4 DEF DInv

LEMMA SameForLocksKeepsDInv ==
    ASSUME DInv, IInv', SameForLocks
    PROVE  DInv'
<1>1. /\ Ownership'
      /\ \A t \in Threads : \A m \in Locks : Owns(t, m)' <=> Owns(t, m)
  BY SameOwners DEF SameForLocks, DInv
<1>2. BestWoken'
  <2> SUFFICES ASSUME NEW m \in Locks, NEW u \in Threads, lockpid'[m] = NULL_PID, Waits(u, m)'
               PROVE  \E t \in Threads : IsReady(t)' /\ retry'[t] = m /\ priority'[t] <= priority'[u]
    BY DEF BestWoken
  <2>1. lockpid[m] = NULL_PID /\ Waits(u, m) /\ priority' = priority
    BY DEF SameForLocks
  <2>2. PICK t \in Threads : IsReady(t) /\ retry[t] = m /\ priority[t] <= priority[u]
    BY <2>1 DEF DInv, BestWoken
  <2>3. QED
    BY <2>1, <2>2 DEF SameForLocks
<1>3. OneLock' /\ WaitersOwnNone' /\ OwnerInherits' /\ PromotedForSomebody'
  <2>1. OneLock' /\ WaitersOwnNone'
    BY <1>1 DEF SameForLocks, DInv, OneLock, WaitersOwnNone, OwnsNone
  <2>2. OwnerInherits'
    BY <1>1 DEF SameForLocks, DInv, OwnerInherits
  <2>3. PromotedForSomebody'
    BY <1>1 DEF SameForLocks, DInv, PromotedForSomebody
  <2>4. QED
    BY <2>1, <2>2, <2>3
<1>4. QED
  BY <1>1, <1>2, <1>3 DEF DInv

(* The new owner is the running thread, and none ready is better: neither  *)
(* is the woken one, which is as good as the waiters.                      *)
LEMMA TakenKeepsDInv ==
    ASSUME DInv, IInv', NEW n \in Locks, SvcLockTaken(n), OwnsNone(rthread)
    PROVE  DInv'
<1>1. /\ Running /\ lockpid[n] = NULL_PID /\ lockpid' = [lockpid EXCEPT ![n] = pid[rthread]]
      /\ retry[rthread] \in {Null, n} /\ retry' = [retry EXCEPT ![rthread] = Null]
      /\ UNCHANGED <<queue, mptr, priority, old_priority>>
  BY DEF SvcLockTaken, AtCall
<1>2. /\ Ownership'
      /\ \A t \in Threads : Listed(t)' <=> Listed(t)
      /\ \A t \in Threads : \A m \in Locks :
             Owns(t, m)' <=> Owns(t, m) \/ (t = rthread /\ m = n)
      /\ \A t \in Threads : ~ Owns(t, n)
  BY TakenOwners DEF DInv
<1>3. rthread \in Threads /\ \A m \in Locks : ~ Waits(rthread, m)
  BY <1>1, RunningWaitsNot DEF DInv
<1>4. \A t \in Threads : \A m \in Locks : Waits(t, m)' <=> Waits(t, m)
  BY <1>1 DEF Waits
<1>5. BestWoken'
  <2> SUFFICES ASSUME NEW m \in Locks, NEW u \in Threads, lockpid'[m] = NULL_PID, Waits(u, m)'
               PROVE  \E t \in Threads : IsReady(t)' /\ retry'[t] = m /\ priority'[t] <= priority'[u]
    BY DEF BestWoken
  <2>1. \E t \in Threads : Owns(t, n)'
    BY <1>2, <1>3
  <2>2. m # n
    BY <2>1 DEF Owns
  <2>3. lockpid[m] = NULL_PID /\ Waits(u, m)
    BY <1>1, <1>4, <2>2 DEF DInv, IInv, TypeOK
  <2>4. PICK t \in Threads : IsReady(t) /\ retry[t] = m /\ priority[t] <= priority[u]
    BY <2>3 DEF DInv, BestWoken
  <2>5. t # rthread /\ retry'[t] = m
    BY <1>1, <2>2, <2>4, ConstantFacts DEF DInv, IInv, TypeOK
  <2>6. QED
    BY <1>1, <2>4, <2>5 DEF IsReady
<1>6. OneLock' /\ WaitersOwnNone'
  BY <1>2, <1>3, <1>4 DEF DInv, OneLock, WaitersOwnNone, OwnsNone
<1>7. OwnerInherits'
  <2> SUFFICES ASSUME NEW m \in Locks, NEW t \in Threads, NEW u \in Threads,
                      Owns(t, m)', Waits(u, m)'
               PROVE  priority[t] <= priority[u]
    BY <1>1 DEF OwnerInherits
  <2>1. CASE Owns(t, m)
    BY <1>4, <2>1 DEF DInv, OwnerInherits
  <2>2. CASE t = rthread /\ m = n
    <3>1. PICK w \in Threads : IsReady(w) /\ retry[w] = n /\ priority[w] <= priority[u]
      BY <1>1, <1>4, <2>2 DEF DInv, BestWoken
    <3>2. priority[rthread] <= priority[w]
      BY <1>1, <3>1, NoneReadyIsBetter DEF DInv
    <3>3. priority[u] \in Nat /\ priority[w] \in Nat /\ priority[t] \in Nat
      BY DEF DInv, IInv, TypeOK, Priority
    <3>4. QED
      BY <2>2, <3>1, <3>2, <3>3
  <2>3. QED
    BY <1>2, <2>1, <2>2
<1>8. PromotedForSomebody'
  BY <1>1, <1>2, <1>4 DEF DInv, PromotedForSomebody
<1>9. QED
  BY <1>2, <1>5, <1>6, <1>7, <1>8 DEF DInv

(* The caller becomes a waiter, and the owner, which waits for no lock, is *)
(* promoted over it.                                                       *)
LEMMA BlockedKeepsDInv ==
    ASSUME DInv, IInv', NEW n \in Locks, SvcLockBlocked(n), OwnsNone(rthread)
    PROVE  DInv'
<1> DEFINE p == priority[rthread]
<1>1. /\ Running /\ lockpid[n] # NULL_PID /\ retry[rthread] \in {Null, n}
      /\ mptr' = [mptr EXCEPT ![rthread] = n] /\ retry' = [retry EXCEPT ![rthread] = n]
      /\ UNCHANGED <<pid, lockpid>>
  BY DEF SvcLockBlocked, AtCall
<1>2. PICK P \in SUBSET (Threads \ {rthread}) : Blocked(n, P)
  BY LockBlockedFacts DEF DInv
<1>3. /\ Ownership'
      /\ \A t \in Threads : Listed(t)' <=> Listed(t)
      /\ \A t \in Threads : \A m \in Locks : Owns(t, m)' <=> Owns(t, m)
  BY BlockedOwners DEF DInv
<1>4. /\ rthread \in Threads /\ p \in Priority
      /\ \A m \in Locks : ~ Waits(rthread, m)
  BY <1>1, RunningWaitsNot DEF DInv
<1>5. \A u \in P : Owns(u, n) /\ u # rthread
  BY <1>1, <1>2 DEF Blocked, Owns
<1>6. \A u \in P : \A b \in Priority : ~ Holds(queue, Mwait(b), u)
  BY <1>5 DEF DInv, IInv, WaitersRetry, Waits, WaitersOwnNone, OwnsNone
<1>7. \A u \in Threads : u # rthread => mptr'[u] = mptr[u] /\ retry'[u] = retry[u]
  BY <1>1 DEF DInv, IInv, TypeOK
<1>8. mptr'[rthread] = n
  BY <1>1, <1>4 DEF DInv, IInv, TypeOK
<1>9. \A u \in Threads : \A m \in Locks :
          Waits(u, m)' <=> IF u = rthread THEN m = n ELSE Waits(u, m)
  <2>1. \A b \in Priority : \A u \in Threads :
            Holds(queue', Mwait(b), u) <=> IF u = rthread THEN b = p ELSE Holds(queue, Mwait(b), u)
    BY <1>2, <1>6 DEF Blocked
  <2>2. QED
    BY <1>4, <1>7, <1>8, <2>1 DEF Waits
<1>10. /\ \A u \in Threads : priority'[u] <= priority[u]
       /\ \A u \in Threads : \A m \in Locks : Waits(u, m) => priority'[u] = priority[u]
       /\ priority'[rthread] = p
  <2>1. \A u \in Threads : priority[u] \in Nat /\ priority[u] <= priority[u] /\ p \in Nat
    BY <1>4 DEF DInv, IInv, TypeOK, Priority
  <2>2. \A u \in Threads : priority'[u] <= priority[u]
    BY <1>2, <2>1 DEF Blocked
  <2>3. \A u \in Threads : \A m \in Locks : Waits(u, m) => u \notin P
    BY <1>6 DEF Waits
  <2>4. QED
    BY <1>2, <1>4, <2>2, <2>3 DEF Blocked
<1>11. \A t \in Threads : Owns(t, n) => priority'[t] <= p
  BY <1>2 DEF Blocked, Owns, DInv, Ownership, OnePid
<1>12. BestWoken'
  <2> SUFFICES ASSUME NEW m \in Locks, NEW u \in Threads, lockpid'[m] = NULL_PID, Waits(u, m)'
               PROVE  \E t \in Threads : IsReady(t)' /\ retry'[t] = m /\ priority'[t] <= priority'[u]
    BY DEF BestWoken
  <2>1. lockpid[m] = NULL_PID /\ m # n /\ Waits(u, m)
    BY <1>1, <1>9
  <2>2. PICK t \in Threads : IsReady(t) /\ retry[t] = m /\ priority[t] <= priority[u]
    BY <2>1 DEF DInv, BestWoken
  <2>3. t # rthread /\ retry'[t] = m
    BY <1>1, <1>7, <2>1, <2>2, ConstantFacts
  <2>4. IsReady(t)'
    BY <1>2, <1>4, <2>2, <2>3 DEF Blocked, IsReady
  <2>5. priority'[t] <= priority'[u]
    <3>1. priority'[t] \in Nat /\ priority[t] \in Nat /\ priority[u] \in Nat
      BY <1>2 DEF Blocked, DInv, IInv, TypeOK, Priority
    <3>2. QED
      BY <1>10, <2>1, <2>2, <3>1
  <2>6. QED
    BY <2>3, <2>4, <2>5
<1>13. OneLock' /\ WaitersOwnNone'
  BY <1>3, <1>9 DEF DInv, OneLock, WaitersOwnNone, OwnsNone
<1>14. OwnerInherits'
  <2> SUFFICES ASSUME NEW m \in Locks, NEW t \in Threads, NEW u \in Threads,
                      Owns(t, m), Waits(u, m)'
               PROVE  priority'[t] <= priority'[u]
    BY <1>3 DEF OwnerInherits
  <2>1. CASE u = rthread
    BY <1>9, <1>10, <1>11, <2>1
  <2>2. CASE u # rthread
    <3>1. Waits(u, m) /\ priority[t] <= priority[u]
      BY <1>9, <2>2 DEF DInv, OwnerInherits
    <3>2. priority'[t] \in Nat /\ priority[t] \in Nat /\ priority[u] \in Nat
      BY <1>2 DEF Blocked, DInv, IInv, TypeOK, Priority
    <3>3. QED
      BY <1>10, <3>1, <3>2
  <2>3. QED
    BY <2>1, <2>2
<1>15. PromotedForSomebody'
  <2> SUFFICES ASSUME NEW t \in Threads, Listed(t), old_priority'[t] # NO_PRIORITY
               PROVE  \E m \in Locks : \E u \in Threads : Owns(t, m) /\ Waits(u, m)'
    BY <1>3 DEF PromotedForSomebody
  <2>1. CASE t \in P
    BY <1>4, <1>5, <1>9, <2>1
  <2>2. CASE t \notin P
    <3>1. old_priority[t] # NO_PRIORITY
      BY <1>2, <2>2 DEF Blocked
    <3>2. PICK m \in Locks, u \in Threads : Owns(t, m) /\ Waits(u, m)
      BY <3>1 DEF DInv, PromotedForSomebody
    <3>3. QED
      BY <1>4, <1>9, <3>2
  <2>3. QED
    BY <2>1, <2>2
<1>16. QED
  BY <1>3, <1>12, <1>13, <1>14, <1>15 DEF DInv

(* The unlock takes the best waiter off the list; a caller that nobody     *)
(* waited for was not promoted.                                            *)
LEMMA UnlockKeepsDInv ==
    ASSUME DInv, IInv', NEW n \in Locks, SvcUnlock(n), Owns(rthread, n)
    PROVE  DInv'
<1>1. /\ Running /\ retry[rthread] = Null /\ UNCHANGED retry
      /\ lockpid' = [lockpid EXCEPT ![n] = NULL_PID]
  BY DEF SvcUnlock, Fresh
<1>2. /\ Ownership'
      /\ \A t \in Threads : Listed(t)' <=> Listed(t)
      /\ \A t \in Threads : \A m \in Locks : Owns(t, m)' <=> Owns(t, m) /\ m # n
  BY UnlockOwners DEF DInv
<1>3. rthread \in Threads /\ \A m \in Locks : ~ Waits(rthread, m)
  BY <1>1, RunningWaitsNot DEF DInv
<1>4. \A t \in Threads : Owns(t, n) => t = rthread
  BY <1>3 DEF Owns, DInv, Ownership, OnePid
<1>5. \A m \in Locks : Owns(rthread, m) => m = n
  BY <1>3 DEF DInv, OneLock
<1>6. \A m \in Locks : lockpid'[m] = NULL_PID => m = n \/ lockpid[m] = NULL_PID
  BY <1>1 DEF DInv, IInv, TypeOK
<1>7. OneLock'
  BY <1>2 DEF DInv, OneLock
<1>8. CASE /\ \A u \in Threads : ~ Waits(u, n)
           /\ UNCHANGED <<rthread, queue, priority, old_priority, mptr>>
  <2>1. /\ \A t \in Threads : \A m \in Locks : Waits(t, m)' <=> Waits(t, m)
        /\ \A t \in Threads : IsReady(t)' <=> IsReady(t)
    BY <1>8 DEF Waits, IsReady
  <2>2. BestWoken'
    <3> SUFFICES ASSUME NEW m \in Locks, NEW u \in Threads, lockpid'[m] = NULL_PID, Waits(u, m)
                 PROVE  \E t \in Threads : IsReady(t)' /\ retry'[t] = m /\ priority'[t] <= priority'[u]
      BY <2>1 DEF BestWoken
    <3>1. lockpid[m] = NULL_PID
      BY <1>6, <1>8
    <3>2. QED
      BY <1>1, <1>8, <2>1, <3>1 DEF DInv, BestWoken
  <2>3. WaitersOwnNone' /\ OwnerInherits'
    BY <1>2, <1>8, <2>1 DEF DInv, WaitersOwnNone, OwnsNone, OwnerInherits
  <2>4. PromotedForSomebody'
    BY <1>2, <1>8, <2>1 DEF DInv, PromotedForSomebody
  <2>5. QED
    BY <1>2, <1>7, <2>2, <2>3, <2>4 DEF DInv
<1>9. ASSUME NEW t \in Threads, Woken(n, t)
      PROVE  DInv'
  <2>1. /\ Waits(t, n) /\ retry[t] = n /\ t # rthread /\ mptr' = [mptr EXCEPT ![t] = Null]
        /\ \A u \in Threads : u # t /\ Waits(u, n) => priority[t] <= priority[u]
    <3>1. \A u \in Threads : priority[u] \in Nat
      BY DEF DInv, IInv, TypeOK, Priority
    <3>2. QED
      BY <1>9, <3>1 DEF Woken
  <2>2. \A u \in Threads : \A m \in Locks : Waits(u, m)' <=> u # t /\ Waits(u, m)
    <3>1. \A b \in Priority : \A u :
              Holds(queue', Mwait(b), u) <=> u # t /\ Holds(queue, Mwait(b), u)
      BY <1>9 DEF Woken
    <3>2. \A u \in Threads : u # t => mptr'[u] = mptr[u]
      BY <2>1 DEF DInv, IInv, TypeOK
    <3>3. QED
      BY <3>1, <3>2 DEF Waits
  <2>3. /\ \A u \in Threads \ {rthread} :
               priority'[u] = priority[u] /\ old_priority'[u] = old_priority[u]
        /\ old_priority'[rthread] = NO_PRIORITY
    BY <1>3, <1>9 DEF Woken, DInv, IInv, TypeOK
  <2>4. /\ \A u \in Threads \ {rthread} : IsReady(u) => IsReady(u)'
        /\ IsReady(t)'
    <3>1. \A b \in Priority : \A u : u # rthread =>
             (Holds(queue', Ready(b), u) <=>
                  IF u = t THEN b = priority[t] ELSE Holds(queue, Ready(b), u))
      BY <1>9 DEF Woken
    <3>2. priority[t] \in Priority
      BY DEF DInv, IInv, TypeOK
    <3>3. QED
      BY <2>1, <3>1, <3>2 DEF IsReady
  <2>5. BestWoken'
    <3> SUFFICES ASSUME NEW m \in Locks, NEW u \in Threads, lockpid'[m] = NULL_PID,
                        u # t, Waits(u, m)
                 PROVE  \E w \in Threads : IsReady(w)' /\ retry'[w] = m /\ priority'[w] <= priority'[u]
      BY <2>2 DEF BestWoken
    <3>1. u # rthread
      BY <1>3
    <3>2. CASE m = n
      BY <1>1, <2>1, <2>3, <2>4, <3>1, <3>2
    <3>3. CASE m # n
      <4>1. PICK w \in Threads : IsReady(w) /\ retry[w] = m /\ priority[w] <= priority[u]
        BY <1>6, <3>3 DEF DInv, BestWoken
      <4>2. w # rthread
        BY <1>1, <4>1, ConstantFacts
      <4>3. QED
        BY <1>1, <2>3, <2>4, <3>1, <4>1, <4>2
    <3>4. QED
      BY <3>2, <3>3
  <2>6. WaitersOwnNone'
    BY <1>2, <2>2 DEF DInv, WaitersOwnNone, OwnsNone
  <2>7. OwnerInherits'
    <3> SUFFICES ASSUME NEW m \in Locks, NEW w \in Threads, NEW u \in Threads,
                        Owns(w, m), m # n, Waits(u, m)
                 PROVE  priority'[w] <= priority'[u]
      BY <1>2, <2>2 DEF OwnerInherits
    <3>1. w # rthread /\ u # rthread
      BY <1>3, <1>5
    <3>2. QED
      BY <2>3, <3>1 DEF DInv, OwnerInherits
  <2>8. PromotedForSomebody'
    <3> SUFFICES ASSUME NEW w \in Threads, Listed(w), old_priority'[w] # NO_PRIORITY
                 PROVE  \E m \in Locks : \E u \in Threads : Owns(w, m) /\ m # n /\ u # t /\ Waits(u, m)
      BY <1>2, <2>2 DEF PromotedForSomebody
    <3>1. w # rthread /\ old_priority[w] # NO_PRIORITY
      BY <2>3
    <3>2. PICK m \in Locks, u \in Threads : Owns(w, m) /\ Waits(u, m)
      BY <3>1 DEF DInv, PromotedForSomebody
    <3>3. m # n
      BY <1>4, <3>1, <3>2
    <3>4. u # t
      BY <2>1, <3>2, <3>3 DEF Waits
    <3>5. QED
      BY <3>2, <3>3, <3>4
  <2>9. QED
    BY <1>2, <1>7, <2>5, <2>6, <2>7, <2>8 DEF DInv
<1>10. QED
  BY <1>8, <1>9, UnlockFacts DEF DInv

LEMMA CleanupKeepsDInv ==
    ASSUME DInv, IInv', OwnsNone(rthread), Cleanup
    PROVE  DInv'
<1>1. /\ Running /\ retry[rthread] = Null
      /\ UNCHANGED <<pid, lockpid, priority, old_priority, retry>>
      /\ \A t \in Threads : Listed(t)' <=> Listed(t) /\ t # rthread
      /\ \A t \in Threads : \A m : Waits(t, m)' <=> Waits(t, m)
      /\ \A t \in Threads : IsReady(t) /\ t # rthread => IsReady(t)'
  BY CleanupFacts DEF DInv
<1>2. /\ Ownership'
      /\ \A t \in Threads : \A m \in Locks : Owns(t, m)' <=> Owns(t, m)
  BY CleanupOwners DEF DInv
<1>3. BestWoken'
  <2> SUFFICES ASSUME NEW m \in Locks, NEW u \in Threads, lockpid[m] = NULL_PID, Waits(u, m)
               PROVE  \E t \in Threads : IsReady(t)' /\ retry'[t] = m /\ priority'[t] <= priority'[u]
    BY <1>1 DEF BestWoken
  <2>1. PICK t \in Threads : IsReady(t) /\ retry[t] = m /\ priority[t] <= priority[u]
    BY DEF DInv, BestWoken
  <2>2. t # rthread
    BY <1>1, <2>1, ConstantFacts
  <2>3. QED
    BY <1>1, <2>1, <2>2
<1>4. OneLock' /\ WaitersOwnNone' /\ OwnerInherits' /\ PromotedForSomebody'
  BY <1>1, <1>2 DEF DInv, OneLock, WaitersOwnNone, OwnsNone, OwnerInherits, PromotedForSomebody
<1>5. QED
  BY <1>2, <1>3, <1>4 DEF DInv

LEMMA AddThreadKeepsDInv ==
    ASSUME DInv, IInv', PidIsFresh, NEW arg \in PriorityArgs, SvcAddThread(arg)
    PROVE  DInv'
<1>1. /\ Ownership'
      /\ \A t \in Threads : Listed(t) => Listed(t)'
      /\ \A t \in Threads : \A m \in Locks : Owns(t, m)' <=> Owns(t, m)
  BY AddThreadOwners DEF DInv
<1>2. CASE UNCHANGED <<queue, threadVars, nextpid, lockpid>>
  BY <1>2, SameForLocksKeepsDInv DEF threadVars, SameForLocks, Listed, Waits, IsReady
<1>3. ASSUME NEW h \in Threads, UNCHANGED lockpid, ~ Listed(h),
             old_priority'[h] = NO_PRIORITY,
             \A t \in Threads : Listed(t)' <=> t = h \/ Listed(t),
             \A t \in Threads : \A m \in Locks : Waits(t, m)' <=> Waits(t, m),
             \A t \in Threads \ {h} :
                 /\ priority'[t] = priority[t] /\ old_priority'[t] = old_priority[t]
                 /\ retry'[t] = retry[t] /\ (IsReady(t) => IsReady(t)'),
             ~ IsReady(h), \A m : ~ Waits(h, m)
      PROVE  DInv'
  <2>1. BestWoken'
    BY <1>3 DEF DInv, BestWoken
  <2>2. OneLock' /\ WaitersOwnNone'
    BY <1>1, <1>3 DEF DInv, OneLock, WaitersOwnNone, OwnsNone
  <2>3. \A t \in Threads : \A m \in Locks : Owns(t, m) => t # h
    BY <1>3 DEF Owns
  <2>4. OwnerInherits'
    BY <1>1, <1>3, <2>3 DEF DInv, OwnerInherits
  <2>5. PromotedForSomebody'
    BY <1>1, <1>3 DEF DInv, PromotedForSomebody
  <2>6. QED
    BY <1>1, <2>1, <2>2, <2>4, <2>5 DEF DInv
<1>4. QED
  BY <1>2, <1>3, AddThreadFacts DEF DInv

LEMMA DisciplinedIsNext == [DisciplinedNext]_vars => [Next]_vars
BY DEF DisciplinedNext, Next

LEMMA NextDInv ==
    ASSUME ~ Nesting, DInv, [DisciplinedNext]_vars
    PROVE  DInv'
<1>1. IInv'
  BY DisciplinedIsNext, NextIInv DEF DInv
<1>2. CASE Quiet
  BY <1>1, <1>2, QuietFacts, SameForLocksKeepsDInv DEF DInv
<1>3. CASE UNCHANGED vars
  BY <1>1, <1>3, SameForLocksKeepsDInv
     DEF vars, threadVars, SameForLocks, Listed, Waits, IsReady
<1>4. CASE OwnsNone(rthread) /\ Cleanup
  BY <1>1, <1>4, CleanupKeepsDInv
<1>5. CASE \E arg \in PriorityArgs : PidIsFresh /\ SvcAddThread(arg)
  BY <1>1, <1>5, AddThreadKeepsDInv
<1>6. CASE \E m \in Locks : OwnsNone(rthread) /\ (SvcLockTaken(m) \/ SvcLockBlocked(m))
  BY <1>1, <1>6, TakenKeepsDInv, BlockedKeepsDInv
<1>7. CASE \E m \in Locks : Owns(rthread, m) /\ SvcUnlock(m)
  BY <1>1, <1>7, UnlockKeepsDInv
<1>8. QED
  BY <1>2, <1>3, <1>4, <1>5, <1>6, <1>7 DEF DisciplinedNext, Quiet

LEMMA DisciplinedInvariant == ASSUME ~ Nesting PROVE DisciplinedSpec => []DInv
<1>1. DInv /\ [DisciplinedNext]_vars => DInv'
  BY NextDInv
<1>2. QED
  BY <1>1, InitDInv, PTL DEF DisciplinedSpec
-----------------------------------------------------------------------------
(* Among threads that hold at most one lock at a time, whatever else they  *)
(* wait for and however many of them there are, an owner runs at least as  *)
(* well as any thread that waits for its lock: sched_mutex_yield promotes  *)
(* it, and a lock that is free while threads wait is taken by none worse.  *)
THEOREM OwnersInherit == ASSUME ~ Nesting PROVE DisciplinedSpec => []OwnerInherits
<1>1. DInv => OwnerInherits
  BY DEF DInv
<1>2. QED
  BY <1>1, DisciplinedInvariant, PTL

(* For such threads the promotion ends with the critical section, although *)
(* sched_mutex_resurrect demotes only when it finds a waiter: a promotion  *)
(* always has a waiter behind it.                                          *)
THEOREM PromotionsEnd == ASSUME ~ Nesting PROVE DisciplinedSpec => []PromotionEnds
<1>1. DInv => PromotionEnds
  BY DEF DInv, PromotedForSomebody, PromotionEnds, OwnsNone
<1>2. QED
  BY <1>1, DisciplinedInvariant, PTL
=============================================================================
