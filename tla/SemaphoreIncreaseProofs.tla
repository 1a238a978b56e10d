---------------------- MODULE SemaphoreIncreaseProofs -----------------------
(***************************************************************************)
(* Theorems about the scheduler with SYS_SEMAPHORE_IV: the invariants of   *)
(* SchedulerProofs, and whom a signal wakes, one waiter or many.           *)
(*                                                                         *)
(* Resurrected relates the queues after some turns of the loop of          *)
(* sched_semaphore_resurrect to those before the call; that every turn     *)
(* keeps it is shown for a first turn that would not.                      *)
(***************************************************************************)
EXTENDS SemaphoreIncrease, SchedulerProofs

Start == [queue |-> queue, mptr |-> mptr]
Resurrected(S, s) ==
    /\ SignalWaiters(queue, mptr, s) = {} => S = Start
    /\ S.queue \in [QueueNames -> Seq(Threads)]
    /\ OnePosition(S.queue, QueueNames) /\ SomePosition(S.queue, QueueNames, Threads)
    /\ S.mptr \in [Threads -> Objects \cup {Null}]
    /\ \A u \in Threads :
          \/ /\ S.mptr[u] = mptr[u]
             /\ \A a \in QueueNames : Holds(S.queue, a, u) <=> Holds(queue, a, u)
          \/ /\ Expects(u, s) /\ S.mptr[u] = Null
             /\ \A a \in QueueNames : Holds(S.queue, a, u) <=> a = Ready(priority[u])
    /\ \A p \in Priority : \A t, u \in Threads :
          AheadIn(S.queue, Swait(p), t, u) => AheadIn(queue, Swait(p), t, u)
    /\ \A t, u \in Threads :
          (Expects(t, s) /\ Expects(u, s) /\ S.mptr[t] = s /\ S.mptr[u] = Null)
              => priority[u] < priority[t] \/ AheadIn(queue, Swait(priority[t]), u, t)
-----------------------------------------------------------------------------
(* Where find_signal_wait_next stops: in a queue of a level, at a thread.  *)
LEMMA SignalPositions ==
    ASSUME NEW q \in [QueueNames -> Seq(Threads)], NEW m, NEW s,
           NEW x \in SignalWaiters(q, m, s)
    PROVE  \E p \in Priority : \E i \in DOMAIN q[Swait(p)] :
               /\ x = <<Swait(p), i>> /\ x[1][2] = p /\ x[2] = i /\ i \in Nat
               /\ EntryAt(q, x) = q[Swait(p)][i] /\ q[Swait(p)][i] \in Threads
               /\ m[q[Swait(p)][i]] = s /\ Holds(q, Swait(p), q[Swait(p)][i])
<1>1. x = <<x[1], x[2]>> /\ x[1] \in SwaitQueues /\ x[2] \in DOMAIN q[x[1]]
      /\ EntryAt(q, x) = q[x[1]][x[2]] /\ m[EntryAt(q, x)] = s
  BY PositionFacts DEF SignalWaiters
<1>2. PICK p \in Priority : x[1] = Swait(p)
  BY <1>1 DEF SwaitQueues
<1>3. Swait(p) \in QueueNames
  BY QueueNameFacts
<1>4. x[2] \in Nat /\ q[Swait(p)][x[2]] \in Threads /\ Holds(q, Swait(p), q[Swait(p)][x[2]])
  BY <1>1, <1>2, <1>3, HoldsIn DEF Holds
<1>5. x[1][2] = p
  BY <1>2 DEF Swait
<1>6. QED
  BY <1>1, <1>2, <1>4, <1>5

(* The scan finds a first waiter if there is one. *)
LEMMA FirstWaiter ==
    ASSUME NEW q \in [QueueNames -> Seq(Threads)], NEW m, NEW s,
           SignalWaiters(q, m, s) # {}
    PROVE  \E x \in SignalWaiters(q, m, s) : IsFirst(x, SignalWaiters(q, m, s))
<1> DEFINE W == SignalWaiters(q, m, s)
           Levels == {x[1][2] : x \in W}
<1>1. ASSUME NEW x \in W PROVE x[1][2] \in Nat /\ x[2] \in Nat /\ x[1] = Swait(x[1][2])
                               /\ x = <<x[1], x[2]>>
  BY SignalPositions DEF Priority
<1> HIDE DEF W
<1>2. Levels \in SUBSET Nat /\ Levels # {}
  BY <1>1 DEF W
<1>3. PICK p \in Levels : \A l \in Levels : p <= l
  BY <1>2, FirstOne
<1> DEFINE Places == {i \in Nat : \E x \in W : x[1][2] = p /\ x[2] = i}
<1>4. Places \in SUBSET Nat /\ Places # {}
  BY <1>1, <1>3
<1>5. PICK i \in Places : \A j \in Places : i <= j
  BY <1>4, FirstOne
<1>6. PICK x \in W : x[1][2] = p /\ x[2] = i
  BY <1>5
<1>7. ASSUME NEW y \in W PROVE y = x \/ ScannedBefore(x, y)
  <2>1. p <= y[1][2] /\ y[1][2] \in Nat /\ p \in Nat /\ i \in Nat /\ y[2] \in Nat
    BY <1>1, <1>2, <1>3, <1>5, <1>7
  <2>2. CASE p < y[1][2]
    BY <1>6, <2>2 DEF ScannedBefore
  <2>3. CASE y[1][2] = p
    <3>1. i <= y[2] /\ x[1] = y[1]
      BY <1>1, <1>5, <1>6, <2>1, <2>3
    <3>2. CASE i = y[2]
      BY <1>1, <1>6, <3>1, <3>2
    <3>3. CASE i < y[2]
      BY <1>6, <3>1, <3>3 DEF ScannedBefore
    <3>4. QED
      BY <2>1, <3>1, <3>2, <3>3
  <2>4. QED
    BY <2>1, <2>2, <2>3
<1>8. QED
  BY <1>6, <1>7 DEF W, IsFirst

(* Of two waiters the first in the scan is better or stands ahead. *)
LEMMA ScanOrder ==
    ASSUME NEW q \in [QueueNames -> Seq(Threads)], NEW p \in Priority, NEW b \in Priority,
           NEW i \in DOMAIN q[Swait(p)], NEW j \in DOMAIN q[Swait(b)],
           ScannedBefore(<<Swait(p), i>>, <<Swait(b), j>>)
    PROVE  p < b \/ (p = b /\ AheadIn(q, Swait(p), q[Swait(p)][i], q[Swait(b)][j]))
<1> DEFINE x == <<Swait(p), i>>
           y == <<Swait(b), j>>
<1>1. x[1] = Swait(p) /\ x[2] = i /\ y[1] = Swait(b) /\ y[2] = j
      /\ x[1][2] = p /\ y[1][2] = b
  BY DEF Swait
<1>2. KindRank(x[1]) = KindRank(y[1])
  BY <1>1 DEF KindRank, Swait
<1>3. ScannedBefore(x, y) /\ KindRank(x[1]) \in Int
  BY DEF KindRank
<1> HIDE DEF x, y
<1>4. p < b \/ (Swait(p) = Swait(b) /\ i < j)
  BY <1>1, <1>2, <1>3 DEF ScannedBefore
<1>5. Swait(p) = Swait(b) => p = b
  BY QueueNameFacts
<1>6. QED
  BY <1>4, <1>5 DEF AheadIn

(* A turn of the loop keeps what Resurrected says. *)
LEMMA TurnKeeps ==
    ASSUME IInv, NEW s \in Semaphores, NEW S, Resurrected(S, s)
    PROVE  Resurrected(Resurrect(S, s), s)
<1> DEFINE W == SignalWaiters(S.queue, S.mptr, s)
           x == CHOOSE x \in W : IsFirst(x, W)
           t == EntryAt(S.queue, x)
           R == [queue |-> MoveFrom(S.queue, x, Ready(priority[t])),
                 mptr |-> [S.mptr EXCEPT ![t] = Null]]
<1>1. CASE W = {}
  BY <1>1 DEF Resurrect
<1>2. CASE W # {}
  <2>q. S.queue \in [QueueNames -> Seq(Threads)] /\ OnePosition(S.queue, QueueNames)
        /\ SomePosition(S.queue, QueueNames, Threads)
        /\ S.mptr \in [Threads -> Objects \cup {Null}] /\ s # Null
    BY ConstantFacts DEF Resurrected
  <2>1. x \in W /\ IsFirst(x, W)
    BY <1>2, <2>q, FirstWaiter
  <2>2. PICK p \in Priority : \E i \in DOMAIN S.queue[Swait(p)] :
            /\ x = <<Swait(p), i>> /\ x[1][2] = p /\ x[2] = i /\ i \in Nat
            /\ EntryAt(S.queue, x) = S.queue[Swait(p)][i] /\ S.queue[Swait(p)][i] \in Threads
            /\ S.mptr[S.queue[Swait(p)][i]] = s
            /\ Holds(S.queue, Swait(p), S.queue[Swait(p)][i])
    <3>1. x \in SignalWaiters(S.queue, S.mptr, s)
      BY <2>1
    <3> HIDE DEF x
    <3>2. QED
      BY <2>q, <3>1, SignalPositions
  <2>3. PICK i \in DOMAIN S.queue[Swait(p)] :
            /\ x = <<Swait(p), i>> /\ t = S.queue[Swait(p)][i] /\ t \in Threads
            /\ S.mptr[t] = s /\ Holds(S.queue, Swait(p), t)
    BY <2>2
  <2>4. Resurrect(S, s) = R
    BY <1>2 DEF Resurrect
  <2>f. /\ \A b \in Priority : Ready(b) \in QueueNames /\ Swait(b) \in QueueNames
        /\ \A b, c \in Priority : Swait(b) # Ready(c)
        /\ \A b, c \in Priority : (Swait(b) = Swait(c) => b = c) /\ (Ready(b) = Ready(c) => b = c)
    BY QueueNameFacts
  <2> HIDE DEF x, t
  <2>5. R.queue = MoveFrom(S.queue, x, Ready(priority[t]))
        /\ R.mptr = [S.mptr EXCEPT ![t] = Null]
    OBVIOUS
  <2> HIDE DEF R, W
  <2>6. S.mptr[t] = mptr[t] /\ \A a \in QueueNames : Holds(S.queue, a, t) <=> Holds(queue, a, t)
    BY <2>q, <2>3 DEF Resurrected
  <2>7. Expects(t, s) /\ priority[t] = p
    <3>1. Holds(queue, Swait(p), t) /\ mptr[t] = s
      BY <2>3, <2>6, <2>f
    <3>2. QED
      BY <2>3, <3>1 DEF Expects, IInv, QueueMatchesPriority
  <2>8. Moved(S.queue, R.queue, QueueNames, Threads, t, Ready(p))
    BY <2>q, <2>3, <2>5, <2>7, <2>f, MoveFromFacts
  <2>9. \A a \in QueueNames : \A u : Holds(R.queue, a, u) <=>
            IF u = t THEN a = Ready(p) ELSE Holds(S.queue, a, u)
    BY <2>8 DEF Moved
  <2>10. /\ R.queue \in [QueueNames -> Seq(Threads)]
         /\ OnePosition(R.queue, QueueNames) /\ SomePosition(R.queue, QueueNames, Threads)
         /\ R.mptr \in [Threads -> Objects \cup {Null}]
    BY <2>q, <2>3, <2>5, <2>8 DEF Moved
  <2>11. ASSUME NEW u \in Threads
         PROVE  \/ /\ R.mptr[u] = mptr[u]
                   /\ \A a \in QueueNames : Holds(R.queue, a, u) <=> Holds(queue, a, u)
                \/ /\ Expects(u, s) /\ R.mptr[u] = Null
                   /\ \A a \in QueueNames : Holds(R.queue, a, u) <=> a = Ready(priority[u])
    <3>1. CASE u = t
      BY <2>q, <2>3, <2>5, <2>7, <2>9, <3>1
    <3>2. CASE u # t
      <4>1. R.mptr[u] = S.mptr[u] /\ \A a \in QueueNames : Holds(R.queue, a, u) <=> Holds(S.queue, a, u)
        BY <2>q, <2>3, <2>5, <2>9, <3>2
      <4>2. QED
        BY <4>1 DEF Resurrected
    <3>3. QED
      BY <3>1, <3>2
  <2>12. ASSUME NEW b \in Priority, NEW u \in Threads, NEW v \in Threads,
                AheadIn(R.queue, Swait(b), u, v)
         PROVE  AheadIn(queue, Swait(b), u, v)
    <3>1. AheadIn(S.queue, Swait(b), u, v)
      BY <2>q, <2>3, <2>5, <2>7, <2>12, <2>f, MoveFromOrder
    <3>2. QED
      BY <3>1 DEF Resurrected
  <2>13. ASSUME NEW u \in Threads, NEW v \in Threads,
                Expects(u, s), Expects(v, s), R.mptr[u] = s, R.mptr[v] = Null
         PROVE  priority[v] < priority[u] \/ AheadIn(queue, Swait(priority[u]), v, u)
    <3>1. u # t /\ S.mptr[u] = s
      BY <2>q, <2>3, <2>5, <2>13
    <3>2. CASE v # t
      <4>1. S.mptr[v] = Null
        BY <2>q, <2>3, <2>5, <2>13, <3>2
      <4>2. QED
        BY <2>13, <3>1, <4>1 DEF Resurrected
    <3>3. CASE v = t
      <4>1. PICK b \in Priority : Holds(queue, Swait(b), u)
        BY <2>13 DEF Expects
      <4>2. Holds(S.queue, Swait(b), u) /\ priority[u] = b
        BY <2>q, <2>f, <3>1, <4>1 DEF Resurrected, IInv, QueueMatchesPriority
      <4>3. PICK j \in DOMAIN S.queue[Swait(b)] : S.queue[Swait(b)][j] = u
        BY <4>2 DEF Holds
      <4>4. <<Swait(b), j>> \in W
        BY <3>1, <4>3 DEF W, SignalWaiters, Positions, SwaitQueues, EntryAt
      <4>5. x # <<Swait(b), j>>
        BY <2>3, <2>f, <3>1, <4>3
      <4>6. ScannedBefore(<<Swait(p), i>>, <<Swait(b), j>>)
        BY <2>1, <2>3, <4>4, <4>5 DEF IsFirst
      <4>7. p < b \/ (p = b /\ AheadIn(S.queue, Swait(p), t, u))
        BY <2>q, <2>3, <4>3, <4>6, ScanOrder
      <4>8. CASE p < b
        BY <2>7, <3>3, <4>2, <4>8
      <4>9. CASE p = b /\ AheadIn(S.queue, Swait(p), t, u)
        BY <2>3, <3>3, <4>2, <4>9 DEF Resurrected
      <4>10. QED
        BY <4>7, <4>8, <4>9
    <3>4. QED
      BY <3>2, <3>3
  <2>14. Resurrected(R, s)
    <3>1. SignalWaiters(queue, mptr, s) # {}
      BY <1>2 DEF Resurrected, Start, W
    <3>2. QED
      BY <3>1, <2>10, <2>11, <2>12, <2>13 DEF Resurrected
  <2>15. QED
    BY <2>4, <2>14
<1>3. QED
  BY <1>1, <1>2

LEMMA StartKeeps ==
    ASSUME IInv, NEW s \in Semaphores
    PROVE  Resurrected(Start, s)
<1>1. Start.queue = queue /\ Start.mptr = mptr
  BY DEF Start
<1>2. \A t, u \in Threads :
          ~ (Expects(t, s) /\ Expects(u, s) /\ Start.mptr[t] = s /\ Start.mptr[u] = Null)
  BY <1>1, ConstantFacts DEF Expects
<1>3. QED
  BY <1>1, <1>2 DEF Resurrected, IInv, TypeOK, ThreadsConserved
-----------------------------------------------------------------------------
(***************************************************************************)
(* The loop.                                                               *)
(***************************************************************************)
IsLoop(f, n, s) ==
    f = [k \in 0 .. n |-> IF k = 0 THEN Start ELSE Resurrect(f[k - 1], s)]

(* The function that the loop defines exists, for any number of turns:     *)
(* the least number without one would have one.                            *)
LEMMA LoopExists == \A s : \A n \in Nat : \E f : IsLoop(f, n, s)
<1> SUFFICES ASSUME NEW s, NEW m \in Nat, ~ \E f : IsLoop(f, m, s) PROVE FALSE
  OBVIOUS
<1> DEFINE None == {n \in Nat : ~ \E f : IsLoop(f, n, s)}
<1>1. PICK n \in None : \A k \in None : n <= k
  <2>1. None \in SUBSET Nat /\ None # {}
    OBVIOUS
  <2> HIDE DEF None
  <2>2. QED
    BY <2>1, FirstOne
<1>2. n # 0
  <2> SUFFICES ASSUME n = 0 PROVE FALSE
    OBVIOUS
  <2> DEFINE f == [k \in 0 .. 0 |-> Start]
  <2>1. f = [k \in 0 .. 0 |-> IF k = 0 THEN Start ELSE Resurrect(f[k - 1], s)]
    OBVIOUS
  <2>2. QED
    BY <2>1 DEF IsLoop
<1>3. n - 1 \in Nat /\ n - 1 \notin None /\ n \in Nat
  BY <1>1, <1>2
<1>4. PICK f : IsLoop(f, n - 1, s)
  BY <1>3
<1> DEFINE g == [k \in 0 .. n |-> IF k = n THEN Resurrect(f[n - 1], s) ELSE f[k]]
           h == [k \in 0 .. n |-> IF k = 0 THEN Start ELSE Resurrect(g[k - 1], s)]
<1>5. ASSUME NEW k \in 0 .. n PROVE g[k] = h[k]
  <2>1. CASE k = n
    <3>1. n - 1 \in 0 .. n /\ n - 1 # n
      BY <1>3
    <3>2. QED
      BY <1>2, <2>1, <3>1
  <2>2. CASE k # n
    <3>1. k \in 0 .. n - 1 /\ (k # 0 => k - 1 \in 0 .. n /\ k - 1 # n)
      BY <1>3, <2>2
    <3>2. f[k] = IF k = 0 THEN Start ELSE Resurrect(f[k - 1], s)
      BY <1>4, <3>1 DEF IsLoop
    <3>3. QED
      BY <2>2, <3>1, <3>2
  <2>3. QED
    BY <2>1, <2>2
<1>6. g = h
  BY <1>5
<1>7. IsLoop(g, n, s)
  BY <1>6 DEF IsLoop
<1>8. QED
  BY <1>1, <1>7

(* After all turns Resurrected holds: a first turn that breaks it would    *)
(* follow one that does not.                                               *)
LEMMA ResurrectFacts ==
    ASSUME IInv, NEW s \in Semaphores, NEW count \in Nat
    PROVE  Resurrected(sched_semaphore_resurrect(s, count), s)
<1> DEFINE turns == IF count < MAX_THREADS THEN count ELSE MAX_THREADS
           f == CHOOSE f : f = [k \in 0 .. turns |->
                                   IF k = 0 THEN Start ELSE Resurrect(f[k - 1], s)]
<1>1. turns \in Nat
  BY ThreadsAssumption
<1>2. sched_semaphore_resurrect(s, count) = f[turns]
  BY DEF sched_semaphore_resurrect, Start
<1> HIDE DEF turns
<1>3. f = [k \in 0 .. turns |-> IF k = 0 THEN Start ELSE Resurrect(f[k - 1], s)]
  BY <1>1, LoopExists DEF IsLoop
<1> HIDE DEF f
<1> DEFINE Bad == {k \in 0 .. turns : ~ Resurrected(f[k], s)}
<1>4. Bad = {}
  <2> SUFFICES ASSUME Bad # {} PROVE FALSE
    OBVIOUS
  <2>1. Bad \in SUBSET Nat
    BY <1>1
  <2>2. PICK k \in Bad : \A l \in Bad : k <= l
    <3> HIDE DEF Bad
    <3>1. QED
      BY <2>1, FirstOne
  <2>3. k \in 0 .. turns /\ ~ Resurrected(f[k], s)
    BY <2>2
  <2>4. k # 0
    <3>1. f[0] = Start
      BY <1>1, <1>3
    <3>2. QED
      BY <2>3, <3>1, StartKeeps
  <2>5. k - 1 \in 0 .. turns /\ ~ (k <= k - 1) /\ f[k] = Resurrect(f[k - 1], s)
    BY <1>1, <1>3, <2>3, <2>4
  <2>6. Resurrected(f[k - 1], s)
    BY <2>2, <2>5
  <2>7. QED
    BY <2>3, <2>5, <2>6, TurnKeeps
<1>5. turns \in 0 .. turns
  BY <1>1
<1>6. QED
  BY <1>2, <1>4, <1>5
-----------------------------------------------------------------------------
(***************************************************************************)
(* The call.                                                               *)
(***************************************************************************)
LEMMA SemaphoreIVStep ==
    ASSUME IInv, NEW s \in Semaphores, NEW n \in Increments, SvcSemaphoreIV(s, n)
    PROVE  IInv' /\ WakeUpsKept
<1>1. CASE UNCHANGED <<rthread, queue, mptr>>
  <2>1. TypeOK' /\ ThreadsConserved' /\ QueueMatchesPriority' /\ ListedPids'
    BY <1>1 DEF IInv, SvcSemaphoreIV, TypeOK, ThreadsConserved, QueueMatchesPriority,
                ListedPids, Listed
  <2>2. PromotionRemembered' /\ RunningIsBest' /\ WaitersRetry'
    BY <1>1 DEF IInv, SvcSemaphoreIV, PromotionRemembered, Listed, RunningIsBest, Running,
                WaitersRetry
  <2>3. WakeUpsKept
    BY <1>1 DEF SvcSemaphoreIV, WakeUpsKept, WakeUpOf, Waits, IsReady
  <2>4. QED
    BY <2>1, <2>2, <2>3 DEF IInv
<1>2. CASE ~ UNCHANGED <<rthread, queue, mptr>>
  <2>1. PICK count \in WakeCounts :
            /\ queue' = sched_semaphore_resurrect(s, count).queue
            /\ mptr' = sched_semaphore_resurrect(s, count).mptr
    BY <1>2 DEF SvcSemaphoreIV
  <2>u. UNCHANGED <<pid, priority, old_priority, retry, nextpid, lockpid, semval>>
    BY DEF SvcSemaphoreIV
  <2> DEFINE S == sched_semaphore_resurrect(s, count)
  <2>2. Resurrected(S, s)
    BY ResurrectFacts, WakeCountAssumption
  <2> HIDE DEF S
  <2>3. S.queue = queue' /\ S.mptr = mptr'
    BY <2>1 DEF S
  <2>4. /\ queue' \in [QueueNames -> Seq(Threads)] /\ ThreadsConserved'
        /\ mptr' \in [Threads -> Objects \cup {Null}]
    BY <2>2, <2>3 DEF Resurrected, ThreadsConserved
  <2>5. ASSUME NEW u \in Threads
        PROVE  \/ /\ mptr'[u] = mptr[u]
                  /\ \A a \in QueueNames : Holds(queue', a, u) <=> Holds(queue, a, u)
               \/ /\ Expects(u, s) /\ mptr'[u] = Null
                  /\ \A a \in QueueNames : Holds(queue', a, u) <=> a = Ready(priority[u])
    BY <2>2, <2>3 DEF Resurrected
  <2>6. ASSUME NEW u \in Threads, Expects(u, s)
        PROVE  Listed(u) /\ ~ IsReady(u) /\ \A m \in Locks : ~ Waits(u, m)
    <3>1. PICK p \in Priority : Holds(queue, Swait(p), u)
      BY <2>6 DEF Expects
    <3>2. \A a \in QueueNames : Holds(queue, a, u) => a = Swait(p)
      BY <3>1, OnlyQueue, QueueNameFacts DEF IInv, ThreadsConserved
    <3>3. QED
      BY <3>2, QueueNameFacts DEF Listed, IsReady, Waits
  <2>7. QueueMatchesPriority'
    <3> SUFFICES ASSUME NEW p \in Priority, NEW a \in {Ready(p), Mwait(p), Swait(p)},
                        NEW u \in Threads, Holds(queue', a, u)
                 PROVE  priority[u] = p
      BY <2>u DEF QueueMatchesPriority
    <3>1. a \in QueueNames
      BY QueueNameFacts
    <3>2. CASE Holds(queue, a, u)
      BY <3>2 DEF IInv, QueueMatchesPriority
    <3>3. CASE a = Ready(priority[u])
      <4>1. priority[u] \in Priority
        BY DEF IInv, TypeOK
      <4>2. QED
        BY <3>3, <4>1, QueueNameFacts
    <3>4. QED
      BY <2>5, <3>1, <3>2, <3>3
  <2>8. ASSUME NEW u \in Threads, NEW p \in Priority,
               Holds(queue', Mwait(p), u) \/ Holds(queue', Swait(p), u)
        PROVE  /\ mptr'[u] = mptr[u]
               /\ \A a \in QueueNames : Holds(queue', a, u) <=> Holds(queue, a, u)
    <3>1. priority[u] \in Priority
      BY DEF IInv, TypeOK
    <3>2. Mwait(p) \in QueueNames /\ Mwait(p) # Ready(priority[u])
          /\ Swait(p) \in QueueNames /\ Swait(p) # Ready(priority[u])
      BY <3>1, QueueNameFacts
    <3>3. QED
      BY <2>5, <2>8, <3>2
  <2>9. WaitersRetry'
    <3>1. ASSUME NEW p \in Priority, NEW u \in Threads, Holds(queue', Mwait(p), u)
          PROVE  mptr'[u] \in Locks /\ retry'[u] = mptr'[u]
      BY <2>u, <2>8, <3>1, QueueNameFacts DEF IInv, WaitersRetry
    <3>2. ASSUME NEW p \in Priority, NEW u \in Threads, Holds(queue', Swait(p), u)
          PROVE  mptr'[u] \in Semaphores /\ retry'[u] = mptr'[u]
      BY <2>u, <2>8, <3>2, QueueNameFacts DEF IInv, WaitersRetry
    <3>3. QED
      BY <3>1, <3>2 DEF WaitersRetry
  <2>10. \A u \in Threads : Listed(u)' => Listed(u)
    BY <2>5, <2>6, QueueNameFacts DEF Listed
  <2>11. ListedPids' /\ PromotionRemembered'
    BY <2>u, <2>10 DEF IInv, ListedPids, PromotionRemembered
  <2>12. WakeUpsKept
    <3> SUFFICES ASSUME NEW m \in Locks, WakeUpOf(m), lockpid'[m] = NULL_PID,
                        NEW u \in Threads, Waits(u, m)'
                 PROVE  \E v \in Threads : IsReady(v)' /\ retry'[v] = m
      BY DEF WakeUpsKept, WakeUpOf
    <3>1. Waits(u, m) /\ lockpid[m] = NULL_PID
      BY <2>u, <2>8, QueueNameFacts DEF Waits
    <3>2. PICK v \in Threads : IsReady(v) /\ retry[v] = m
      BY <3>1 DEF WakeUpOf
    <3>3. IsReady(v)'
      BY <2>5, <2>6, <3>2, QueueNameFacts DEF IsReady
    <3>4. QED
      BY <2>u, <3>2, <3>3
  <2>13. CASE schedule
    <3>1. TypeOK'
      BY <2>u, <2>4, <2>13 DEF IInv, TypeOK, schedule
    <3>2. RunningIsBest'
      BY <2>7, <2>13, <3>1, ScheduleIsBest
    <3>3. QED
      BY <2>4, <2>7, <2>9, <2>11, <2>12, <3>1, <3>2 DEF IInv
  <2>14. CASE rthread' = rthread /\ SignalWaiters(queue, mptr, s) = {}
    <3>1. S = Start
      BY <2>2, <2>14 DEF Resurrected
    <3>2. QED
      BY <1>2, <2>3, <2>14, <3>1 DEF Start
  <2>15. QED
    BY <1>2, <2>13, <2>14 DEF SvcSemaphoreIV
<1>3. QED
  BY <1>1, <1>2
LEMMA IncreaseStep == IInv /\ [IncreaseNext]_<<vars, hung>> => IInv' /\ WakeUpsKept
<1> SUFFICES ASSUME IInv, [IncreaseNext]_<<vars, hung>> PROVE IInv' /\ WakeUpsKept
  OBVIOUS
<1>1. ASSUME NEW s \in Semaphores, NEW n \in Increments, SvcSemaphoreIV(s, n)
      PROVE  IInv' /\ WakeUpsKept
  BY <1>1, SemaphoreIVStep
<1>2. CASE [Next]_vars
  BY <1>2, NextIInv
<1>3. QED
  BY <1>1, <1>2 DEF IncreaseNext

(* The inductive invariant of SchedulerProofs holds with the call 8 too,   *)
(* though a call wakes many waiters, which all become ready at once; and   *)
(* the wake-ups of locks are not lost.                                     *)
THEOREM IncreaseInvariant == IncreaseSpec => [](IInv /\ NoLostLockWakeup)
<1>1. IncreaseInit => IInv /\ NoLostLockWakeup
  BY InitIInv DEF IncreaseInit
<1>2. IInv /\ NoLostLockWakeup /\ [IncreaseNext]_<<vars, hung>> => (IInv /\ NoLostLockWakeup)'
  BY IncreaseStep DEF WakeUpsKept, WakeUpOf, NoLostLockWakeup
<1>3. QED
  BY <1>1, <1>2, PTL DEF IncreaseSpec

(* However many waiters a call 8 wakes in one loop, with every other call  *)
(* in between, no thread of the pool is lost or on two queues.             *)
THEOREM SignalsConserveThreads == IncreaseSpec => []ThreadsConserved
<1>1. IInv => ThreadsConserved
  BY DEF IInv
<1>2. QED
  BY <1>1, IncreaseInvariant, PTL

(* One waiter that is made ready by the call 7 was the first in the scan.  *)
LEMMA OneSignalled ==
    ASSUME IInv, NEW s \in Semaphores, NEW x \in WaitPositions(SwaitQueues, s),
           IsFirst(x, WaitPositions(SwaitQueues, s)),
           NEW t \in Threads, Expects(t, s), t # EntryAt(queue, x)
    PROVE  LET u == EntryAt(queue, x) IN
           priority[u] < priority[t] \/ AheadIn(queue, Swait(priority[t]), u, t)
<1> DEFINE u == EntryAt(queue, x)
           W == WaitPositions(SwaitQueues, s)
<1>1. queue \in [QueueNames -> Seq(Threads)] /\ W = SignalWaiters(queue, mptr, s)
  BY DEF IInv, TypeOK, WaitPositions, SignalWaiters
<1>2. PICK p \in Priority : \E i \in DOMAIN queue[Swait(p)] :
          /\ x = <<Swait(p), i>> /\ u = queue[Swait(p)][i] /\ u \in Threads
          /\ Holds(queue, Swait(p), u)
  BY <1>1, SignalPositions
<1>3. PICK i \in DOMAIN queue[Swait(p)] : x = <<Swait(p), i>> /\ u = queue[Swait(p)][i]
  BY <1>2
<1>4. PICK b \in Priority : Holds(queue, Swait(b), t)
  BY DEF Expects
<1>5. PICK j \in DOMAIN queue[Swait(b)] : queue[Swait(b)][j] = t
  BY <1>4 DEF Holds
<1>6. <<Swait(b), j>> \in W
  BY <1>4, <1>5 DEF Expects, WaitPositions, Positions, SwaitQueues, EntryAt
<1>7. x # <<Swait(b), j>>
  BY <1>5 DEF EntryAt
<1>8. ScannedBefore(<<Swait(p), i>>, <<Swait(b), j>>)
  BY <1>3, <1>6, <1>7 DEF IsFirst
<1>9. p < b \/ (p = b /\ AheadIn(queue, Swait(p), u, t))
  BY <1>1, <1>3, <1>5, <1>8, ScanOrder
<1>10. priority[u] = p /\ priority[t] = b
  BY <1>2, <1>4 DEF IInv, QueueMatchesPriority
<1>11. QED
  BY <1>9, <1>10

LEMMA NextSignalled ==
    ASSUME IInv, [IncreaseNext]_<<vars, hung>>, NEW s \in Semaphores,
           NEW t \in Threads, NEW u \in Threads,
           Expects(t, s), Expects(u, s), Expects(t, s)', mptr'[u] = Null
    PROVE  priority[u] < priority[t] \/ AheadIn(queue, Swait(priority[t]), u, t)
<1>1. mptr[t] = s /\ mptr[u] = s /\ mptr'[t] = s /\ s # Null
  BY ConstantFacts DEF Expects
<1>2. PICK b \in Priority : Holds(queue, Swait(b), u)
  BY DEF Expects
<1>3. mptr' # mptr
  BY <1>1
<1>4. /\ Swait(b) \in QueueNames /\ Swait(b) # Free /\ Free \in QueueNames
      /\ \A c \in Priority : Mwait(c) \in QueueNames /\ Swait(b) # Mwait(c)
      /\ OnePosition(queue, QueueNames) /\ queue \in [QueueNames -> Seq(Threads)]
      /\ mptr \in [Threads -> Objects \cup {Null}]
  BY QueueNameFacts DEF IInv, TypeOK, ThreadsConserved
<1>5. ASSUME NEW arg \in PriorityArgs, SvcAddThread(arg) PROVE FALSE
  <2>1. queue[Free] # <<>> /\ mptr' = [mptr EXCEPT ![Head(queue[Free])] = Null]
    BY <1>3, <1>5 DEF SvcAddThread, threadVars
  <2>2. u = Head(queue[Free])
    BY <1>1, <1>4, <2>1
  <2>3. Holds(queue, Free, u)
    BY <1>4, <2>1, <2>2, HoldsIn
  <2>4. QED
    BY <1>2, <1>4, <2>3, OnlyQueue
<1>6. ASSUME NEW m \in Locks, SvcUnlock(m) PROVE FALSE
  <2>1. PICK w \in Threads : Woken(m, w)
    BY <1>3, <1>6, UnlockFacts
  <2>2. w = u
    BY <1>1, <2>1 DEF Woken, IInv, TypeOK
  <2>3. PICK c \in Priority : Holds(queue, Mwait(c), u)
    BY <2>1, <2>2 DEF Woken, Waits
  <2>4. QED
    BY <1>2, <1>4, <2>3, OnlyQueue
<1>7. ASSUME NEW r \in Semaphores, SvcSemaphoreV(r)
      PROVE  priority[u] < priority[t] \/ AheadIn(queue, Swait(priority[t]), u, t)
  <2>1. PICK x \in WaitPositions(SwaitQueues, r) :
            /\ mptr' = [mptr EXCEPT ![EntryAt(queue, x)] = Null]
            /\ IsFirst(x, WaitPositions(SwaitQueues, r))
    BY <1>3, <1>7 DEF SvcSemaphoreV
  <2>2. u = EntryAt(queue, x) /\ t # u
    BY <1>1, <1>4, <2>1
  <2>3. r = s
    BY <1>1, <2>2 DEF WaitPositions
  <2>4. QED
    BY <2>1, <2>2, <2>3, OneSignalled
<1>8. ASSUME NEW r \in Semaphores, NEW n \in Increments, SvcSemaphoreIV(r, n)
      PROVE  priority[u] < priority[t] \/ AheadIn(queue, Swait(priority[t]), u, t)
  <2>1. PICK count \in WakeCounts : mptr' = sched_semaphore_resurrect(r, count).mptr
    BY <1>3, <1>8 DEF SvcSemaphoreIV
  <2> DEFINE S == sched_semaphore_resurrect(r, count)
  <2>2. Resurrected(S, r) /\ S.mptr = mptr'
    BY <2>1, ResurrectFacts, WakeCountAssumption
  <2> HIDE DEF S
  <2>3. Expects(u, r)
    BY <1>1, <2>2 DEF Resurrected
  <2>4. r = s
    BY <1>1, <2>3 DEF Expects
  <2>5. QED
    BY <1>1, <2>2, <2>4 DEF Resurrected
<1>9. ASSUME NEW o \in Objects, mptr' = [mptr EXCEPT ![rthread] = o] PROVE FALSE
  <2>1. o # Null
    BY ConstantFacts
  <2>2. QED
    BY <1>1, <1>4, <1>9, <2>1
<1>10. /\ \A m \in Locks : SvcLockBlocked(m) => mptr' = [mptr EXCEPT ![rthread] = m] /\ m \in Objects
       /\ \A r \in Semaphores :
              SvcSemaphoreBlocked(r) => mptr' = [mptr EXCEPT ![rthread] = r] /\ r \in Objects
  BY ConstantFacts DEF SvcLockBlocked, SvcSemaphoreBlocked
<1>11. QED
  BY <1>3, <1>5, <1>6, <1>7, <1>8, <1>9, <1>10
     DEF IncreaseNext, Next, SvcYield, SvcSchedule, Cleanup, SvcLockTaken, SvcSemaphoreTaken,
         vars, threadVars

(* find_signal_wait_next scans the levels from the best one: of any number *)
(* of waiters a call 7 wakes the best, and whatever the count that a call  *)
(* 8 reads, no waiter is left for one that is worse or came later.         *)
THEOREM BestAreSignalled == IncreaseSpec => BestSignalledFirst
<1>1. IInv /\ [IncreaseNext]_<<vars, hung>> =>
          [\A s \in Semaphores : \A t, u \in Threads :
              (Expects(t, s) /\ Expects(u, s) /\ Expects(t, s)' /\ mptr'[u] = Null)
                  => \/ priority[u] < priority[t]
                     \/ AheadIn(queue, Swait(priority[t]), u, t)]_<<vars, hung>>
  BY NextSignalled
<1>2. QED
  BY <1>1, IncreaseInvariant, PTL DEF IncreaseSpec, BestSignalledFirst
=============================================================================
