------------------------- MODULE SemaphoreIncrease --------------------------
(***************************************************************************)
(* The scheduler with SYS_SEMAPHORE_IV, the supervisor call 8 of svc.S     *)
(* (README.md:125, "8: Semaphore Increase by N").  It is apart from        *)
(* Scheduler because it can stop the processor: no call follows a step     *)
(* that sets hung.                                                         *)
(*                                                                         *)
(* The dispatch compares the call's number with 7 and then, less 8, with   *)
(* 3, so that for call 8 the Z flag is clear when svc_000008 starts, and   *)
(* no instruction before strexeq sets it: the store is never executed and  *)
(* r2 keeps the value that ldrex read.  The loop ends at once if it is     *)
(* zero and never if it is not, with interrupts masked.                    *)
(***************************************************************************)
EXTENDS Scheduler

CONSTANTS
    Increments,     \* values of r1, the N that threads ask for
    WakeCounts      \* values that "ldr r3, [sp, #1]" can load: bytes of the
                    \*   semaphore's address and the low byte of N, never 0

ASSUME IncrementAssumption == Increments \subseteq Nat \ {0}
ASSUME WakeCountAssumption == WakeCounts \subseteq Nat \ {0}

VARIABLE hung       \* the processor loops in svc_000008

(* Where find_signal_wait_next stops, for queues q and fields m. *)
SignalWaiters(q, m, s) == {x \in Positions(q, SwaitQueues) : m[EntryAt(q, x)] = s}

(* A turn of the loop of sched_semaphore_resurrect: the first waiter, if   *)
(* one is left, is pushed to the ready queue of its priority.              *)
Resurrect(S, s) ==
    LET waiters == SignalWaiters(S.queue, S.mptr, s)
        x == CHOOSE x \in waiters : IsFirst(x, waiters)
        t == EntryAt(S.queue, x)
    IN IF waiters = {} THEN S
       ELSE [queue |-> MoveFrom(S.queue, x, Ready(priority[t])),
             mptr |-> [S.mptr EXCEPT ![t] = Null]]

(* What its loop, cnt counting down from count, has changed in the end:    *)
(* after as many turns as there are threads no waiter is left.             *)
sched_semaphore_resurrect(s, count) ==
    LET turns == IF count < MAX_THREADS THEN count ELSE MAX_THREADS
        Turn[k \in 0 .. turns] ==
            IF k = 0 THEN [queue |-> queue, mptr |-> mptr] ELSE Resurrect(Turn[k - 1], s)
    IN Turn[turns]

(* SYS_SEMAPHORE_IV.  The value asked for is not used. *)
SvcSemaphoreIV(s, n) ==
    /\ Fresh
    /\ \/ /\ semval[s] # 0
          /\ hung' = TRUE
          /\ UNCHANGED <<rthread, queue, mptr>>
       \/ /\ semval[s] = 0
          /\ hung' = FALSE
          /\ \E count \in WakeCounts :
                LET S == sched_semaphore_resurrect(s, count) IN
                queue' = S.queue /\ mptr' = S.mptr
          /\ IF SignalWaiters(queue, mptr, s) = {} THEN UNCHANGED rthread ELSE schedule
    /\ UNCHANGED <<pid, priority, old_priority, retry, nextpid, lockpid, semval>>

IncreaseInit == Init /\ hung = FALSE
IncreaseNext ==
    /\ ~ hung
    /\ \/ Next /\ UNCHANGED hung
       \/ \E s \in Semaphores, n \in Increments : SvcSemaphoreIV(s, n)
IncreaseSpec == IncreaseInit /\ [][IncreaseNext]_<<vars, hung>>
-----------------------------------------------------------------------------
(* The waiters that a signal wakes, one or many, are the best of those     *)
(* that wait for the semaphore: none of them has a worse priority than one *)
(* that goes on waiting, or stood behind one of its own level.             *)
Expects(t, s) == mptr[t] = s /\ \E p \in Priority : Holds(queue, Swait(p), t)
BestSignalledFirst ==
    [][\A s \in Semaphores : \A t, u \in Threads :
          (Expects(t, s) /\ Expects(u, s) /\ Expects(t, s)' /\ mptr'[u] = Null)
              => \/ priority[u] < priority[t]
                 \/ AheadIn(queue, Swait(priority[t]), u, t)]_<<vars, hung>>

(* README.md:125, "Semaphore Increase by N": the call raises the value.    *)
(* Fails: it stores nothing, and on a positive value it does not return.   *)
IncreasesByN ==
    [][\A s \in Semaphores, n \in Increments :
          SvcSemaphoreIV(s, n) => semval'[s] = (semval[s] + n) % SemModulus]_<<vars, hung>>
=============================================================================
