------------------------ MODULE PriorityInheritance -------------------------
(***************************************************************************)
(* The scheduler under clients that use locks the way the lock and mutex   *)
(* functions are meant: a thread unlocks only what it owns, does not lock  *)
(* what it already owns and returns holding nothing.  Then the promotion   *)
(* of sched_mutex_yield and the demotion of sched_mutex_resurrect can be   *)
(* judged as a priority inheritance protocol.                              *)
(***************************************************************************)
EXTENDS Scheduler

CONSTANT Nesting        \* may a thread lock while it holds another lock?

ASSUME NestingAssumption == Nesting \in BOOLEAN

Owns(t, m)   == Listed(t) /\ lockpid[m] = pid[t] /\ lockpid[m] # NULL_PID
OwnsNone(t)  == \A m \in Locks : ~ Owns(t, m)

(* No pid is handed out again while a listed thread has it, which is so    *)
(* when no thread lives through 2^32 - 5 calls of add_thread.              *)
PidIsFresh == \A t \in Threads : Listed(t) => pid[t] # nextpid

DisciplinedNext ==
    \/ SvcYield
    \/ Running /\ OwnsNone(rthread) /\ Cleanup
    \/ \E arg \in PriorityArgs : PidIsFresh /\ SvcAddThread(arg)
    \/ \E m \in Locks :
          \/ /\ Running /\ ~ Owns(rthread, m)
             /\ Nesting \/ OwnsNone(rthread)
             /\ SvcLockTaken(m) \/ SvcLockBlocked(m)
          \/ Running /\ Owns(rthread, m) /\ SvcUnlock(m)
    \/ \E s \in Semaphores :
          SvcSemaphoreTaken(s) \/ SvcSemaphoreBlocked(s) \/ SvcSemaphoreV(s)

DisciplinedSpec == Init /\ [][DisciplinedNext]_vars
-----------------------------------------------------------------------------
(* While a thread waits for a lock, the owner runs at a priority at least  *)
(* as good (usr/tests/test.c:377: the owner "gets temporarily promoted").  *)
(* The lock may change hands several times while the thread waits, and the *)
(* owner may itself wait for a semaphore.                                  *)
OwnerInherits ==
    \A m \in Locks : \A t, u \in Threads :
        Owns(t, m) /\ Waits(u, m) => priority[t] <= priority[u]

(* A promotion does not outlive the critical section: a thread that owns   *)
(* no lock runs at its own priority, although only an unlock that finds a  *)
(* waiter demotes.                                                         *)
PromotionEnds ==
    \A t \in Threads :
        Listed(t) /\ OwnsNone(t) => old_priority[t] = NO_PRIORITY
=============================================================================
