------------------------------ MODULE Mutexes -------------------------------
(***************************************************************************)
(* The mutex manager of kernel/util/mutex.c on top of the scheduler.  The  *)
(* mutexes are Locks: a struct Mutex starts with its lock word.            *)
(*                                                                         *)
(* The manager's functions run in user mode.  Without interrupts a thread  *)
(* is switched out only at a supervisor call, so that create_mutex and     *)
(* delete_mutex are one step each, and lock_mutex one per supervisor call: *)
(* its walk along the used queue is in the middle when other threads run,  *)
(* and goes on from the entry it stood at, wherever that entry is then.    *)
(*                                                                         *)
(* Clients: a thread locks what it does not own, unlocks what it owns, and *)
(* returns owning nothing.  Any of them deletes any mutex at any time, one *)
(* that is owned, waited for or walked past included (usr/tests/test.c:182 *)
(* deletes one that it owns): delete_mutex leaves the lock word as it is,  *)
(* and a later create_mutex clears it.                                     *)
(***************************************************************************)
EXTENDS PriorityInheritance

CONSTANTS
    SharedLevels,   \* may two threads be started at one priority?
    MaxLockers      \* how many threads use mutexes at one time

ASSUME SharedLevelsAssumption == SharedLevels \in BOOLEAN
ASSUME LockersAssumption == MaxLockers \in Nat
ASSUME MutexPoolAssumption == IsFiniteSet(Locks)    \* mutexs[MAX_MUTEXS]
ASSUME NobodyAssumption == Null \notin Threads         \* no thread is nobody

VARIABLES
    manager,        \* mutex_manager: its queues "free" and "used"
    call,           \* per thread, where it is in lock_mutex: the function's
                    \*   argument m, the entry it looks at next, and whether
                    \*   it has unlocked that entry and not locked it again
    misused         \* history: has a mutex been deleted that was in use?

mutexVars == <<manager, call>>
allVars == <<vars, mutexVars, misused>>

Outside == [m |-> Null, entry |-> Null, relock |-> FALSE]
Idle    == Running /\ call[rthread] = Outside

Managed(m) == Holds(manager, "used", m)

(* The places of the manager's queues. *)
Places == Positions(manager, {"free", "used"})

(* entry->next: the entry behind m on the queue that m is on, Null at the end.*)
NextOf(m) ==
    LET x == CHOOSE x \in Places : EntryAt(manager, x) = m
        q == manager[x[1]]
    IN IF x[2] = Len(q) THEN Null ELSE q[x[2] + 1]

First(a) == IF manager[a] = <<>> THEN Null ELSE Head(manager[a])

(* The walk of lock_mutex from entry e on: the places behind e, and at it, *)
(* of mutexes whose pid is the caller's; v is the first of them.           *)
(* Mutants: whoever's mutexes; the walk ends at once; it looks at one      *)
(* entry only.                                                             *)
HeldFromAnyone(e) ==
    {x \in Places : /\ lockpid[EntryAt(manager, x)] # NULL_PID
                    /\ \E y \in Places : /\ EntryAt(manager, y) = e
                                         /\ y[1] = x[1] /\ y[2] <= x[2]}

HeldFrom(e) ==
    {x \in Places : /\ lockpid[EntryAt(manager, x)] = pid[rthread]
                    /\ \E y \in Places : /\ EntryAt(manager, y) = e
                                         /\ y[1] = x[1] /\ y[2] <= x[2]}

NextHeldNone(e, v) == FALSE

NextHeldAtOnce(e, v) == v = e /\ lockpid[v] = pid[rthread]

NextHeld(e, v) ==
    \E x \in HeldFrom(e) :
        EntryAt(manager, x) = v /\ \A y \in HeldFrom(e) : x[2] <= y[2]

(* The caller's next look is at e; relock: once it has locked e again. *)
WalksOn(e, relock) ==
    call' = [call EXCEPT ![rthread] = [m |-> call[rthread].m, entry |-> e, relock |-> relock]]

(* The threads that own a mutex or are in lock_mutex, the caller included. *)
Lockers == {t \in Threads : Listed(t) /\ (~ OwnsNone(t) \/ call[t] # Outside)} \cup {rthread}

(* mutex_init. *)
MutexInit ==
    /\ Init
    /\ \E s \in SetToSeqs(Locks) : manager = [a \in {"free", "used"} |->
                                                 IF a = "free" THEN s ELSE <<>>]
    /\ call = [t \in Threads |-> Outside]
    /\ misused = FALSE
-----------------------------------------------------------------------------
(* create_mutex: fails when the pool is empty, else clears the lock word.  *)
CreateMutex ==
    /\ Idle
    /\ manager["free"] # <<>>
    /\ lockpid' = [lockpid EXCEPT ![Head(manager["free"])] = NULL_PID]
    /\ manager' = MoveHead(manager, "free", "used")
    /\ UNCHANGED <<rthread, queue, threadVars, nextpid, semval, call>>

(* delete_mutex: find_value, remove_next_from_queue, prepend_to_queue.     *)
DeleteMutex(m) ==
    /\ Idle /\ Managed(m)
    /\ \E x \in Positions(manager, {"used"}) :
           /\ EntryAt(manager, x) = m
           /\ manager' = prepend_to_queue(m, remove_next_from_queue(manager, x), "free")
    /\ UNCHANGED <<vars, call>>

(* lock_mutex up to its first supervisor call: a mutex that is not managed *)
(* is not locked.                                                          *)
LockMutex(m) ==
    /\ Idle /\ ~ Owns(rthread, m) /\ Cardinality(Lockers) <= MaxLockers
    /\ Managed(m)
    /\ call' = [call EXCEPT ![rthread] = [m |-> m, entry |-> First("used"), relock |-> FALSE]]
    /\ UNCHANGED <<vars, manager>>

(* The toggle of a mutex that the caller holds: SYS_UNLOCK, and SYS_LOCK   *)
(* until it succeeds.  Mutant: it is not locked again.                     *)
ToggleUnlock ==
    \E v \in Locks :
        /\ Running /\ call[rthread] # Outside /\ ~ call[rthread].relock
        /\ NextHeld(call[rthread].entry, v)
        /\ SvcUnlock(v)
        /\ WalksOn(v, TRUE)
        /\ UNCHANGED manager

ToggleLockSkipped ==
    LET v == call[rthread].entry IN
    /\ Running /\ call[rthread].relock
    /\ WalksOn(NextOf(v), FALSE)
    /\ UNCHANGED <<vars, manager>>

ToggleLock ==
    LET v == call[rthread].entry IN
    /\ Running /\ call[rthread].relock
    /\ \/ /\ SvcLockTaken(v)
          /\ WalksOn(NextOf(v), FALSE)
       \/ SvcLockBlocked(v) /\ UNCHANGED call
    /\ UNCHANGED manager

(* The last call of lock_mutex, once no held mutex lies ahead. *)
FinalLock ==
    LET c == call[rthread] IN
    /\ Running /\ c # Outside /\ ~ c.relock
    /\ \A v \in Locks : ~ NextHeld(c.entry, v)
    /\ \/ SvcLockTaken(c.m) /\ call' = [call EXCEPT ![rthread] = Outside]
       \/ SvcLockBlocked(c.m) /\ WalksOn(Null, FALSE)
    /\ UNCHANGED manager

(* unlock_mutex is unlock, the supervisor call 5.  Mutant: it clears the   *)
(* lock word itself.                                                       *)
UnlockMutexQuietly(m) ==
    /\ Idle /\ Owns(rthread, m)
    /\ lockpid' = [lockpid EXCEPT ![m] = NULL_PID]
    /\ UNCHANGED <<rthread, queue, threadVars, nextpid, semval, mutexVars>>

UnlockMutex(m) == Idle /\ Owns(rthread, m) /\ SvcUnlock(m) /\ UNCHANGED mutexVars

(* The mutex is owned, waited for, or about to be locked by lock_mutex.    *)
InUse(m) ==
    \/ lockpid[m] # NULL_PID
    \/ \E t \in Threads : Listed(t) /\ (call[t].m = m \/ (call[t].relock /\ call[t].entry = m))

(* Whether a thread may be started at the priority arg. *)
LevelIsFree(arg) ==
    SharedLevels \/ \A t \in Threads : Listed(t) => Base(t) # CappedPriority(arg)

MutexStep ==
    \/ CreateMutex \/ ToggleUnlock \/ ToggleLock \/ FinalLock
    \/ \E m \in Locks : LockMutex(m) \/ UnlockMutex(m) \/ DeleteMutex(m)
    \/ Idle /\ SvcYield /\ UNCHANGED mutexVars
    \/ Idle /\ OwnsNone(rthread) /\ Cleanup /\ UNCHANGED mutexVars
    \/ \E arg \in PriorityArgs :
          Idle /\ PidIsFresh /\ LevelIsFree(arg) /\ SvcAddThread(arg) /\ UNCHANGED mutexVars

MutexNext ==
    /\ MutexStep
    /\ misused' = (misused \/ \E m \in Locks : InUse(m) /\ Managed(m) /\ ~ Managed(m)')

MutexSpec == MutexInit /\ [][MutexNext]_allVars
-----------------------------------------------------------------------------
(* "Ensure this thread locks all mutexs sequentially.  To avoid a          *)
(* deadlock" (mutex.c:91): no threads wait each for a mutex that another   *)
(* of them owns, if none has been deleted in use.  It is so for two lockers*)
(* of different priorities and two mutexes; not for two of one priority,   *)
(* and not for three mutexes.                                              *)
WaitsInVain(t, D) == \E m \in Locks, u \in D : Waits(t, m) /\ Owns(u, m)
NoDeadlock == ~ misused => \A D \in SUBSET Threads \ {{}} : \E t \in D : ~ WaitsInVain(t, D)

(* A deleted mutex is handed out again by create_mutex. *)
Recycled(m) == ~ Managed(m) /\ Managed(m)'

(* The toggles take nothing away: when lock_mutex returns, its caller owns *)
(* every mutex that it owned before some step of it, however often others  *)
(* took them in between, and the one it asked for.  In other words a       *)
(* mutex is lost only while its toggle is under way, or when it has been   *)
(* deleted and create_mutex hands it out again.                            *)
KeepsWhatItHeld ==
    [][\A t \in Threads : call[t] # Outside =>
          \A v \in Locks :
              /\ Owns(t, v) /\ ~ Owns(t, v)' =>
                     (call'[t].relock /\ call'[t].entry = v) \/ Recycled(v)
              /\ call[t].relock /\ ~ call'[t].relock /\ call[t].entry = v => Owns(t, v)'
              /\ call'[t] = Outside /\ call[t].m = v => Owns(t, v)']_allVars

(* Threads wait for m, which is free, and none is about to lock it. *)
Stranded(m) ==
    /\ lockpid[m] = NULL_PID /\ \E t \in Threads : Waits(t, m)
    /\ \A t \in Threads : ~ (IsReady(t) /\ retry[t] = m)

(* Waiters of a free mutex are left behind by nothing but create_mutex, by *)
(* handing out again a mutex that was deleted while they waited for it:    *)
(* whatever else threads lock, toggle, unlock, delete and create.          *)
StrandedByRecycling ==
    [][\A m \in Locks : Stranded(m)' => Stranded(m) \/ Recycled(m)]_allVars

(* What the toggle is for, with two mutexes: a thread that lock_mutex      *)
(* leaves waiting for one holds the other only if no better thread was     *)
(* already waiting for that, or it has been deleted, which keeps the walk  *)
(* from meeting it.  With more mutexes the thread may hold one that its    *)
(* walk had passed before the better thread came.                          *)
BlocksNoBetterWaiter ==
    [][Cardinality(Locks) <= 2 =>
          \A t, u \in Threads : \A m, v \in Locks :
              (~ Waits(t, m) /\ Waits(t, m)' /\ ~ call[t].relock /\ retry[t] = Null)
                  => ~ (Managed(v) /\ Owns(t, v) /\ Waits(u, v) /\ Base(u) < Base(t))]_allVars

(* The manager and the scheduler together implement the abstract service:  *)
(* an owner is a listed thread with the pid in the lock word, and what it  *)
(* asks for and has put down are in its call of lock_mutex.                *)
Owners(m)   == {t \in Threads : Owns(t, m)}
OneOf(O)    == IF O = {} THEN Null ELSE CHOOSE t \in O : TRUE
Service == INSTANCE MutexService WITH
    Users <- Threads, Mutexes <- Locks, Nobody <- Null,
    managed <- {m \in Locks : Managed(m)},
    owner <- [m \in Locks |-> OneOf(Owners(m))],
    asking <- [t \in Threads |-> call[t].m],
    toggled <- [t \in Threads |-> IF call[t].relock THEN call[t].entry ELSE Null]
ImplementsService == Service!Spec
=============================================================================
