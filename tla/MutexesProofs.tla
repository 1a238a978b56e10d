--------------------------- MODULE MutexesProofs ----------------------------
(***************************************************************************)
(* The mutex manager, for every number of threads, priorities and mutexes, *)
(* with nesting, and whatever mutexes its clients delete: it implements    *)
(* MutexService, lock_mutex takes nothing away from its caller for good,   *)
(* and only a mutex that is handed out again leaves waiters behind.        *)
(***************************************************************************)
EXTENDS Mutexes, PriorityInheritanceProofs, FiniteSetTheorems

Pools == {"free", "used"}

(* The manager keeps each mutex once, in one of its queues. *)
ManagerOK ==
    /\ manager \in [Pools -> Seq(Locks)]
    /\ OnePosition(manager, Pools) /\ SomePosition(manager, Pools, Locks)

Calls == [m : Locks \cup {Null}, entry : Locks \cup {Null}, relock : BOOLEAN]
InCall(t) == Listed(t) /\ call[t].m \in Locks /\ (call[t].relock => call[t].entry \in Locks)
CallsOK == call \in [Threads -> Calls] /\ \A t \in Threads : call[t] # Outside => InCall(t)

MInv ==
    /\ IInv
    /\ Ownership
    /\ ManagerOK
    /\ CallsOK

(* The state as the users of the service see it. *)
Handed  == {m \in Locks : Managed(m)}
OwnerOf == [m \in Locks |-> OneOf(Owners(m))]
Asking  == [t \in Threads |-> call[t].m]
Toggled == [t \in Threads |-> IF call[t].relock THEN call[t].entry ELSE Null]
-----------------------------------------------------------------------------
(***************************************************************************)
(* How a step looks to the users of the service.                           *)
(***************************************************************************)
LEMMA OwnersFacts ==
    ASSUME NEW m \in Locks
    PROVE  /\ OneOf({}) = Null /\ \A t : OneOf({t}) = t
           /\ (\A t \in Threads : ~ Owns(t, m)) => Owners(m) = {}
           /\ Ownership => \A t \in Threads : Owns(t, m) => Owners(m) = {t}
<1>1. OneOf({}) = Null /\ \A t : OneOf({t}) = t
  BY DEF OneOf
<1>2. (\A t \in Threads : ~ Owns(t, m)) => Owners(m) = {}
  BY DEF Owners
<1>3. Ownership => \A t \in Threads : Owns(t, m) => Owners(m) = {t}
  BY DEF Ownership, OnePid, Owners, Owns
<1>4. QED
  BY <1>1, <1>2, <1>3

LEMMA SameCalls ==
    ASSUME \A t \in Threads : call'[t] = call[t]
    PROVE  UNCHANGED <<Asking, Toggled>>
BY DEF Asking, Toggled

LEMMA SameOwnerOf ==
    ASSUME \A t \in Threads : \A m \in Locks : Owns(t, m)' <=> Owns(t, m)
    PROVE  UNCHANGED OwnerOf
<1>1. \A m \in Locks : Owners(m)' = Owners(m)
  BY DEF Owners
<1>2. QED
  BY <1>1 DEF OwnerOf

LEMMA SameHanded ==
    ASSUME UNCHANGED manager
    PROVE  UNCHANGED Handed
BY DEF Handed, Managed

LEMMA ServiceStutter ==
    ASSUME UNCHANGED <<Handed, OwnerOf, Asking, Toggled>>
    PROVE  UNCHANGED Service!vars
BY DEF Service!vars, Handed, OwnerOf, Asking, Toggled

(* A thread comes to own v, which nobody owned. *)
LEMMA OwnerGiven ==
    ASSUME NEW t \in Threads, NEW v \in Locks, \A u \in Threads : ~ Owns(u, v),
           \A u \in Threads : \A m \in Locks : Owns(u, m)' <=> Owns(u, m) \/ (u = t /\ m = v)
    PROVE  OwnerOf' = [OwnerOf EXCEPT ![v] = t] /\ OwnerOf[v] = Null
<1>1. \A m \in Locks : Owners(m)' = IF m = v THEN {t} ELSE Owners(m)
  BY DEF Owners
<1>2. Owners(v) = {}
  BY DEF Owners
<1>3. [m \in Locks |-> OneOf(Owners(m))]'
          = [[m \in Locks |-> OneOf(Owners(m))] EXCEPT ![v] = t]
  BY <1>1, OwnersFacts
<1>4. [m \in Locks |-> OneOf(Owners(m))][v] = Null
  BY <1>2, OwnersFacts
<1>5. QED
  BY <1>3, <1>4 DEF OwnerOf

(* Nobody owns v any more. *)
LEMMA OwnerGone ==
    ASSUME NEW v \in Locks,
           \A u \in Threads : \A m \in Locks : Owns(u, m)' <=> Owns(u, m) /\ m # v
    PROVE  OwnerOf' = [OwnerOf EXCEPT ![v] = Null]
<1>1. \A m \in Locks : Owners(m)' = IF m = v THEN {} ELSE Owners(m)
  BY DEF Owners
<1>2. [m \in Locks |-> OneOf(Owners(m))]'
          = [[m \in Locks |-> OneOf(Owners(m))] EXCEPT ![v] = Null]
  BY <1>1, OwnersFacts
<1>3. QED
  BY <1>2 DEF OwnerOf

LEMMA OwnerIs ==
    ASSUME Ownership, NEW t \in Threads, NEW v \in Locks, Owns(t, v)
    PROVE  OwnerOf[v] = t
BY OwnersFacts DEF OwnerOf

(* A thread owns a mutex only if it is its owner in the service. *)
LEMMA OwnerIsNot ==
    ASSUME NEW t \in Threads, NEW v \in Locks, ~ Owns(t, v)
    PROVE  OwnerOf[v] # t
<1>1. Null \notin Threads
  BY NobodyAssumption
<1>2. OwnerOf[v] = IF Owners(v) = {} THEN Null ELSE CHOOSE u \in Owners(v) : TRUE
  BY DEF OwnerOf, OneOf
<1>3. Owners(v) # {} => OwnerOf[v] \in Owners(v)
  BY <1>2
<1>4. t \notin Owners(v)
  BY DEF Owners
<1>5. QED
  BY <1>1, <1>2, <1>3, <1>4

(* A thread goes on to another place of lock_mutex. *)
LEMMA CallView ==
    ASSUME call \in [Threads -> Calls], NEW t \in Threads, NEW c,
           call' = [call EXCEPT ![t] = c]
    PROVE  /\ Asking' = [Asking EXCEPT ![t] = c.m]
           /\ Toggled' = [Toggled EXCEPT ![t] = IF c.relock THEN c.entry ELSE Null]
           /\ Asking[t] = call[t].m
           /\ Toggled[t] = IF call[t].relock THEN call[t].entry ELSE Null
           /\ c.m = call[t].m => UNCHANGED Asking
           /\ ~ c.relock /\ ~ call[t].relock => UNCHANGED Toggled
<1>1. \A u \in Threads : call'[u] = IF u = t THEN c ELSE call[u]
  OBVIOUS
<1>2. QED
  BY <1>1 DEF Asking, Toggled

LEMMA ServiceSteps ==
    ASSUME NEW m \in Locks,
           \/ Service!Create(m) \/ Service!Retire(m)
           \/ \E t \in Threads : \/ Service!Ask(t, m) \/ Service!PutDown(t, m)
                                 \/ Service!TakeUp(t, m) \/ Service!Acquire(t, m)
                                 \/ Service!Release(t, m)
    PROVE  [Service!Next]_(Service!vars)
BY DEF Service!Next
-----------------------------------------------------------------------------
(***************************************************************************)
(* One lemma per operation: MInv is kept and the service makes a step.     *)
(***************************************************************************)
LEMMA InitMInv == MutexInit => MInv /\ Service!Init
<1> SUFFICES ASSUME MutexInit PROVE MInv /\ Service!Init
  OBVIOUS
<1>1. IInv /\ Ownership /\ \A m \in Locks : lockpid[m] = NULL_PID
  BY InitIInv, InitOwnership DEF MutexInit, Init
<1>2. PICK s \in SetToSeqs(Locks) :
          manager = [a \in {"free", "used"} |-> IF a = "free" THEN s ELSE <<>>]
  BY DEF MutexInit
<1>3. /\ s \in [1 .. Cardinality(Locks) -> Locks]
      /\ \A i, j \in 1 .. Cardinality(Locks) : i # j => s[i] # s[j]
  BY DEF SetToSeqs
<1>4. s \in Seq(Locks)
  BY <1>3, MutexPoolAssumption, FS_CardinalityType
<1>5. ManagerOK
  <2>1. manager \in [Pools -> Seq(Locks)] /\ OnePosition(manager, Pools)
    BY <1>2, <1>3, <1>4 DEF Pools, OnePosition
  <2>2. s \in Surjection(1 .. Cardinality(Locks), Locks)
    <3>1. s \in Injection(1 .. Cardinality(Locks), Locks)
      BY <1>3 DEF Injection, IsInjective
    <3>2. Cardinality(Locks) \in Nat
      BY MutexPoolAssumption, FS_CardinalityType
    <3>3. Cardinality(1 .. Cardinality(Locks)) = Cardinality(Locks)
      BY <3>2, FS_Interval
    <3>4. QED
      BY <3>1, <3>3, MutexPoolAssumption, FS_Injection
  <2>3. \A m \in Locks : \E i \in DOMAIN s : s[i] = m
    BY <1>3, <2>2 DEF Surjection
  <2>4. SomePosition(manager, Pools, Locks)
    BY <1>2, <2>3 DEF SomePosition, Holds, Pools
  <2>5. QED
    BY <2>1, <2>4 DEF ManagerOK
<1>6. \A m \in Locks : ~ Managed(m) /\ Owners(m) = {}
  BY <1>1, <1>2 DEF Managed, Holds, Owners, Owns
<1>7. Service!Init
  BY <1>6, OwnersFacts DEF Service!Init, MutexInit, Outside
<1>8. CallsOK
  BY DEF MutexInit, CallsOK, Calls, Outside
<1>9. QED
  BY <1>1, <1>5, <1>7, <1>8 DEF MInv

(* The steps of a thread that change neither the manager nor a call: who   *)
(* is in lock_mutex stays listed.                                          *)
LEMMA SameManager ==
    ASSUME MInv, UNCHANGED <<manager, call>>, IInv', Ownership',
           \A t \in Threads : Listed(t) /\ call[t] # Outside => Listed(t)'
    PROVE  MInv'
<1>1. ManagerOK'
  BY DEF MInv, ManagerOK
<1>2. CallsOK'
  BY DEF MInv, CallsOK, InCall
<1>3. QED
  BY <1>1, <1>2 DEF MInv

(* A mutex on one of the manager's queues is not on the other. *)
LEMMA OnePool ==
    ASSUME ManagerOK, NEW m, Holds(manager, "free", m)
    PROVE  ~ Managed(m)
BY DEF ManagerOK, OnePosition, Pools, Managed, Holds

(* create_mutex clears the lock word of the mutex that it hands out, which *)
(* somebody may still own or wait for if it was deleted in use.            *)
LEMMA CreateMutexStep ==
    ASSUME MInv, CreateMutex
    PROVE  /\ MInv' /\ [Service!Next]_(Service!vars) /\ UNCHANGED call
           /\ \E h \in Locks :
                  /\ Recycled(h)
                  /\ \A t \in Threads : \A m \in Locks : Owns(t, m)' <=> Owns(t, m) /\ m # h
                  /\ UNCHANGED <<queue, mptr, retry>>
                  /\ \A m \in Locks : m # h => lockpid'[m] = lockpid[m]
<1>0. /\ manager["free"] # <<>> /\ manager' = MoveHead(manager, "free", "used")
      /\ lockpid' = [lockpid EXCEPT ![Head(manager["free"])] = NULL_PID]
      /\ UNCHANGED <<rthread, queue, threadVars, nextpid, semval, call>>
  BY DEF CreateMutex
<1>2. /\ manager \in [Pools -> Seq(Locks)] /\ OnePosition(manager, Pools)
      /\ SomePosition(manager, Pools, Locks) /\ "free" \in Pools /\ "used" \in Pools
  BY DEF MInv, ManagerOK, Pools
<1>h. PICK h \in Locks : h = Head(manager["free"])
  BY <1>0, <1>2, MoveHeadFacts
<1>1. /\ lockpid' = [lockpid EXCEPT ![h] = NULL_PID]
      /\ UNCHANGED <<rthread, queue, threadVars, nextpid, semval, call>>
  BY <1>0, <1>h
<1>3. /\ Moved(manager, manager', Pools, Locks, h, "used")
      /\ Holds(manager, "free", h) /\ h \in Locks
  BY <1>0, <1>2, <1>h, MoveHeadFacts
<1>4. ~ Managed(h)
  BY <1>3, OnePool DEF MInv
<1>5. /\ UNCHANGED <<pid, priority, old_priority, mptr, retry>>
      /\ \A m \in Locks : lockpid'[m] = IF m = h THEN NULL_PID ELSE lockpid[m]
      /\ lockpid' \in [Locks -> Pids \cup {NULL_PID}]
  BY <1>1, <1>3 DEF threadVars, MInv, IInv, TypeOK
<1>6. \A m : Managed(m)' <=> Managed(m) \/ m = h
  BY <1>2, <1>3 DEF Managed, Moved
<1>7. \A t \in Threads : Listed(t)' <=> Listed(t)
  BY <1>1 DEF Listed
<1>8. \A t \in Threads : \A m \in Locks : Owns(t, m)' <=> Owns(t, m) /\ m # h
  BY <1>5, <1>7 DEF Owns
<1>9. IInv'
  <2>1. TypeOK' /\ ThreadsConserved' /\ QueueMatchesPriority'
    BY <1>1, <1>5 DEF MInv, IInv, TypeOK, ThreadsConserved, QueueMatchesPriority
  <2>2. RunningIsBest' /\ WaitersRetry'
    BY <1>1, <1>5 DEF MInv, IInv, RunningIsBest, Running, WaitersRetry
  <2>3. ListedPids' /\ PromotionRemembered'
    BY <1>1, <1>5, <1>7 DEF MInv, IInv, ListedPids, PromotionRemembered, threadVars
  <2>4. QED
    BY <2>1, <2>2, <2>3 DEF IInv
<1>10. Ownership'
  BY <1>5, <1>7, <1>8 DEF MInv, Ownership, OnePid, OwnersListed
<1>11. ManagerOK' /\ CallsOK'
  BY <1>1, <1>2, <1>3, <1>7 DEF Moved, ManagerOK, MInv, CallsOK, InCall
<1>12. Service!Create(h)
  <2>1. OwnerOf' = [OwnerOf EXCEPT ![h] = Null]
    BY <1>3, <1>8, OwnerGone
  <2>2. Handed' = Handed \cup {h} /\ h \notin Handed
    BY <1>3, <1>4, <1>6 DEF Handed
  <2>3. UNCHANGED <<Asking, Toggled>>
    BY <1>1, SameCalls
  <2>4. QED
    BY <2>1, <2>2, <2>3 DEF Service!Create, OwnerOf, Handed, Asking, Toggled
<1>13. Recycled(h)
  BY <1>4, <1>6 DEF Recycled
<1>14. QED
  BY <1>1, <1>3, <1>5, <1>8, <1>9, <1>10, <1>11, <1>12, <1>13, ServiceSteps DEF MInv

LEMMA DeleteMutexStep ==
    ASSUME MInv, NEW v \in Locks, DeleteMutex(v)
    PROVE  MInv' /\ [Service!Next]_(Service!vars) /\ UNCHANGED <<vars, call>>
<1>1. Managed(v) /\ UNCHANGED <<vars, call>>
  BY DEF DeleteMutex
<1>2. PICK x \in Positions(manager, {"used"}) :
          /\ EntryAt(manager, x) = v
          /\ manager' = prepend_to_queue(v, remove_next_from_queue(manager, x), "free")
  BY DEF DeleteMutex
<1>3. /\ x = <<"used", x[2]>> /\ x[2] \in DOMAIN manager["used"] /\ manager["used"][x[2]] = v
  BY <1>2, PositionFacts
<1>4. /\ manager \in [Pools -> Seq(Locks)] /\ OnePosition(manager, Pools)
      /\ SomePosition(manager, Pools, Locks) /\ "free" \in Pools /\ "used" \in Pools
  BY DEF MInv, ManagerOK, Pools
<1> DEFINE p == remove_next_from_queue(manager, x)
<1>5. Removed(manager, p, Pools, Locks, "used", v)
  BY <1>3, <1>4, RemoveFacts
<1>6. manager' = prepend_to_queue(v, p, "free")
  BY <1>2
<1> HIDE DEF p
<1>7. p \in [Pools -> Seq(Locks)] /\ OnePosition(p, Pools) /\ \A b \in Pools : ~ Holds(p, b, v)
  BY <1>5 DEF Removed
<1>8. Added(p, manager', Pools, Locks, "free", v)
  BY <1>4, <1>6, <1>7, PrependFacts
<1>9. ManagerOK' /\ \A m : Managed(m)' <=> Managed(m) /\ m # v
  <2>1. \A b \in Pools : \A u : Holds(manager', b, u) <=>
            (Holds(manager, b, u) /\ u # v) \/ (b = "free" /\ u = v)
    BY <1>5, <1>8 DEF Added, Removed
  <2>2. SomePosition(manager', Pools, Locks)
    BY <1>4, <2>1 DEF SomePosition
  <2>3. QED
    BY <1>4, <1>8, <2>1, <2>2 DEF Added, ManagerOK, Managed
<1>10. IInv'
  BY <1>1, NextIInv DEF MInv
<1>11. /\ Ownership'
       /\ \A t \in Threads : \A m \in Locks : Owns(t, m)' <=> Owns(t, m)
  BY <1>1, SameOwners DEF vars, threadVars, MInv, Listed
<1>12. CallsOK'
  BY <1>1 DEF MInv, CallsOK, InCall, Listed, vars
<1>13. Service!Retire(v)
  <2>1. UNCHANGED <<OwnerOf, Asking, Toggled>>
    BY <1>1, <1>11, SameOwnerOf, SameCalls
  <2>2. Handed' = Handed \ {v} /\ v \in Handed
    BY <1>1, <1>9 DEF Handed
  <2>3. QED
    BY <2>1, <2>2 DEF Service!Retire, OwnerOf, Handed, Asking, Toggled
<1>14. QED
  BY <1>1, <1>9, <1>10, <1>11, <1>12, <1>13, ServiceSteps DEF MInv

(* A thread in lock_mutex goes on to another place of it. *)
LEMMA CallChange ==
    ASSUME MInv, \A u \in Threads : Listed(u)' <=> Listed(u),
           NEW t \in Threads, call[t] # Outside,
           NEW c \in Calls, c.m = call[t].m, c.relock => c.entry \in Locks,
           call' = [call EXCEPT ![t] = c]
    PROVE  /\ CallsOK'
           /\ call'[t] = c /\ c # Outside
           /\ \A u \in Threads \ {t} : call'[u] = call[u]
<1>1. call \in [Threads -> Calls] /\ InCall(t)
  BY DEF MInv, CallsOK
<1>2. call'[t] = c /\ \A u \in Threads \ {t} : call'[u] = call[u]
  BY <1>1
<1>3. c # Outside
  BY <1>1, ConstantFacts DEF InCall, Outside, Objects
<1>4. call' \in [Threads -> Calls]
  BY <1>1
<1>5. ASSUME NEW u \in Threads, call'[u] # Outside PROVE InCall(u)'
  <2>1. CASE u = t
    BY <1>1, <1>2, <2>1 DEF InCall
  <2>2. CASE u # t
    BY <1>2, <1>5, <2>2 DEF InCall, MInv, CallsOK
  <2>3. QED
    BY <2>1, <2>2
<1>6. QED
  BY <1>2, <1>3, <1>4, <1>5 DEF CallsOK

(* The running thread's call is one that it can be in. *)
LEMMA RunningCall ==
    ASSUME MInv, Running
    PROVE  /\ rthread \in Threads /\ Listed(rthread) /\ pid[rthread] # NULL_PID
           /\ call \in [Threads -> Calls] /\ call[rthread] \in Calls
           /\ call[rthread] # Outside => InCall(rthread)
BY RunningWaitsNot, ConstantFacts DEF MInv, CallsOK, IInv, ListedPids

(* The entry behind a mutex on its queue is a mutex. *)
LEMMA NextOfType ==
    ASSUME MInv, NEW v \in Locks
    PROVE  NextOf(v) \in Locks \cup {Null}
<1>1. manager \in [Pools -> Seq(Locks)] /\ Pools = {"free", "used"}
  BY DEF MInv, ManagerOK, Pools
<1>2. \E x \in Places : EntryAt(manager, x) = v
  <2>1. PICK a \in Pools : \E i \in DOMAIN manager[a] : manager[a][i] = v
    BY DEF MInv, ManagerOK, SomePosition, Holds
  <2>2. PICK i \in DOMAIN manager[a] : manager[a][i] = v
    BY <2>1
  <2>3. <<a, i>> \in Places
    BY <1>1, <2>2 DEF Places, Positions
  <2>4. EntryAt(manager, <<a, i>>) = v
    BY <2>2 DEF EntryAt
  <2>5. QED
    BY <2>3, <2>4
<1> DEFINE x == CHOOSE x \in Places : EntryAt(manager, x) = v
<1>3. x \in Places
  BY <1>2
<1> HIDE DEF x
<1>4. x[1] \in Pools /\ x[2] \in DOMAIN manager[x[1]]
  BY <1>1, <1>3, PositionFacts DEF Places
<1>5. x[2] # Len(manager[x[1]]) => manager[x[1]][x[2] + 1] \in Locks
  <2>1. /\ Len(manager[x[1]]) \in Nat /\ DOMAIN manager[x[1]] = 1 .. Len(manager[x[1]])
        /\ \A i \in DOMAIN manager[x[1]] : manager[x[1]][i] \in Locks
    BY <1>1, <1>4, HoldsIn
  <2>2. QED
    BY <1>4, <2>1
<1>6. NextOf(v) = IF x[2] = Len(manager[x[1]]) THEN Null ELSE manager[x[1]][x[2] + 1]
  BY DEF NextOf, x
<1>7. QED
  BY <1>5, <1>6

LEMMA LockMutexStep ==
    ASSUME MInv, NEW m \in Locks, LockMutex(m)
    PROVE  /\ MInv' /\ [Service!Next]_(Service!vars)
           /\ UNCHANGED vars
           /\ \A t \in Threads : call[t] # Outside => call'[t] = call[t]
<1> DEFINE c == [m |-> m, entry |-> First("used"), relock |-> FALSE]
<1>1. /\ Running /\ call[rthread] = Outside /\ Managed(m) /\ ~ Owns(rthread, m)
      /\ call' = [call EXCEPT ![rthread] = c] /\ UNCHANGED <<vars, manager>>
  BY DEF LockMutex, Idle
<1>2. rthread \in Threads /\ Listed(rthread) /\ call \in [Threads -> Calls]
  BY <1>1, RunningCall
<1>3. c \in Calls
  <2>1. First("used") \in Locks \cup {Null}
    <3>1. manager \in [Pools -> Seq(Locks)] /\ "used" \in Pools
      BY DEF MInv, ManagerOK, Pools
    <3>2. manager["used"] # <<>> => Holds(manager, "used", Head(manager["used"]))
      BY <3>1, HoldsIn
    <3>3. manager["used"] # <<>> => Head(manager["used"]) \in Locks
      BY <3>1, <3>2, HoldsIn
    <3>4. QED
      BY <3>3 DEF First
  <2>2. QED
    BY <2>1 DEF Calls
<1>4. c.m = m /\ c.relock = FALSE
  OBVIOUS
<1> HIDE DEF c
<1>5. CallsOK'
  <2>1. call' \in [Threads -> Calls]
    BY <1>1, <1>2, <1>3
  <2>2. \A t \in Threads : call'[t] = IF t = rthread THEN c ELSE call[t]
    BY <1>1, <1>2
  <2>3. \A t \in Threads : Listed(t)' <=> Listed(t)
    BY <1>1 DEF Listed, vars
  <2>4. \A t \in Threads : call'[t] # Outside => InCall(t)'
    BY <1>1, <1>2, <1>4, <2>2, <2>3 DEF InCall, MInv, CallsOK
  <2>5. QED
    BY <2>1, <2>4 DEF CallsOK
<1>6. IInv'
  BY <1>1, NextIInv DEF MInv
<1>7. /\ Ownership'
      /\ \A t \in Threads : \A v \in Locks : Owns(t, v)' <=> Owns(t, v)
  BY <1>1, SameOwners DEF vars, threadVars, MInv, Listed
<1>8. ManagerOK'
  BY <1>1 DEF MInv, ManagerOK
<1>9. Service!Ask(rthread, m)
  <2>1. UNCHANGED <<Handed, OwnerOf>> /\ m \in Handed /\ OwnerOf[m] # rthread
    BY <1>1, <1>2, <1>7, SameHanded, SameOwnerOf, OwnerIsNot DEF Handed
  <2>2. call[rthread].m = Null /\ call[rthread].relock = FALSE
    BY <1>1 DEF Outside
  <2>3. Asking[rthread] = Null /\ Asking' = [Asking EXCEPT ![rthread] = m] /\ UNCHANGED Toggled
    BY <1>1, <1>2, <1>4, <2>2, CallView
  <2>4. QED
    BY <2>1, <2>3 DEF Service!Ask, OwnerOf, Handed, Asking, Toggled
<1>10. \A t \in Threads : call[t] # Outside => call'[t] = call[t]
  BY <1>1, <1>2
<1>11. QED
  BY <1>1, <1>2, <1>5, <1>6, <1>7, <1>8, <1>9, <1>10, ServiceSteps DEF MInv

(* What a supervisor call on a mutex does; the caller's place in lock_mutex*)
(* is a matter of CallsOK.                                                 *)
LEMMA TakenStep ==
    ASSUME MInv, NEW v \in Locks, SvcLockTaken(v), UNCHANGED manager, CallsOK'
    PROVE  /\ MInv' /\ UNCHANGED Handed
           /\ OwnerOf' = [OwnerOf EXCEPT ![v] = rthread] /\ OwnerOf[v] = Null
<1>1. /\ Ownership'
      /\ \A t \in Threads : \A m \in Locks :
             Owns(t, m)' <=> Owns(t, m) \/ (t = rthread /\ m = v)
      /\ \A t \in Threads : ~ Owns(t, v)
  BY TakenOwners DEF MInv
<1>2. rthread \in Threads
  BY RunningCall DEF SvcLockTaken, AtCall
<1>3. IInv'
  BY LockTakenStep DEF MInv
<1>4. ManagerOK'
  BY DEF MInv, ManagerOK
<1>5. MInv'
  BY <1>1, <1>3, <1>4 DEF MInv
<1>6. QED
  BY <1>1, <1>2, <1>5, OwnerGiven, SameHanded

LEMMA BlockedStep ==
    ASSUME MInv, NEW v \in Locks, SvcLockBlocked(v), UNCHANGED manager, CallsOK'
    PROVE  MInv' /\ UNCHANGED <<Handed, OwnerOf>>
<1>1. /\ Ownership'
      /\ \A t \in Threads : \A m \in Locks : Owns(t, m)' <=> Owns(t, m)
  BY BlockedOwners DEF MInv
<1>2. IInv'
  BY LockBlockedStep DEF MInv
<1>3. ManagerOK'
  BY DEF MInv, ManagerOK
<1>4. QED
  BY <1>1, <1>2, <1>3, SameHanded, SameOwnerOf DEF MInv

LEMMA ReleasedStep ==
    ASSUME MInv, NEW v \in Locks, SvcUnlock(v), Owns(rthread, v), rthread \in Threads,
           UNCHANGED manager, CallsOK'
    PROVE  /\ MInv' /\ UNCHANGED Handed
           /\ OwnerOf' = [OwnerOf EXCEPT ![v] = Null] /\ OwnerOf[v] = rthread
<1>1. /\ Ownership'
      /\ \A t \in Threads : \A m \in Locks : Owns(t, m)' <=> Owns(t, m) /\ m # v
  BY UnlockOwners DEF MInv
<1>2. IInv'
  BY UnlockStep DEF MInv
<1>3. ManagerOK'
  BY DEF MInv, ManagerOK
<1>4. OwnerOf[v] = rthread
  BY OwnerIs DEF MInv
<1>5. QED
  BY <1>1, <1>2, <1>3, <1>4, SameHanded, OwnerGone DEF MInv

(* The first half of a toggle releases a mutex that the caller owns. *)
LEMMA ToggleUnlockStep ==
    ASSUME MInv, NEW v \in Locks, Running, call[rthread] # Outside, ~ call[rthread].relock,
           NextHeld(call[rthread].entry, v), SvcUnlock(v), UNCHANGED manager,
           WalksOn(v, TRUE)
    PROVE  /\ MInv' /\ [Service!Next]_(Service!vars)
           /\ Owns(rthread, v) /\ call'[rthread].relock /\ call'[rthread].entry = v
           /\ call'[rthread] # Outside
           /\ \A u \in Threads \ {rthread} : call'[u] = call[u]
<1> DEFINE c == [m |-> call[rthread].m, entry |-> v, relock |-> TRUE]
<1>1. /\ rthread \in Threads /\ Listed(rthread) /\ pid[rthread] # NULL_PID
      /\ call \in [Threads -> Calls] /\ call[rthread] \in Calls /\ InCall(rthread)
  BY RunningCall
<1>2. lockpid[v] = pid[rthread]
  BY DEF NextHeld, HeldFrom
<1>3. Owns(rthread, v)
  BY <1>1, <1>2 DEF Owns
<1>4. call' = [call EXCEPT ![rthread] = c]
  BY DEF WalksOn
<1>5. c \in Calls /\ c.m = call[rthread].m /\ c.entry = v /\ c.relock
  BY <1>1 DEF Calls
<1>6. \A u \in Threads : Listed(u)' <=> Listed(u)
  BY UnlockOwners DEF MInv
<1> HIDE DEF c
<1>7. /\ CallsOK' /\ \A t : t = rthread => call'[t] = c
      /\ c # Outside
      /\ \A u \in Threads \ {rthread} : call'[u] = call[u]
  BY <1>1, <1>3, <1>4, <1>5, <1>6, CallChange
<1>8. /\ MInv' /\ UNCHANGED Handed
      /\ OwnerOf' = [OwnerOf EXCEPT ![v] = Null] /\ OwnerOf[v] = rthread
  BY <1>1, <1>3, <1>7, ReleasedStep
<1>9. Service!PutDown(rthread, v)
  <2>1. /\ Asking[rthread] = call[rthread].m /\ Toggled[rthread] = Null
        /\ UNCHANGED Asking /\ Toggled' = [Toggled EXCEPT ![rthread] = v]
    BY <1>1, <1>4, <1>5, CallView
  <2>2. Asking[rthread] # Null
    BY <1>1, <2>1, AddressAssumption DEF InCall
  <2>3. QED
    BY <1>8, <2>1, <2>2 DEF Service!PutDown, OwnerOf, Handed, Asking, Toggled
<1>10. QED
  BY <1>1, <1>3, <1>5, <1>7, <1>8, <1>9, ServiceSteps

LEMMA ToggleLockStep ==
    ASSUME MInv, ToggleLock
    PROVE  /\ MInv' /\ [Service!Next]_(Service!vars)
           /\ \A t \in Threads : \A m \in Locks : Owns(t, m) => Owns(t, m)'
           /\ \/ UNCHANGED call
              \/ /\ \A t \in Threads : t = rthread => call'[t] # Outside
                 /\ \A t \in Threads : \A m \in Locks :
                        t = rthread /\ m = call[rthread].entry => Owns(t, m)'
                 /\ \A t \in Threads : t # rthread => call'[t] = call[t]
<1>0. Running /\ call[rthread].relock /\ UNCHANGED manager
  BY DEF ToggleLock
<1>2. call[rthread] # Outside
  BY <1>0 DEF Outside
<1>3. /\ rthread \in Threads /\ call \in [Threads -> Calls] /\ call[rthread] \in Calls
      /\ InCall(rthread) /\ call[rthread].entry \in Locks
  BY <1>0, <1>2, RunningCall DEF InCall
<1>p. PICK v \in Locks : v = call[rthread].entry
  BY <1>3
<1> DEFINE c == [m |-> call[rthread].m, entry |-> NextOf(v), relock |-> FALSE]
<1>1. \/ /\ SvcLockTaken(v)
         /\ WalksOn(NextOf(v), FALSE)
      \/ SvcLockBlocked(v) /\ UNCHANGED call
  BY <1>p DEF ToggleLock
<1>4. CASE /\ SvcLockTaken(v)
           /\ WalksOn(NextOf(v), FALSE)
  <2>1. /\ \A u \in Threads : Listed(u)' <=> Listed(u)
        /\ \A t \in Threads : \A m \in Locks :
               Owns(t, m)' <=> Owns(t, m) \/ (t = rthread /\ m = v)
    BY <1>3, <1>4, TakenOwners DEF MInv
  <2>2. NextOf(v) \in Locks \cup {Null}
    BY NextOfType
  <2>3. call' = [call EXCEPT ![rthread] = c]
    BY <1>4 DEF WalksOn
  <2>4. c \in Calls /\ c.m = call[rthread].m /\ c.relock = FALSE
    BY <1>3, <2>2 DEF Calls
  <2> HIDE DEF c
  <2>5. /\ CallsOK' /\ c # Outside /\ \A t : t = rthread => call'[t] = c
        /\ \A u \in Threads \ {rthread} : call'[u] = call[u]
    BY <1>0, <1>2, <1>3, <2>1, <2>3, <2>4, CallChange
  <2>6. /\ MInv' /\ UNCHANGED Handed
        /\ OwnerOf' = [OwnerOf EXCEPT ![v] = rthread] /\ OwnerOf[v] = Null
    BY <1>0, <1>4, <2>5, TakenStep
  <2>7. Service!TakeUp(rthread, v)
    <3>1. /\ UNCHANGED Asking /\ Toggled[rthread] = v
          /\ Toggled' = [Toggled EXCEPT ![rthread] = Null]
      BY <1>0, <1>p, <1>3, <2>3, <2>4, CallView
    <3>2. QED
      BY <2>6, <3>1 DEF Service!TakeUp, OwnerOf, Handed, Asking, Toggled
  <2>8. \A t \in Threads : t = rthread => Owns(t, v)'
    BY <1>3, <2>1
  <2>9. QED
    BY <1>p, <1>3, <2>1, <2>5, <2>6, <2>7, <2>8, ServiceSteps
<1>5. CASE SvcLockBlocked(v) /\ UNCHANGED call
  <2>1. /\ \A u \in Threads : Listed(u)' <=> Listed(u)
        /\ \A t \in Threads : \A m \in Locks : Owns(t, m)' <=> Owns(t, m)
    BY <1>3, <1>5, BlockedOwners DEF MInv
  <2>2. CallsOK'
    BY <1>0, <1>5, <2>1 DEF MInv, CallsOK, InCall
  <2>3. MInv' /\ UNCHANGED <<Handed, OwnerOf, Asking, Toggled>>
    BY <1>0, <1>5, <2>2, BlockedStep, SameCalls
  <2>4. QED
    BY <1>5, <2>1, <2>3, ServiceStutter
<1>6. QED
  BY <1>1, <1>4, <1>5

LEMMA FinalLockStep ==
    ASSUME MInv, FinalLock
    PROVE  /\ MInv' /\ [Service!Next]_(Service!vars)
           /\ ~ call[rthread].relock
           /\ \A t \in Threads : \A m \in Locks : Owns(t, m) => Owns(t, m)'
           /\ \A t \in Threads : t # rthread => call'[t] = call[t]
           /\ \A t \in Threads : \A m \in Locks :
                  t = rthread /\ call'[t] = Outside /\ m = call[rthread].m => Owns(t, m)'
<1>0. Running /\ call[rthread] # Outside
  BY DEF FinalLock
<1>p. PICK v \in Locks : v = call[rthread].m
  BY <1>0, RunningCall DEF InCall
<1> DEFINE c == [m |-> v, entry |-> Null, relock |-> FALSE]
<1>1. /\ Running /\ call[rthread] # Outside /\ ~ call[rthread].relock /\ UNCHANGED manager
      /\ \/ SvcLockTaken(v) /\ call' = [call EXCEPT ![rthread] = Outside]
         \/ SvcLockBlocked(v) /\ WalksOn(Null, FALSE)
  BY <1>p DEF FinalLock
<1>2. /\ rthread \in Threads /\ call \in [Threads -> Calls] /\ call[rthread] \in Calls
  BY <1>1, RunningCall
<1>3. CASE SvcLockTaken(v) /\ call' = [call EXCEPT ![rthread] = Outside]
  <2>1. /\ \A u \in Threads : Listed(u)' <=> Listed(u)
        /\ \A t \in Threads : \A m \in Locks :
               Owns(t, m)' <=> Owns(t, m) \/ (t = rthread /\ m = v)
    BY <1>2, <1>3, TakenOwners DEF MInv
  <2>2. /\ call' \in [Threads -> Calls]
        /\ \A t \in Threads : call'[t] = IF t = rthread THEN Outside ELSE call[t]
    BY <1>3 DEF MInv, CallsOK, Calls, Outside
  <2>3. CallsOK'
    BY <1>1, <2>1, <2>2 DEF MInv, CallsOK, InCall
  <2>4. /\ MInv' /\ UNCHANGED Handed
        /\ OwnerOf' = [OwnerOf EXCEPT ![v] = rthread] /\ OwnerOf[v] = Null
    BY <1>1, <1>3, <2>3, TakenStep
  <2>5. Service!Acquire(rthread, v)
    <3>1. Outside.m = Null /\ Outside.relock = FALSE
      BY DEF Outside
    <3>2. /\ Asking[rthread] = v /\ Toggled[rthread] = Null
          /\ Asking' = [Asking EXCEPT ![rthread] = Null] /\ UNCHANGED Toggled
      BY <1>1, <1>p, <1>2, <1>3, <3>1, CallView
    <3>3. QED
      BY <2>4, <3>2 DEF Service!Acquire, OwnerOf, Handed, Asking, Toggled
  <2>6. QED
    BY <1>1, <1>p, <1>2, <2>1, <2>2, <2>4, <2>5, ServiceSteps
<1>4. CASE SvcLockBlocked(v) /\ WalksOn(Null, FALSE)
  <2>1. /\ \A u \in Threads : Listed(u)' <=> Listed(u)
        /\ \A t \in Threads : \A m \in Locks : Owns(t, m)' <=> Owns(t, m)
    BY <1>2, <1>4, BlockedOwners DEF MInv
  <2>2. call' = [call EXCEPT ![rthread] = c]
    BY <1>p, <1>4 DEF WalksOn
  <2>3. c \in Calls /\ c.m = call[rthread].m /\ c.relock = FALSE
    BY <1>p, <1>2 DEF Calls
  <2> HIDE DEF c
  <2>4. /\ CallsOK' /\ c # Outside /\ \A t : t = rthread => call'[t] = c
        /\ \A u \in Threads \ {rthread} : call'[u] = call[u]
    BY <1>1, <1>2, <2>1, <2>2, <2>3, CallChange
  <2>5. UNCHANGED <<Asking, Toggled>>
    BY <1>1, <1>2, <2>2, <2>3, CallView
  <2>6. MInv' /\ UNCHANGED Service!vars
    BY <1>1, <1>2, <1>4, <2>4, <2>5, BlockedStep, ServiceStutter
  <2>7. QED
    BY <1>1, <2>1, <2>4, <2>6
<1>5. QED
  BY <1>1, <1>3, <1>4

LEMMA UnlockMutexStep ==
    ASSUME MInv, NEW m \in Locks, UnlockMutex(m)
    PROVE  /\ MInv' /\ [Service!Next]_(Service!vars) /\ UNCHANGED call
           /\ \A t \in Threads : \A v \in Locks :
                  Owns(t, v) /\ call[t] # Outside => Owns(t, v)'
<1>1. /\ Running /\ call[rthread] = Outside /\ Owns(rthread, m) /\ SvcUnlock(m)
      /\ UNCHANGED <<manager, call>>
  BY DEF UnlockMutex, Idle, mutexVars
<1>2. /\ \A u \in Threads : Listed(u)' <=> Listed(u)
      /\ \A t \in Threads : \A v \in Locks : Owns(t, v)' <=> Owns(t, v) /\ v # m
  BY <1>1, UnlockOwners DEF MInv
<1>3. CallsOK'
  BY <1>1, <1>2 DEF MInv, CallsOK, InCall
<1>4. rthread \in Threads
  BY <1>1, RunningCall
<1>5. /\ MInv' /\ UNCHANGED <<Handed, Asking, Toggled>>
      /\ OwnerOf' = [OwnerOf EXCEPT ![m] = Null] /\ OwnerOf[m] = rthread
  BY <1>1, <1>3, <1>4, ReleasedStep, SameCalls
<1>6. Asking[rthread] = Null
  BY <1>1, <1>4 DEF Asking, Outside
<1>7. Service!Release(rthread, m)
  BY <1>5, <1>6 DEF Service!Release, OwnerOf, Handed, Asking, Toggled
<1>8. \A t \in Threads : Owns(t, m) => t = rthread
  BY <1>1, RunningCall DEF MInv, Ownership, OnePid, Owns
<1>9. QED
  BY <1>1, <1>2, <1>4, <1>5, <1>7, <1>8, ServiceSteps

(* The other calls of a thread that is not in lock_mutex. *)
LEMMA OtherStep ==
    ASSUME MInv, UNCHANGED <<manager, call>>,
           \/ UNCHANGED vars
           \/ SvcYield
           \/ call[rthread] = Outside /\ OwnsNone(rthread) /\ Cleanup
           \/ \E arg \in PriorityArgs : PidIsFresh /\ SvcAddThread(arg)
    PROVE  /\ MInv' /\ UNCHANGED Service!vars
           /\ \A t \in Threads : \A m \in Locks : Owns(t, m)' <=> Owns(t, m)
<1>1. IInv'
  BY NextIInv DEF MInv, Next
<1>2. ASSUME Ownership',
             \A t \in Threads : \A m \in Locks : Owns(t, m)' <=> Owns(t, m),
             \A t \in Threads : Listed(t) /\ call[t] # Outside => Listed(t)'
      PROVE  /\ MInv' /\ UNCHANGED Service!vars
             /\ \A t \in Threads : \A m \in Locks : Owns(t, m)' <=> Owns(t, m)
  BY <1>1, <1>2, SameManager, SameHanded, SameOwnerOf, SameCalls, ServiceStutter
<1>3. CASE UNCHANGED vars
  BY <1>2, <1>3, SameOwners DEF vars, threadVars, MInv, Listed
<1>4. CASE SvcYield
  BY <1>2, <1>4, QuietFacts, SameOwners DEF Quiet, SameForLocks, MInv
<1>5. CASE call[rthread] = Outside /\ OwnsNone(rthread) /\ Cleanup
  <2>1. \A t \in Threads : Listed(t)' <=> Listed(t) /\ t # rthread
    BY <1>5, CleanupFacts DEF MInv
  <2>2. /\ Ownership'
        /\ \A t \in Threads : \A m \in Locks : Owns(t, m)' <=> Owns(t, m)
    BY <1>5, CleanupOwners DEF MInv
  <2>3. QED
    BY <1>2, <1>5, <2>1, <2>2
<1>6. ASSUME NEW arg \in PriorityArgs, PidIsFresh, SvcAddThread(arg)
      PROVE  /\ MInv' /\ UNCHANGED Service!vars
             /\ \A t \in Threads : \A m \in Locks : Owns(t, m)' <=> Owns(t, m)
  BY <1>2, <1>6, AddThreadOwners DEF MInv
<1>7. QED
  BY <1>3, <1>4, <1>5, <1>6
-----------------------------------------------------------------------------
(* What KeepsWhatItHeld says of one step and one thread in lock_mutex.     *)
Keeps(t) ==
    \A v \in Locks :
        /\ Owns(t, v) /\ ~ Owns(t, v)' =>
               (call'[t].relock /\ call'[t].entry = v) \/ Recycled(v)
        /\ call[t].relock /\ ~ call'[t].relock /\ call[t].entry = v => Owns(t, v)'
        /\ call'[t] = Outside /\ call[t].m = v => Owns(t, v)'

(* Every step that neither ends a toggle nor the call, nor releases.       *)
LEMMA KeepsSame ==
    ASSUME NEW t \in Threads, call[t] # Outside, call'[t] = call[t],
           \A v \in Locks : Owns(t, v) => Owns(t, v)'
    PROVE  Keeps(t)
BY DEF Keeps

LEMMA NextMInv ==
    ASSUME MInv, [MutexNext]_allVars
    PROVE  /\ MInv' /\ [Service!Next]_(Service!vars)
           /\ \A t \in Threads : call[t] # Outside => Keeps(t)
<1> DEFINE Goal == /\ MInv' /\ [Service!Next]_(Service!vars)
                   /\ \A t \in Threads : call[t] # Outside => Keeps(t)
<1>0. ASSUME CreateMutex PROVE Goal
  <2>1. MInv' /\ [Service!Next]_(Service!vars) /\ UNCHANGED call
    BY <1>0, CreateMutexStep
  <2>2. PICK h \in Locks :
            /\ Recycled(h)
            /\ \A t \in Threads : \A m \in Locks : Owns(t, m)' <=> Owns(t, m) /\ m # h
    BY <1>0, CreateMutexStep
  <2>3. \A t \in Threads : call[t] # Outside => Keeps(t)
    BY <2>1, <2>2 DEF Keeps
  <2>4. QED
    BY <2>1, <2>3
<1>1. ASSUME NEW m \in Locks, DeleteMutex(m) PROVE Goal
  <2>1. MInv' /\ [Service!Next]_(Service!vars) /\ UNCHANGED <<vars, call>>
    BY <1>1, DeleteMutexStep
  <2>2. \A t \in Threads : \A v \in Locks : Owns(t, v) => Owns(t, v)'
    BY <2>1 DEF vars, threadVars, Owns, Listed
  <2>3. QED
    BY <2>1, <2>2, KeepsSame
<1>2. ASSUME NEW m \in Locks, LockMutex(m) PROVE Goal
  <2>1. /\ MInv' /\ [Service!Next]_(Service!vars) /\ UNCHANGED vars
        /\ \A t \in Threads : call[t] # Outside => call'[t] = call[t]
    BY <1>2, LockMutexStep
  <2>2. \A t \in Threads : \A v \in Locks : Owns(t, v) => Owns(t, v)'
    BY <2>1 DEF vars, threadVars, Owns, Listed
  <2>3. QED
    BY <2>1, <2>2, KeepsSame
<1>3. ASSUME NEW m \in Locks, UnlockMutex(m) PROVE Goal
  BY <1>3, UnlockMutexStep, KeepsSame
<1>4. ASSUME UNCHANGED <<manager, call>>,
             \/ UNCHANGED vars
             \/ SvcYield
             \/ call[rthread] = Outside /\ OwnsNone(rthread) /\ Cleanup
             \/ \E arg \in PriorityArgs : PidIsFresh /\ SvcAddThread(arg)
      PROVE  Goal
  <2>1. /\ MInv' /\ UNCHANGED Service!vars
        /\ \A t \in Threads : \A m \in Locks : Owns(t, m)' <=> Owns(t, m)
    BY <1>4, OtherStep
  <2>2. QED
    BY <1>4, <2>1, KeepsSame
<1>5. ASSUME ToggleUnlock PROVE Goal
  <2>1. PICK v \in Locks :
            /\ Running /\ call[rthread] # Outside /\ ~ call[rthread].relock
            /\ NextHeld(call[rthread].entry, v) /\ SvcUnlock(v) /\ UNCHANGED manager
            /\ WalksOn(v, TRUE)
    BY <1>5 DEF ToggleUnlock
  <2>2. /\ MInv' /\ [Service!Next]_(Service!vars)
        /\ Owns(rthread, v) /\ call'[rthread].relock /\ call'[rthread].entry = v
        /\ call'[rthread] # Outside
        /\ \A u \in Threads \ {rthread} : call'[u] = call[u]
    BY <2>1, ToggleUnlockStep
  <2>3. \A t \in Threads : \A m \in Locks : Owns(t, m)' <=> Owns(t, m) /\ m # v
    BY <2>1, UnlockOwners DEF MInv
  <2>4. \A t \in Threads : Owns(t, v) => t = rthread
    BY <2>1, <2>2, RunningCall DEF MInv, Ownership, OnePid, Owns
  <2>5. ASSUME NEW t \in Threads, call[t] # Outside PROVE Keeps(t)
    <3>1. CASE t = rthread
      BY <2>1, <2>2, <2>3, <3>1 DEF Keeps
    <3>2. CASE t # rthread
      BY <2>2, <2>3, <2>4, <2>5, <3>2, KeepsSame
    <3>3. QED
      BY <3>1, <3>2
  <2>6. QED
    BY <2>2, <2>5
<1>6. ASSUME ToggleLock PROVE Goal
  <2>1. /\ MInv' /\ [Service!Next]_(Service!vars)
        /\ \A t \in Threads : \A m \in Locks : Owns(t, m) => Owns(t, m)'
        /\ \/ UNCHANGED call
           \/ /\ \A t \in Threads : t = rthread => call'[t] # Outside
              /\ \A t \in Threads : \A m \in Locks :
                     t = rthread /\ m = call[rthread].entry => Owns(t, m)'
              /\ \A t \in Threads : t # rthread => call'[t] = call[t]
    BY <1>6, ToggleLockStep
  <2>2. ASSUME NEW t \in Threads, call[t] # Outside PROVE Keeps(t)
    <3>1. CASE call'[t] = call[t]
      BY <2>1, <2>2, <3>1, KeepsSame
    <3>2. CASE call'[t] # call[t]
      BY <2>1, <3>2 DEF Keeps
    <3>3. QED
      BY <3>1, <3>2
  <2>3. QED
    BY <2>1, <2>2
<1>7. ASSUME FinalLock PROVE Goal
  <2>1. /\ MInv' /\ [Service!Next]_(Service!vars)
        /\ ~ call[rthread].relock
        /\ \A t \in Threads : \A m \in Locks : Owns(t, m) => Owns(t, m)'
        /\ \A t \in Threads : t # rthread => call'[t] = call[t]
        /\ \A t \in Threads : \A m \in Locks :
               t = rthread /\ call'[t] = Outside /\ m = call[rthread].m => Owns(t, m)'
    BY <1>7, FinalLockStep
  <2>2. ASSUME NEW t \in Threads, call[t] # Outside PROVE Keeps(t)
    <3>1. CASE t # rthread
      BY <2>1, <2>2, <3>1, KeepsSame
    <3>2. CASE t = rthread
      BY <2>1, <3>2 DEF Keeps
    <3>3. QED
      BY <3>1, <3>2
  <2>3. QED
    BY <2>1, <2>2
<1> HIDE DEF Goal
<1>8. Goal
  BY <1>0, <1>1, <1>2, <1>3, <1>4, <1>5, <1>6, <1>7
     DEF MutexNext, MutexStep, Idle, mutexVars, allVars
<1>9. QED
  BY <1>8 DEF Goal

(* Every step but that of create_mutex keeps the wake-ups. *)
LEMMA NextStranded ==
    ASSUME MInv, [MutexNext]_allVars
    PROVE  \A m \in Locks : Stranded(m)' => Stranded(m) \/ Recycled(m)
<1>1. \A m \in Locks : (Stranded(m) <=> ~ WakeUpOf(m)) /\ (Stranded(m)' <=> ~ WakeUpOf(m)')
  BY DEF Stranded, WakeUpOf
<1>2. CASE CreateMutex
  <2>1. PICK h \in Locks :
            /\ Recycled(h) /\ UNCHANGED <<queue, mptr, retry>>
            /\ \A m \in Locks : m # h => lockpid'[m] = lockpid[m]
    BY <1>2, CreateMutexStep
  <2>2. \A m \in Locks : m # h => (Stranded(m)' <=> Stranded(m))
    BY <2>1 DEF Stranded, Waits, IsReady
  <2>3. QED
    BY <2>1, <2>2
<1>3. CASE [Next]_vars
  BY <1>1, <1>3, NextIInv DEF MInv, WakeUpsKept
<1>4. [MutexNext]_allVars => CreateMutex \/ [Next]_vars
  <2>1. \A m \in Locks : LockMutex(m) \/ DeleteMutex(m) => UNCHANGED vars
    BY DEF LockMutex, DeleteMutex
  <2>2. \A m \in Locks : UnlockMutex(m) => Next
    BY DEF UnlockMutex, Next
  <2>3. ToggleUnlock => Next
    BY DEF ToggleUnlock, Next
  <2>4. ToggleLock => Next
    <3>1. ASSUME ToggleLock PROVE Next
      <4>1. call[rthread].entry \in Locks
        BY <3>1, RunningCall DEF ToggleLock, InCall, Outside
      <4>2. QED
        BY <3>1, <4>1 DEF ToggleLock, Next
    <3>2. QED
      BY <3>1
  <2>5. FinalLock => Next
    <3>1. ASSUME FinalLock PROVE Next
      <4>1. call[rthread].m \in Locks
        BY <3>1, RunningCall DEF FinalLock, InCall
      <4>2. QED
        BY <3>1, <4>1 DEF FinalLock, Next
    <3>2. QED
      BY <3>1
  <2>6. Cleanup \/ SvcYield \/ (\E arg \in PriorityArgs : SvcAddThread(arg)) => Next
    BY DEF Next
  <2>7. UNCHANGED allVars => UNCHANGED vars
    BY DEF allVars
  <2>8. QED
    BY <2>1, <2>2, <2>3, <2>4, <2>5, <2>6, <2>7 DEF MutexNext, MutexStep
<1>5. QED
  BY <1>2, <1>3, <1>4

LEMMA MutexInvariant == MutexSpec => []MInv
<1>1. MInv /\ [MutexNext]_allVars => MInv'
  BY NextMInv
<1>2. QED
  BY <1>1, InitMInv, PTL DEF MutexSpec

(* Whatever lock_mutex unlocks and locks again on its way, and whatever    *)
(* create_mutex and delete_mutex recycle, in use or not, the mutexes behave*)
(* as a set of resources with at most one owner each.                      *)
THEOREM MutexesImplementService == MutexSpec => ImplementsService
<1>1. MutexInit => Service!Init
  BY InitMInv
<1>2. MInv /\ [MutexNext]_allVars => [Service!Next]_(Service!vars)
  BY NextMInv
<1>3. QED
  BY <1>1, <1>2, MutexInvariant, PTL DEF MutexSpec, ImplementsService, Service!Spec

(* A thread that calls lock_mutex gets back every mutex that the toggles   *)
(* of the call release, although others may take it in between, and owns   *)
(* the one it asked for when the call returns; it loses none otherwise but *)
(* by create_mutex handing out again one that was deleted.                 *)
THEOREM TogglesKeepWhatIsHeld == MutexSpec => KeepsWhatItHeld
<1>1. MInv /\ [MutexNext]_allVars =>
          [\A t \in Threads : call[t] # Outside =>
              \A v \in Locks :
                  /\ Owns(t, v) /\ ~ Owns(t, v)' =>
                         (call'[t].relock /\ call'[t].entry = v) \/ Recycled(v)
                  /\ call[t].relock /\ ~ call'[t].relock /\ call[t].entry = v => Owns(t, v)'
                  /\ call'[t] = Outside /\ call[t].m = v => Owns(t, v)']_allVars
  BY NextMInv DEF Keeps
<1>2. QED
  BY <1>1, MutexInvariant, PTL DEF MutexSpec, KeepsWhatItHeld

(* No lock, toggle, unlock or deletion leaves the waiters of a free mutex  *)
(* without a thread that is about to lock it; only create_mutex does.      *)
THEOREM OnlyRecyclingStrands == MutexSpec => StrandedByRecycling
<1>1. MInv /\ [MutexNext]_allVars =>
          [\A m \in Locks : Stranded(m)' => Stranded(m) \/ Recycled(m)]_allVars
  BY NextStranded
<1>2. QED
  BY <1>1, MutexInvariant, PTL DEF MutexSpec, StrandedByRecycling
=============================================================================
