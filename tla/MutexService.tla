---------------------------- MODULE MutexService ----------------------------
(***************************************************************************)
(* What the mutexes of kernel/util/mutex.c promise their users, without    *)
(* queues, priorities or waiting: mutexes with at most one owner each.  A  *)
(* user asks for a managed mutex, and in the end acquires it when nobody   *)
(* owns it; until then it may put down mutexes that it owns, one at a time,*)
(* and takes each up again before anything else.  A mutex may be retired   *)
(* at any time, with its owner; when it is created again it is free.       *)
(***************************************************************************)
CONSTANTS Users, Mutexes, Nobody

VARIABLES
    managed,        \* the mutexes that create_mutex has handed out
    owner,          \* who owns each mutex
    asking,         \* what each user has asked for and not got, or Nobody
    toggled         \* what each user has put down meanwhile, or Nobody

vars == <<managed, owner, asking, toggled>>

Init ==
    /\ managed = {} /\ owner = [m \in Mutexes |-> Nobody]
    /\ asking = [u \in Users |-> Nobody] /\ toggled = [u \in Users |-> Nobody]

Create(m) ==
    /\ m \notin managed
    /\ managed' = managed \cup {m}
    /\ owner' = [owner EXCEPT ![m] = Nobody]
    /\ UNCHANGED <<asking, toggled>>

Retire(m) ==
    /\ m \in managed
    /\ managed' = managed \ {m}
    /\ UNCHANGED <<owner, asking, toggled>>

Ask(u, m) ==
    /\ asking[u] = Nobody /\ m \in managed /\ owner[m] # u
    /\ asking' = [asking EXCEPT ![u] = m]
    /\ UNCHANGED <<managed, owner, toggled>>

PutDown(u, m) ==
    /\ asking[u] # Nobody /\ toggled[u] = Nobody /\ owner[m] = u
    /\ toggled' = [toggled EXCEPT ![u] = m]
    /\ owner' = [owner EXCEPT ![m] = Nobody]
    /\ UNCHANGED <<managed, asking>>

TakeUp(u, m) ==
    /\ toggled[u] = m /\ owner[m] = Nobody
    /\ toggled' = [toggled EXCEPT ![u] = Nobody]
    /\ owner' = [owner EXCEPT ![m] = u]
    /\ UNCHANGED <<managed, asking>>

Acquire(u, m) ==
    /\ asking[u] = m /\ toggled[u] = Nobody /\ owner[m] = Nobody
    /\ asking' = [asking EXCEPT ![u] = Nobody]
    /\ owner' = [owner EXCEPT ![m] = u]
    /\ UNCHANGED <<managed, toggled>>

Release(u, m) ==
    /\ asking[u] = Nobody /\ owner[m] = u
    /\ owner' = [owner EXCEPT ![m] = Nobody]
    /\ UNCHANGED <<managed, asking, toggled>>

Next ==
    \E m \in Mutexes :
        \/ Create(m) \/ Retire(m)
        \/ \E u \in Users : \/ Ask(u, m) \/ PutDown(u, m) \/ TakeUp(u, m)
                             \/ Acquire(u, m) \/ Release(u, m)

Spec == Init /\ [][Next]_vars
=============================================================================
