---------------------------- MODULE LinkedQueues ----------------------------
(***************************************************************************)
(* The queues of kernel/lib/queue.c with their pointers (QueueMemory).     *)
(* next is the memory.  queue is what the callers mean by it, kept by the  *)
(* sequence operators of ThreadQueues next to each call; Linked says that  *)
(* the memory is always a representation of it, so that Scheduler may      *)
(* speak of sequences.                                                     *)
(*                                                                         *)
(* The callers' discipline, which Scheduler keeps: only an entry that is   *)
(* on no queue is pushed or prepended, and the argument of                 *)
(* remove_next_from_queue is on a queue.  An entry that left a queue keeps *)
(* its old next pointer.                                                   *)
(***************************************************************************)
EXTENDS QueueMemory, Integers

CONSTANTS
    Queues,         \* the struct Queue objects
    MAX_ENTRIES,    \* the number of entries of the pool
    FreeQueue       \* the queue that holds the whole pool at first

ASSUME EntriesAssumption == MAX_ENTRIES \in Nat \ {0}
ASSUME FreeQueueAssumption == FreeQueue \in Queues

NullEntry == <<"null", 0>>
Entries   == {Entry(i) : i \in 1 .. MAX_ENTRIES}
Nodes     == Entries \cup {Start(a) : a \in Queues} \cup {End(a) : a \in Queues}

VARIABLES
    next,       \* the next field of every entry
    queue,      \* the queues as the callers see them
    loose       \* the entries that are on no queue
vars == <<next, queue, loose>>

(* init_scheduler (and mutex_init, which has two queues). *)
Init ==
    /\ next = [n \in Nodes |->
                 CASE entry_type(n) = "value" ->
                          IF n[2] = MAX_ENTRIES THEN End(FreeQueue) ELSE Entry(n[2] + 1)
                   [] n = Start(FreeQueue)    -> Entry(1)
                   [] n = End(FreeQueue)      -> Entry(MAX_ENTRIES)
                   [] OTHER -> IF entry_type(n) = "start" THEN End(n[2]) ELSE Start(n[2])]
    /\ queue = [a \in Queues |->
                  IF a = FreeQueue THEN [i \in 1 .. MAX_ENTRIES |-> Entry(i)] ELSE <<>>]
    /\ loose = {}

Push(e, a) ==
    /\ e \in loose
    /\ next' = pushed(next, e, a)
    /\ queue' = push_to_queue(e, queue, a)
    /\ loose' = loose \ {e}

(* Mutant: the first entry of an empty queue is not made its last one. *)
PrependNoLast(e, a) ==
    /\ e \in loose
    /\ next' = [next EXCEPT ![e] = next[Start(a)], ![Start(a)] = e]
    /\ queue' = prepend_to_queue(e, queue, a)
    /\ loose' = loose \ {e}

Prepend(e, a) ==
    /\ e \in loose
    /\ next' = [next EXCEPT ![e] = next[Start(a)],
                            ![Start(a)] = e,
                            ![End(a)] = IF entry_type(next[Start(a)]) = "end" THEN e ELSE @]
    /\ queue' = prepend_to_queue(e, queue, a)
    /\ loose' = loose \ {e}

Pop(a) ==
    LET e == next[Start(a)] IN
    /\ next' = popped(next, a)
    /\ queue' = pop_from_queue(queue, a)
    /\ loose' = IF entry_type(e) = "end" THEN loose ELSE loose \cup {e}

(* remove_next_from_queue(prev), where prev is what find_pid, find_value   *)
(* and their siblings return: the entry before position i of a, or, when a *)
(* caller asks for more than there is, the last one.                       *)
Before(a, i) == IF i = 1 THEN Start(a) ELSE queue[a][i - 1]

(* Mutant: the end entry goes on pointing at the removed one. *)
RemoveNextNoLast(a, i) ==
    LET prev   == Before(a, i)
        remove == next[prev]
    IN IF entry_type(remove) # "value"
       THEN UNCHANGED vars
       ELSE /\ next' = [next EXCEPT ![prev] = next[remove]]
            /\ queue' = remove_next_from_queue(queue, <<a, i>>)
            /\ loose' = loose \cup {remove}

RemoveNext(a, i) ==
    LET prev   == Before(a, i)
        remove == next[prev]
        n      == next[remove]
    IN IF entry_type(remove) # "value"
       THEN UNCHANGED vars
       ELSE /\ next' = [[next EXCEPT ![prev] = n] EXCEPT
                            ![n] = IF entry_type(n) = "end" THEN prev ELSE @]
            /\ queue' = remove_next_from_queue(queue, <<a, i>>)
            /\ loose' = loose \cup {remove}

Next ==
    \E a \in Queues :
        \/ \E e \in Entries : Push(e, a) \/ Prepend(e, a)
        \/ Pop(a)
        \/ \E i \in 1 .. Len(queue[a]) + 1 : RemoveNext(a, i)

Spec == Init /\ [][Next]_vars
-----------------------------------------------------------------------------
(* find_value: the entries that its loop visits, from the start entry on,  *)
(* and the one before the entry whose value it looks for.                  *)
Visited(a) ==
    LET visit[k \in 0 .. MAX_ENTRIES + 1] ==
            IF k = 0 THEN Start(a)
            ELSE IF entry_type(visit[k - 1]) = "end" THEN visit[k - 1]
                                                     ELSE next[visit[k - 1]]
    IN visit

(* Mutant: the entry itself is returned. *)
find_value_entry(e, a) ==
    LET hits == {k \in 1 .. MAX_ENTRIES : Visited(a)[k] = e}
    IN IF hits = {} THEN NullEntry ELSE Visited(a)[Min(hits)]

find_value(e, a) ==
    LET visited == Visited(a)
        hits    == {k \in 1 .. MAX_ENTRIES : visited[k] = e}
    IN IF hits = {} THEN NullEntry ELSE visited[Min(hits) - 1]
-----------------------------------------------------------------------------
(* The cells of the memory point at cells, and the queues hold entries. *)
TypeOK ==
    /\ next \in [Nodes -> Nodes]
    /\ queue \in [Queues -> Seq(Entries)]
    /\ loose \in SUBSET Entries

(* The memory represents the sequences.  pop, prepend and remove_next each *)
(* keep the end entry's pointer back by a test of their own.               *)
Linked == \A a \in Queues : LinkedAs(next, queue[a], a)

(* No entry is on two queues, or twice on one, and those on none are the   *)
(* ones in the callers' hands.                                             *)
EntriesConserved ==
    /\ OnePosition(queue, Queues)
    /\ \A e \in Entries : e \in loose <=> \A a \in Queues : ~ Holds(queue, a, e)

(* find_value finds a value exactly when its entry is on that queue, and   *)
(* returns the entry before it, which remove_next_from_queue can be given. *)
FindsWhatIsThere ==
    \A a \in Queues : \A e \in Entries :
        /\ Holds(queue, a, e) => \E i \in DOMAIN queue[a] :
               queue[a][i] = e /\ find_value(e, a) = Before(a, i)
        /\ ~ Holds(queue, a, e) => find_value(e, a) = NullEntry
=============================================================================
