---------------------------- MODULE ThreadQueues ----------------------------
(***************************************************************************)
(* The queues of kernel/lib/queue.c, seen as sequences of entries.  A      *)
(* family of queues is a function q from queue names to sequences; every   *)
(* operator returns the family after the C function has run.  An entry is  *)
(* identified with its value, because thread_entries[i].value is threads[i]*)
(* from init_scheduler on and is never assigned again.                     *)
(*                                                                         *)
(* A position <<a, i>> is the i-th entry of queue a.  The C code names it  *)
(* by the entry before it (find_pid and its siblings return prev), which   *)
(* is what remove_next_from_queue needs.                                   *)
(***************************************************************************)
EXTENDS SequencesExt, Integers

(* The entry e becomes the last one of a. *)
push_to_queue(e, q, a) == [q EXCEPT ![a] = Append(@, e)]

(* The entry e becomes the first one of a. *)
prepend_to_queue(e, q, a) == [q EXCEPT ![a] = Cons(e, @)]

(* The first entry of a leaves it; an empty queue is left alone (NULL). *)
pop_from_queue(q, a) == [q EXCEPT ![a] = IF @ = <<>> THEN @ ELSE Tail(@)]

(* The entry at position x leaves its queue. *)
remove_next_from_queue(q, x) == [q EXCEPT ![x[1]] = RemoveAt(@, x[2])]

(* Where the entries of the queues A stand, and who stands there. *)
Positions(q, A) == UNION {{<<a, i>> : i \in DOMAIN q[a]} : a \in A}
EntryAt(q, x) == q[x[1]][x[2]]
Holds(q, a, e) == \E i \in DOMAIN q[a] : q[a][i] = e

(* t stands before u in the queue a. *)
AheadIn(q, a, t, u) ==
    \E i, j \in DOMAIN q[a] : i < j /\ q[a][i] = t /\ q[a][j] = u

(* The pairs of calls the scheduler is made of. *)
(* Pop the head of a and push it at the end of b, if a has an entry. *)
MoveHead(q, a, b) ==
    IF q[a] = <<>> THEN q ELSE push_to_queue(Head(q[a]), pop_from_queue(q, a), b)

(* Pop the head of a, which has one, and prepend it to b. *)
MoveHeadToFront(q, a, b) ==
    prepend_to_queue(Head(q[a]), pop_from_queue(q, a), b)

(* Remove the entry at x and push it at the end of b.                      *)
(* Mutant: the entry is pushed and not removed.                            *)
MoveFromKept(q, x, b) == push_to_queue(EntryAt(q, x), q, b)

MoveFrom(q, x, b) ==
    push_to_queue(EntryAt(q, x), remove_next_from_queue(q, x), b)

(***************************************************************************)
(* A family of queues is a partition of the entries E when every entry has *)
(* exactly one position: it is in some queue, and no two positions hold it.*)
(***************************************************************************)
OnePosition(q, A) ==
    \A a, b \in A : \A i \in DOMAIN q[a], j \in DOMAIN q[b] :
        q[a][i] = q[b][j] => a = b /\ i = j
SomePosition(q, A, E) == \A e \in E : \E a \in A : Holds(q, a, e)
=============================================================================
