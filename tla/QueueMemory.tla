---------------------------- MODULE QueueMemory -----------------------------
(***************************************************************************)
(* The pointers of kernel/lib/queue.c: the next fields of all entries are  *)
(* a memory m, a function from nodes to nodes.  A queue a is a start entry *)
(* and an end entry; the entries in between are linked from the one to the *)
(* other, and the end entry's next points back at the last of them.        *)
(***************************************************************************)
EXTENDS ThreadQueues

(* A pointer carries the entry_type of what it points at. *)
Start(a)  == <<"start", a>>
End(a)    == <<"end", a>>
Entry(i)  == <<"value", i>>
entry_type(n) == n[1]

(* push_to_queue and pop_from_queue on the memory; an empty queue is left  *)
(* alone by the latter.                                                    *)
pushed(m, e, a) == [[m EXCEPT ![m[End(a)]] = e] EXCEPT ![End(a)] = e, ![e] = End(a)]

popped(m, a) ==
    LET e == m[Start(a)] IN
    IF entry_type(e) = "end" THEN m
    ELSE [m EXCEPT ![Start(a)] = m[e],
                   ![End(a)] = IF entry_type(m[e]) = "end" THEN Start(a) ELSE @]

(* The memory represents the sequence s of entries as the queue a: from    *)
(* the start entry through s in order to the queue's own end entry, which  *)
(* points back at the last one, as push_to_queue needs.                    *)
LinkedAs(m, s, a) ==
    LET n == Len(s) IN
    /\ m[Start(a)] = IF n = 0 THEN End(a) ELSE s[1]
    /\ \A i \in 1 .. n : m[s[i]] = IF i = n THEN End(a) ELSE s[i + 1]
    /\ m[End(a)] = IF n = 0 THEN Start(a) ELSE s[n]
=============================================================================
