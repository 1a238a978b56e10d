------------------------- MODULE LinkedQueuesProofs -------------------------
(***************************************************************************)
(* The pointers of queue.c represent sequences, for any number of queues   *)
(* and entries.                                                            *)
(***************************************************************************)
EXTENDS LinkedQueues, ThreadQueuesProofs, FiniteSetTheorems

IInv == TypeOK /\ Linked /\ EntriesConserved
-----------------------------------------------------------------------------
(* Start, end and value entries are different places in memory. *)
LEMMA NodeFacts ==
    /\ \A a \in Queues : /\ Start(a) \in Nodes /\ End(a) \in Nodes
                         /\ Start(a) \notin Entries /\ End(a) \notin Entries
                         /\ entry_type(Start(a)) = "start" /\ entry_type(End(a)) = "end"
    /\ \A a, b \in Queues : /\ Start(a) # End(b)
                            /\ Start(a) = Start(b) => a = b
                            /\ End(a) = End(b) => a = b
    /\ \A e \in Entries : e \in Nodes /\ entry_type(e) = "value"
    /\ "start" # "end" /\ "start" # "value" /\ "end" # "value"
BY DEF Start, End, Nodes, Entries, Entry, entry_type

(* The first and the last pointers of a queue. *)
LEMMA EndFacts ==
    ASSUME TypeOK, Linked, NEW a \in Queues
    PROVE  /\ Len(queue[a]) \in Nat /\ DOMAIN queue[a] = 1 .. Len(queue[a])
           /\ \A i \in 1 .. Len(queue[a]) : queue[a][i] \in Entries
           /\ queue[a] = <<>> <=> Len(queue[a]) = 0
           /\ next[Start(a)] = IF Len(queue[a]) = 0 THEN End(a) ELSE queue[a][1]
           /\ \A i \in 1 .. Len(queue[a]) :
                  next[queue[a][i]] = IF i = Len(queue[a]) THEN End(a) ELSE queue[a][i + 1]
           /\ next[End(a)] = IF Len(queue[a]) = 0 THEN Start(a) ELSE queue[a][Len(queue[a])]
<1>1. /\ Len(queue[a]) \in Nat /\ DOMAIN queue[a] = 1 .. Len(queue[a])
      /\ \A i \in 1 .. Len(queue[a]) : queue[a][i] \in Entries
  BY HoldsIn DEF TypeOK
<1>2. queue[a] = <<>> <=> Len(queue[a]) = 0
  BY EmptySeq DEF TypeOK
<1>3. QED
  BY <1>1, <1>2 DEF Linked, LinkedAs

(* A queue whose sequence and whose pointers are as before is linked. *)
LEMMA LinkedSame ==
    ASSUME TypeOK, Linked, NEW b \in Queues, queue'[b] = queue[b],
           next'[Start(b)] = next[Start(b)], next'[End(b)] = next[End(b)],
           \A i \in 1 .. Len(queue[b]) : next'[queue[b][i]] = next[queue[b][i]]
    PROVE  LinkedAs(next, queue[b], b)'
BY EndFacts DEF LinkedAs

(* Where a loose entry is not. *)
LEMMA LooseFacts ==
    ASSUME IInv, NEW e \in loose
    PROVE  /\ e \in Entries
           /\ \A b \in Queues : ~ Holds(queue, b, e)
           /\ \A b \in Queues : \A i \in DOMAIN queue[b] : queue[b][i] # e
BY DEF IInv, TypeOK, EntriesConserved, Holds
-----------------------------------------------------------------------------
LEMMA PushStep ==
    ASSUME IInv, NEW a \in Queues, NEW e \in Entries, Push(e, a)
    PROVE  IInv'
<1> DEFINE n == Len(queue[a])
           l == next[End(a)]
<1>1. e \in loose /\ \A b \in Queues : ~ Holds(queue, b, e)
  BY LooseFacts DEF Push
<1>2. Added(queue, queue', Queues, Entries, a, e)
  BY <1>1, PushFacts DEF IInv, TypeOK, EntriesConserved, Push
<1>3. /\ queue'[a] = Append(queue[a], e) /\ \A b \in Queues \ {a} : queue'[b] = queue[b]
      /\ queue' \in [Queues -> Seq(Entries)]
  BY <1>2 DEF Added, Push, push_to_queue, IInv, TypeOK
<1>4. /\ n \in Nat /\ Len(queue'[a]) = n + 1 /\ queue'[a][n + 1] = e
      /\ \A i \in 1 .. n : queue'[a][i] = queue[a][i]
  BY <1>3, EndFacts, AppendProperties DEF IInv, TypeOK
<1>5. /\ l = IF n = 0 THEN Start(a) ELSE queue[a][n]
      /\ l \in Nodes /\ e # l /\ l # End(a)
  BY <1>1, EndFacts, NodeFacts, LooseFacts DEF IInv
<1>6. /\ next' \in [Nodes -> Nodes]
      /\ next'[l] = e /\ next'[End(a)] = e /\ next'[e] = End(a)
      /\ \A x \in Nodes : x # l /\ x # End(a) /\ x # e => next'[x] = next[x]
  BY <1>5, NodeFacts DEF Push, pushed, IInv, TypeOK
<1> HIDE DEF n, l
<1>7. LinkedAs(next, queue[a], a)'
  <2>1. next'[Start(a)] = queue'[a][1]
    BY <1>4, <1>5, <1>6, EndFacts, NodeFacts DEF IInv, n
  <2>2. ASSUME NEW i \in 1 .. n + 1
        PROVE  next'[queue'[a][i]] = IF i = n + 1 THEN End(a) ELSE queue'[a][i + 1]
    <3>1. CASE i = n + 1
      BY <1>4, <1>6, <3>1
    <3>2. CASE i = n
      BY <1>4, <1>5, <1>6, <2>2, <3>2
    <3>3. CASE i \in 1 .. n - 1
      <4>1. queue'[a][i] = queue[a][i] /\ queue'[a][i + 1] = queue[a][i + 1]
        BY <1>4, <3>3
      <4>2. queue[a][i] # l
        BY <1>4, <1>5, <3>3, EndFacts DEF IInv, EntriesConserved, OnePosition, n
      <4>3. queue[a][i] \in Entries /\ queue[a][i] # e
        BY <1>1, <1>4, <3>3, EndFacts, LooseFacts DEF IInv, n
      <4>4. next[queue[a][i]] = queue[a][i + 1]
        BY <1>4, <3>3, EndFacts DEF IInv, n
      <4>5. QED
        BY <1>4, <1>6, <3>3, <4>1, <4>2, <4>3, <4>4, NodeFacts
    <3>4. QED
      BY <1>4, <2>2, <3>1, <3>2, <3>3
  <2>3. QED
    BY <1>4, <1>6, <2>1, <2>2 DEF LinkedAs
<1>8. ASSUME NEW b \in Queues, b # a
      PROVE  LinkedAs(next, queue[b], b)'
  <2>1. /\ Start(b) \in Nodes /\ End(b) \in Nodes /\ Start(b) # End(a) /\ End(b) # End(a)
        /\ Start(b) # e /\ End(b) # e /\ Start(b) # l /\ End(b) # l
    BY <1>4, <1>5, <1>8, EndFacts, NodeFacts DEF IInv, n
  <2>2. ASSUME NEW i \in 1 .. Len(queue[b])
        PROVE  next'[queue[b][i]] = next[queue[b][i]]
    <3>1. /\ queue[b][i] \in Entries /\ queue[b][i] # e /\ queue[b][i] # End(a)
          /\ i \in DOMAIN queue[b]
      BY <1>1, EndFacts, LooseFacts, NodeFacts DEF IInv
    <3>2. queue[b][i] # l
      <4>1. CASE n = 0
        BY <1>5, <3>1, <4>1, NodeFacts
      <4>2. CASE n # 0
        <5>1. n \in DOMAIN queue[a]
          BY <1>4, <4>2, EndFacts DEF IInv, n
        <5>2. QED
          BY <1>5, <1>8, <3>1, <4>2, <5>1 DEF IInv, EntriesConserved, OnePosition
      <4>3. QED
        BY <4>1, <4>2
    <3>3. QED
      BY <1>6, <3>1, <3>2, NodeFacts
  <2>3. QED
    BY <1>3, <1>6, <1>8, <2>1, <2>2, LinkedSame DEF IInv
<1>9. EntriesConserved'
  <2>1. \A x \in Entries : x \in loose' <=> x \in loose /\ x # e
    BY DEF Push
  <2>2. QED
    BY <1>2, <2>1 DEF IInv, EntriesConserved, Added
<1>10. loose' \in SUBSET Entries
  BY DEF IInv, TypeOK, Push
<1>11. QED
  BY <1>3, <1>6, <1>7, <1>8, <1>9, <1>10 DEF IInv, TypeOK, Linked

LEMMA PrependStep ==
    ASSUME IInv, NEW a \in Queues, NEW e \in Entries, Prepend(e, a)
    PROVE  IInv'
<1> DEFINE n == Len(queue[a])
           f == next[Start(a)]
<1>1. e \in loose /\ \A b \in Queues : ~ Holds(queue, b, e)
  BY LooseFacts DEF Prepend
<1>2. Added(queue, queue', Queues, Entries, a, e)
  BY <1>1, PrependFacts DEF IInv, TypeOK, EntriesConserved, Prepend
<1>3. /\ queue'[a] = Cons(e, queue[a]) /\ \A b \in Queues \ {a} : queue'[b] = queue[b]
      /\ queue' \in [Queues -> Seq(Entries)]
  BY <1>2 DEF Added, Prepend, prepend_to_queue, IInv, TypeOK
<1>4. /\ n \in Nat /\ Len(queue'[a]) = n + 1 /\ queue'[a][1] = e
      /\ \A i \in 1 .. n : queue'[a][i + 1] = queue[a][i]
  <2>1. queue[a] \in Seq(Entries) /\ n \in Nat
    BY EndFacts DEF IInv, TypeOK
  <2>2. /\ Len(<<e>> \o queue[a]) = 1 + n
        /\ \A k \in 1 .. 1 + n :
               (<<e>> \o queue[a])[k] = IF k <= 1 THEN <<e>>[k] ELSE queue[a][k - 1]
    BY <2>1, ConcatProperties, <<e>> \in Seq(Entries), Len(<<e>>) = 1
  <2>3. queue'[a] = <<e>> \o queue[a]
    BY <1>3 DEF Cons
  <2> HIDE DEF n
  <2>4. QED
    BY <2>1, <2>2, <2>3
<1>5. /\ f = IF n = 0 THEN End(a) ELSE queue[a][1]
      /\ entry_type(f) = "end" <=> n = 0
  BY <1>4, EndFacts, NodeFacts DEF IInv
<1>6. /\ next' \in [Nodes -> Nodes]
      /\ next'[Start(a)] = e /\ next'[e] = f
      /\ next'[End(a)] = IF n = 0 THEN e ELSE next[End(a)]
      /\ \A x \in Nodes : x # Start(a) /\ x # End(a) /\ x # e => next'[x] = next[x]
  BY <1>5, NodeFacts DEF Prepend, IInv, TypeOK
<1> HIDE DEF n, f
<1>7. LinkedAs(next, queue[a], a)'
  <2>1. ASSUME NEW i \in 1 .. n + 1
        PROVE  next'[queue'[a][i]] = IF i = n + 1 THEN End(a) ELSE queue'[a][i + 1]
    <3>1. CASE i = 1
      BY <1>4, <1>5, <1>6, <3>1
    <3>2. CASE i \in 2 .. n + 1
      <4>1. i - 1 \in 1 .. n /\ queue'[a][i] = queue[a][i - 1]
        BY <1>4, <3>2
      <4>2. next[queue[a][i - 1]] = IF i - 1 = n THEN End(a) ELSE queue[a][i]
        BY <1>4, <4>1, EndFacts DEF IInv, n
      <4>3. /\ queue[a][i - 1] \in Entries /\ queue[a][i - 1] # e
            /\ queue[a][i - 1] # Start(a) /\ queue[a][i - 1] # End(a)
        BY <1>1, <4>1, EndFacts, LooseFacts, NodeFacts DEF IInv, n
      <4>4. i # n + 1 => queue'[a][i + 1] = queue[a][i]
        BY <1>4, <3>2
      <4>5. QED
        BY <1>4, <1>6, <3>2, <4>1, <4>2, <4>3, <4>4, NodeFacts
    <3>3. QED
      BY <1>4, <2>1, <3>1, <3>2
  <2>2. next'[End(a)] = queue'[a][n + 1]
    <3>1. CASE n = 0
      BY <1>4, <1>6, <3>1
    <3>2. CASE n # 0
      BY <1>4, <1>6, <3>2, EndFacts DEF IInv, n
    <3>3. QED
      BY <3>1, <3>2
  <2>3. QED
    BY <1>4, <1>6, <2>1, <2>2 DEF LinkedAs
<1>8. ASSUME NEW b \in Queues, b # a
      PROVE  LinkedAs(next, queue[b], b)'
  <2>1. /\ Start(b) \in Nodes /\ End(b) \in Nodes /\ Start(b) # End(a) /\ End(b) # End(a)
        /\ Start(b) # e /\ End(b) # e /\ Start(b) # Start(a) /\ End(b) # Start(a)
    BY <1>8, NodeFacts
  <2>2. ASSUME NEW i \in 1 .. Len(queue[b])
        PROVE  next'[queue[b][i]] = next[queue[b][i]]
    BY <1>1, <1>6, EndFacts, LooseFacts, NodeFacts DEF IInv
  <2>3. QED
    BY <1>3, <1>6, <1>8, <2>1, <2>2, LinkedSame DEF IInv
<1>9. EntriesConserved'
  <2>1. \A x \in Entries : x \in loose' <=> x \in loose /\ x # e
    BY DEF Prepend
  <2>2. QED
    BY <1>2, <2>1 DEF IInv, EntriesConserved, Added
<1>10. loose' \in SUBSET Entries
  BY DEF IInv, TypeOK, Prepend
<1>11. QED
  BY <1>3, <1>6, <1>7, <1>8, <1>9, <1>10 DEF IInv, TypeOK, Linked

(* The entry at position i is removed, by the pointer of the one before it. *)
LEMMA RemoveStep ==
    ASSUME IInv, NEW a \in Queues, NEW i \in 1 .. Len(queue[a]), RemoveNext(a, i)
    PROVE  IInv'
<1> DEFINE n == Len(queue[a])
           p == Before(a, i)
           e == queue[a][i]
           f == next[e]
<1>1. /\ n \in Nat /\ i \in 1 .. n /\ DOMAIN queue[a] = 1 .. n
      /\ \A j \in 1 .. n : queue[a][j] \in Entries
  BY EndFacts DEF IInv
<1>2. /\ p = IF i = 1 THEN Start(a) ELSE queue[a][i - 1]
      /\ next[p] = e /\ e \in Entries /\ p \in Nodes
      /\ f = IF i = n THEN End(a) ELSE queue[a][i + 1]
  <2>1. p = IF i = 1 THEN Start(a) ELSE queue[a][i - 1]
    BY DEF Before
  <2>2. f = IF i = n THEN End(a) ELSE queue[a][i + 1]
    BY <1>1, EndFacts DEF IInv
  <2>3. CASE i = 1
    BY <1>1, <2>1, <2>2, <2>3, EndFacts, NodeFacts DEF IInv
  <2>4. CASE i # 1
    <3>1. i - 1 \in 1 .. n /\ i - 1 # n /\ (i - 1) + 1 = i
      BY <1>1, <2>4
    <3>2. next[queue[a][i - 1]] = queue[a][i]
      BY <3>1, EndFacts DEF IInv
    <3>3. QED
      BY <1>1, <2>1, <2>2, <2>4, <3>1, <3>2, NodeFacts
  <2>5. QED
    BY <2>3, <2>4
<1>3. /\ queue' = remove_next_from_queue(queue, <<a, i>>)
      /\ loose' = loose \cup {e}
      /\ next' = [[next EXCEPT ![p] = f] EXCEPT
                      ![f] = IF entry_type(f) = "end" THEN p ELSE @]
  BY <1>2, NodeFacts DEF RemoveNext
<1>4. Removed(queue, queue', Queues, Entries, a, e)
  BY <1>1, <1>3, RemoveFacts DEF IInv, TypeOK, EntriesConserved
<1>5. /\ queue'[a] = RemoveAt(queue[a], i) /\ \A b \in Queues \ {a} : queue'[b] = queue[b]
      /\ queue' \in [Queues -> Seq(Entries)]
  BY <1>3, <1>4 DEF Removed, remove_next_from_queue, IInv, TypeOK
<1>6. /\ Len(queue'[a]) = n - 1
      /\ \A j \in 1 .. n - 1 : queue'[a][j] = IF j < i THEN queue[a][j] ELSE queue[a][j + 1]
  BY <1>1, <1>5, RemoveAtProperties DEF IInv, TypeOK
<1>7. \A j, k \in 1 .. n : queue[a][j] = queue[a][k] => j = k
  BY <1>1 DEF IInv, EntriesConserved, OnePosition
<1>8. /\ f \in Nodes /\ p # f /\ p # End(a) /\ p # e
      /\ entry_type(f) = "end" <=> i = n
  BY <1>1, <1>2, <1>7, NodeFacts
<1>9. /\ next' \in [Nodes -> Nodes]
      /\ next'[p] = f
      /\ next'[End(a)] = IF i = n THEN p ELSE next[End(a)]
      /\ \A x \in Nodes : x # p /\ x # End(a) => next'[x] = next[x]
  <2>1. [next EXCEPT ![p] = f] \in [Nodes -> Nodes]
    BY <1>2, <1>8 DEF IInv, TypeOK
  <2>2. next' \in [Nodes -> Nodes]
    BY <1>2, <1>3, <1>8, <2>1
  <2>3. /\ next'[f] = IF i = n THEN p ELSE next[f]
        /\ \A x \in Nodes : x # f => next'[x] = IF x = p THEN f ELSE next[x]
    BY <1>2, <1>3, <1>8 DEF IInv, TypeOK
  <2> HIDE DEF p, f, e, n
  <2>4. QED
    BY <1>2, <1>8, <2>2, <2>3, NodeFacts
<1> HIDE DEF n, p, e, f
<1>10. LinkedAs(next, queue[a], a)'
  <2>1. next'[Start(a)] = IF n - 1 = 0 THEN End(a) ELSE queue'[a][1]
    <3>1. CASE i = 1
      BY <1>1, <1>2, <1>6, <1>9, <3>1
    <3>2. CASE i # 1
      <4>1. p # Start(a) /\ Start(a) # End(a) /\ Start(a) \in Nodes
        BY <1>1, <1>2, <3>2, NodeFacts
      <4>2. next[Start(a)] = queue[a][1] /\ queue'[a][1] = queue[a][1] /\ n - 1 # 0
        BY <1>1, <1>6, <3>2, EndFacts DEF IInv, n
      <4>3. QED
        BY <1>9, <4>1, <4>2
    <3>3. QED
      BY <3>1, <3>2
  <2>2. ASSUME NEW j \in 1 .. n - 1
        PROVE  next'[queue'[a][j]] = IF j = n - 1 THEN End(a) ELSE queue'[a][j + 1]
    <3>1. CASE j = i - 1
      <4>1. queue'[a][j] = p /\ next'[p] = f
        BY <1>1, <1>2, <1>6, <1>9, <2>2, <3>1
      <4>2. ASSUME j # n - 1
            PROVE  queue'[a][j + 1] = queue[a][i + 1] /\ i # n
        <5>1. i \in 1 .. n - 1 /\ j + 1 = i /\ ~ (i < i)
          BY <1>1, <2>2, <3>1, <4>2
        <5>2. queue'[a][i] = queue[a][i + 1]
          BY <1>6, <5>1
        <5>3. QED
          BY <1>1, <5>1, <5>2
      <4>3. j = n - 1 => i = n
        BY <1>1, <3>1
      <4>4. QED
        BY <1>2, <4>1, <4>2, <4>3
    <3>2. CASE j # i - 1
      <4> DEFINE k == IF j < i THEN j ELSE j + 1
      <4>1. k \in 1 .. n /\ queue'[a][j] = queue[a][k] /\ k # i - 1 /\ k # i
        BY <1>1, <1>6, <2>2, <3>2
      <4>2. j # n - 1 => queue'[a][j + 1] = queue[a][k + 1] /\ k # n
        BY <1>1, <1>6, <2>2, <3>2
      <4>3. j = n - 1 => k = n
        BY <1>1, <2>2, <3>2
      <4> HIDE DEF k
      <4>4. next[queue[a][k]] = IF k = n THEN End(a) ELSE queue[a][k + 1]
        BY <4>1, EndFacts DEF IInv, n
      <4>5. queue[a][k] # p
        <5>1. CASE i = 1
          BY <1>1, <1>2, <4>1, <5>1, NodeFacts
        <5>2. CASE i # 1
          <6>1. i - 1 \in 1 .. n /\ p = queue[a][i - 1]
            BY <1>1, <1>2, <5>2
          <6>2. QED
            BY <1>7, <4>1, <6>1
        <5>3. QED
          BY <5>1, <5>2
      <4>6. queue[a][k] # End(a) /\ queue[a][k] \in Nodes
        BY <1>1, <4>1, NodeFacts
      <4>7. QED
        BY <1>9, <4>1, <4>2, <4>3, <4>4, <4>5, <4>6
    <3>3. QED
      BY <3>1, <3>2
  <2>3. next'[End(a)] = IF n - 1 = 0 THEN Start(a) ELSE queue'[a][n - 1]
    <3>1. CASE i = n
      BY <1>1, <1>2, <1>6, <1>9, <3>1
    <3>2. CASE i # n
      <4>1. next[End(a)] = queue[a][n]
        BY <1>1, EndFacts DEF IInv, n
      <4>2. n - 1 # 0 /\ queue'[a][n - 1] = queue[a][n]
        BY <1>1, <1>6, <3>2
      <4>3. QED
        BY <1>9, <3>2, <4>1, <4>2
    <3>3. QED
      BY <3>1, <3>2
  <2>4. QED
    BY <1>6, <2>1, <2>2, <2>3 DEF LinkedAs
<1>11. ASSUME NEW b \in Queues, b # a
       PROVE  LinkedAs(next, queue[b], b)'
  <2>1. /\ Start(b) \in Nodes /\ End(b) \in Nodes /\ Start(b) # End(a) /\ End(b) # End(a)
        /\ Start(b) # p /\ End(b) # p
    BY <1>1, <1>2, <1>11, NodeFacts
  <2>2. ASSUME NEW j \in 1 .. Len(queue[b])
        PROVE  next'[queue[b][j]] = next[queue[b][j]]
    <3>1. /\ queue[b][j] \in Entries /\ queue[b][j] # End(a) /\ j \in DOMAIN queue[b]
          /\ queue[b][j] \in Nodes
      BY EndFacts, NodeFacts DEF IInv
    <3>2. queue[b][j] # p
      <4>1. CASE i = 1
        BY <1>2, <3>1, <4>1, NodeFacts
      <4>2. CASE i # 1
        <5>1. i - 1 \in DOMAIN queue[a] /\ p = queue[a][i - 1]
          BY <1>1, <1>2, <4>2
        <5>2. QED
          BY <1>11, <3>1, <5>1 DEF IInv, EntriesConserved, OnePosition
      <4>3. QED
        BY <4>1, <4>2
    <3>3. QED
      BY <1>9, <3>1, <3>2
  <2>3. QED
    BY <1>5, <1>9, <1>11, <2>1, <2>2, LinkedSame DEF IInv
<1>12. EntriesConserved'
  <2>1. \A x \in Entries : x \in loose' <=> x \in loose \/ x = e
    BY <1>3
  <2>2. QED
    BY <1>4, <2>1 DEF IInv, EntriesConserved, Removed
<1>13. loose' \in SUBSET Entries
  BY <1>2, <1>3 DEF IInv, TypeOK
<1>14. QED
  BY <1>5, <1>9, <1>10, <1>11, <1>12, <1>13 DEF IInv, TypeOK, Linked

(* pop_from_queue does what remove_next_from_queue does at the start entry.*)
LEMMA PopStep ==
    ASSUME IInv, NEW a \in Queues, Pop(a)
    PROVE  IInv'
<1> DEFINE e == next[Start(a)]
           f == next[e]
<1>1. CASE queue[a] = <<>>
  <2>1. e = End(a)
    BY <1>1, EndFacts DEF IInv
  <2>2. UNCHANGED <<next, loose>>
    BY <2>1, NodeFacts DEF Pop, popped
  <2>3. queue' = queue
    BY <1>1 DEF Pop, pop_from_queue, IInv, TypeOK
  <2>4. QED
    BY <2>2, <2>3 DEF IInv, TypeOK, Linked, LinkedAs, EntriesConserved
<1>2. CASE queue[a] # <<>>
  <2>1. /\ 1 \in 1 .. Len(queue[a]) /\ e = queue[a][1] /\ e \in Entries /\ e \in Nodes
        /\ f = End(a) \/ f \in Entries
    BY <1>2, EndFacts, NodeFacts DEF IInv
  <2>2. queue' = remove_next_from_queue(queue, <<a, 1>>)
    BY <1>2, PopIsRemove DEF Pop, IInv, TypeOK
  <2>3. /\ next' = [next EXCEPT ![Start(a)] = f,
                                ![End(a)] = IF entry_type(f) = "end" THEN Start(a) ELSE @]
        /\ loose' = loose \cup {e}
    BY <2>1, NodeFacts DEF Pop, popped
  <2>4. next' = [[next EXCEPT ![Start(a)] = f] EXCEPT
                     ![f] = IF entry_type(f) = "end" THEN Start(a) ELSE @]
    <3>1. CASE f = End(a)
      BY <2>3, <3>1, NodeFacts
    <3>2. CASE f \in Entries
      <4>1. entry_type(f) # "end"
        BY <3>2, NodeFacts
      <4>2. next' = [next EXCEPT ![Start(a)] = f]
        BY <2>3, <4>1, NodeFacts DEF IInv, TypeOK
      <4>3. [next EXCEPT ![Start(a)] = f] \in [Nodes -> Nodes]
        BY <3>2, NodeFacts DEF IInv, TypeOK
      <4>4. QED
        BY <4>1, <4>2, <4>3
    <3>3. QED
      BY <2>1, <3>1, <3>2
  <2>5. RemoveNext(a, 1)
    <3>1. Before(a, 1) = Start(a)
      BY DEF Before
    <3>2. entry_type(e) = "value"
      BY <2>1, NodeFacts
    <3>3. QED
      BY <2>2, <2>3, <2>4, <3>1, <3>2 DEF RemoveNext
  <2>6. QED
    BY <2>1, <2>5, RemoveStep
<1>3. QED
  BY <1>1, <1>2

(* Nothing is removed after the last entry. *)
LEMMA RemoveNothing ==
    ASSUME IInv, NEW a \in Queues, RemoveNext(a, Len(queue[a]) + 1)
    PROVE  UNCHANGED vars
<1>1. next[Before(a, Len(queue[a]) + 1)] = End(a)
  <2>1. CASE Len(queue[a]) = 0
    BY <2>1, EndFacts DEF IInv, Before
  <2>2. CASE Len(queue[a]) # 0
    <3>1. /\ Len(queue[a]) \in 1 .. Len(queue[a]) /\ Len(queue[a]) + 1 # 1
          /\ (Len(queue[a]) + 1) - 1 = Len(queue[a])
      BY <2>2, EndFacts DEF IInv
    <3>2. QED
      BY <3>1, EndFacts DEF IInv, Before
  <2>3. QED
    BY <2>1, <2>2
<1>2. QED
  BY <1>1, NodeFacts DEF RemoveNext

LEMMA InitIInv == Init => IInv
<1> SUFFICES ASSUME Init PROVE IInv
  OBVIOUS
<1>1. /\ \A i \in 1 .. MAX_ENTRIES : Entry(i) \in Entries
      /\ \A e \in Entries : \E i \in 1 .. MAX_ENTRIES : e = Entry(i)
      /\ \A i, j : Entry(i) = Entry(j) => i = j
      /\ \A i : entry_type(Entry(i)) = "value" /\ Entry(i)[2] = i
      /\ \A a : Start(a)[2] = a /\ End(a)[2] = a
  BY DEF Entries, Entry, Start, End, entry_type
<1>2. /\ queue = [a \in Queues |->
                    IF a = FreeQueue THEN [i \in 1 .. MAX_ENTRIES |-> Entry(i)] ELSE <<>>]
      /\ loose = {}
  BY DEF Init
<1>3. /\ queue[FreeQueue] \in Seq(Entries) /\ Len(queue[FreeQueue]) = MAX_ENTRIES
      /\ \A i \in 1 .. MAX_ENTRIES : queue[FreeQueue][i] = Entry(i)
      /\ DOMAIN queue[FreeQueue] = 1 .. MAX_ENTRIES
  BY <1>1, <1>2, EntriesAssumption, FreeQueueAssumption
<1>4. \A a \in Queues : a # FreeQueue => queue[a] = <<>>
  BY <1>2
<1>5. queue \in [Queues -> Seq(Entries)]
  <2>1. ASSUME NEW a \in Queues PROVE queue[a] \in Seq(Entries)
    <3>1. CASE a = FreeQueue
      BY <1>3, <3>1
    <3>2. CASE a # FreeQueue
      <4>1. queue[a] = <<>>
        BY <1>4, <3>2
      <4>2. <<>> \in Seq(Entries)
        OBVIOUS
      <4>3. QED
        BY <4>1, <4>2
    <3>3. QED
      BY <3>1, <3>2
  <2>2. queue = [a \in Queues |-> queue[a]]
    BY <1>2
  <2>3. QED
    BY <2>1, <2>2
<1>6. /\ DOMAIN next = Nodes
      /\ \A i \in 1 .. MAX_ENTRIES :
             next[Entry(i)] = IF i = MAX_ENTRIES THEN End(FreeQueue) ELSE Entry(i + 1)
      /\ next[Start(FreeQueue)] = Entry(1) /\ next[End(FreeQueue)] = Entry(MAX_ENTRIES)
      /\ \A a \in Queues : a # FreeQueue => next[Start(a)] = End(a) /\ next[End(a)] = Start(a)
      /\ next = [n \in Nodes |-> next[n]]
  BY <1>1, NodeFacts, FreeQueueAssumption DEF Init
<1>7. next \in [Nodes -> Nodes]
  <2>1. ASSUME NEW n \in Nodes PROVE next[n] \in Nodes
    <3>1. CASE n \in Entries
      <4>1. PICK i \in 1 .. MAX_ENTRIES : n = Entry(i)
        BY <1>1, <3>1
      <4>2. i # MAX_ENTRIES => i + 1 \in 1 .. MAX_ENTRIES
        BY EntriesAssumption
      <4>3. QED
        BY <1>1, <1>6, <4>1, <4>2, NodeFacts, FreeQueueAssumption
    <3>2. ASSUME NEW a \in Queues, n = Start(a) \/ n = End(a)
          PROVE  next[n] \in Nodes
      <4>1. 1 \in 1 .. MAX_ENTRIES /\ MAX_ENTRIES \in 1 .. MAX_ENTRIES
        BY EntriesAssumption
      <4>2. QED
        BY <1>1, <1>6, <3>2, <4>1, NodeFacts
    <3>3. QED
      BY <3>1, <3>2 DEF Nodes
  <2>2. QED
    BY <1>6, <2>1
<1>8. Linked
  <2>1. LinkedAs(next, queue[FreeQueue], FreeQueue)
    <3>1. \A i \in 1 .. MAX_ENTRIES : i # MAX_ENTRIES => i + 1 \in 1 .. MAX_ENTRIES
      BY EntriesAssumption
    <3>2. 1 \in 1 .. MAX_ENTRIES /\ MAX_ENTRIES \in 1 .. MAX_ENTRIES /\ MAX_ENTRIES # 0
      BY EntriesAssumption
    <3>3. QED
      BY <1>3, <1>6, <3>1, <3>2 DEF LinkedAs
  <2>2. ASSUME NEW a \in Queues, a # FreeQueue PROVE LinkedAs(next, queue[a], a)
    <3>1. queue[a] = <<>> /\ Len(queue[a]) = 0
      BY <1>4, <2>2
    <3>2. QED
      BY <1>6, <2>2, <3>1 DEF LinkedAs
  <2>3. QED
    BY <2>1, <2>2 DEF Linked
<1>9. EntriesConserved
  <2>1. \A a \in Queues : \A i \in DOMAIN queue[a] :
            a = FreeQueue /\ queue[a][i] = Entry(i)
    <3>1. ASSUME NEW a \in Queues, a # FreeQueue PROVE DOMAIN queue[a] = {}
      <4>1. queue[a] = <<>>
        BY <1>4, <3>1
      <4>2. DOMAIN queue[a] = 1 .. Len(queue[a]) /\ Len(queue[a]) = 0
        BY <4>1, <1>5
      <4>3. QED
        BY <4>2
    <3>2. ASSUME NEW a \in Queues, NEW i \in DOMAIN queue[a]
          PROVE  a = FreeQueue /\ queue[a][i] = Entry(i)
      <4>1. a = FreeQueue
        BY <3>1, <3>2
      <4>2. QED
        BY <1>3, <3>2, <4>1
    <3>3. QED
      BY <3>2
  <2>2. OnePosition(queue, Queues)
    BY <1>1, <2>1 DEF OnePosition
  <2>3. \A e \in Entries : Holds(queue, FreeQueue, e)
    BY <1>1, <1>3 DEF Holds
  <2>4. QED
    BY <1>2, <2>2, <2>3, FreeQueueAssumption DEF EntriesConserved
<1>10. QED
  BY <1>2, <1>5, <1>7, <1>8, <1>9 DEF IInv, TypeOK
-----------------------------------------------------------------------------
LEMMA NextIInv == IInv /\ [Next]_vars => IInv'
<1> SUFFICES ASSUME IInv, [Next]_vars PROVE IInv'
  OBVIOUS
<1>1. ASSUME NEW a \in Queues, NEW e \in Entries, Push(e, a) PROVE IInv'
  BY <1>1, PushStep
<1>2. ASSUME NEW a \in Queues, NEW e \in Entries, Prepend(e, a) PROVE IInv'
  BY <1>2, PrependStep
<1>3. ASSUME NEW a \in Queues, Pop(a) PROVE IInv'
  BY <1>3, PopStep
<1>4. CASE UNCHANGED vars
  BY <1>4 DEF vars, IInv, TypeOK, Linked, LinkedAs, EntriesConserved
<1>5. ASSUME NEW a \in Queues, NEW i \in 1 .. Len(queue[a]) + 1, RemoveNext(a, i)
      PROVE  IInv'
  <2>1. CASE i \in 1 .. Len(queue[a])
    BY <1>5, <2>1, RemoveStep
  <2>2. CASE i = Len(queue[a]) + 1
    BY <1>4, <1>5, <2>2, RemoveNothing
  <2>3. QED
    BY <2>1, <2>2, EndFacts DEF IInv
<1>6. QED
  BY <1>1, <1>2, <1>3, <1>4, <1>5 DEF Next

(* However the five functions of queue.c are called, within the callers'   *)
(* discipline, the pointers of every queue lead through its entries in     *)
(* order to its own end, which points back at the last one.                *)
THEOREM PointersRepresentSequences == Spec => []Linked
<1>1. IInv => Linked
  BY DEF IInv
<1>2. IInv /\ [Next]_vars => IInv'
  BY NextIInv
<1>3. QED
  BY InitIInv, <1>1, <1>2, PTL DEF Spec

(* The entry that pop_from_queue and remove_next_from_queue return is the  *)
(* one that left the queue, and no entry is on two queues.                 *)
THEOREM NoEntryIsLost == Spec => []EntriesConserved
<1>1. IInv => EntriesConserved
  BY DEF IInv
<1>2. IInv /\ [Next]_vars => IInv'
  BY NextIInv
<1>3. QED
  BY InitIInv, <1>1, <1>2, PTL DEF Spec

(* The memory holds pointers to entries, and the queues entries, only.     *)
THEOREM PointersAreTyped == Spec => []TypeOK
<1>1. IInv => TypeOK
  BY DEF IInv
<1>2. IInv /\ [Next]_vars => IInv'
  BY NextIInv
<1>3. QED
  BY InitIInv, <1>1, <1>2, PTL DEF Spec
-----------------------------------------------------------------------------
(***************************************************************************)
(* find_value.  Its loop is a recursive function; that the function is     *)
(* defined is shown by giving its values, and that they are the only ones  *)
(* by looking at the first place where another would differ.               *)
(***************************************************************************)
(* The last values of two entries of a queue are different, and there are  *)
(* no more than MAX_ENTRIES.                                               *)
LEMMA LengthIsBounded ==
    ASSUME IInv, NEW a \in Queues
    PROVE  Len(queue[a]) \in 0 .. MAX_ENTRIES
<1> DEFINE n == Len(queue[a])
           f == [i \in 1 .. n |-> queue[a][i][2]]
<1>1. n \in Nat /\ DOMAIN queue[a] = 1 .. n /\ \A i \in 1 .. n : queue[a][i] \in Entries
  BY EndFacts DEF IInv
<1>2. \A e \in Entries : e[2] \in 1 .. MAX_ENTRIES /\ e = Entry(e[2])
  BY DEF Entries, Entry
<1>3. \A i, j \in 1 .. n : queue[a][i] = queue[a][j] => i = j
  BY <1>1 DEF IInv, EntriesConserved, OnePosition
<1> HIDE DEF n
<1>4. f \in Injection(1 .. n, 1 .. MAX_ENTRIES)
  BY <1>1, <1>2, <1>3 DEF Injection, IsInjective
<1>5. Cardinality(1 .. n) <= Cardinality(1 .. MAX_ENTRIES)
  BY <1>4, FS_Injection, FS_Interval, EntriesAssumption
<1>6. QED
  BY <1>1, <1>5, FS_Interval, EntriesAssumption DEF n

LEMMA VisitedFacts ==
    ASSUME IInv, NEW a \in Queues
    PROVE  \A k \in 0 .. MAX_ENTRIES + 1 :
               Visited(a)[k] = IF k = 0 THEN Start(a)
                               ELSE IF k <= Len(queue[a]) THEN queue[a][k] ELSE End(a)
<1> DEFINE n == Len(queue[a])
           K == 0 .. MAX_ENTRIES + 1
           body(v) == [k \in K |->
                          IF k = 0 THEN Start(a)
                          ELSE IF entry_type(v[k - 1]) = "end" THEN v[k - 1]
                                                              ELSE next[v[k - 1]]]
           f == [k \in K |-> IF k = 0 THEN Start(a)
                             ELSE IF k <= n THEN queue[a][k] ELSE End(a)]
<1>1. Visited(a) = CHOOSE v : v = body(v)
  BY DEF Visited
<1>2. /\ n \in 0 .. MAX_ENTRIES
      /\ next[Start(a)] = IF n = 0 THEN End(a) ELSE queue[a][1]
      /\ \A i \in 1 .. n : next[queue[a][i]] = IF i = n THEN End(a) ELSE queue[a][i + 1]
      /\ \A i \in 1 .. n : entry_type(queue[a][i]) = "value"
      /\ entry_type(Start(a)) = "start" /\ entry_type(End(a)) = "end"
  BY LengthIsBounded, EndFacts, NodeFacts DEF IInv
<1>3. f = body(f)
  <2>1. ASSUME NEW k \in K PROVE f[k] = body(f)[k]
    <3>1. CASE k = 0
      BY <3>1
    <3>2. CASE k # 0
      <4>1. k - 1 \in K /\ k \in Nat /\ n \in Nat
        BY <3>2, <1>2, EntriesAssumption
      <4>2. body(f)[k] = IF entry_type(f[k - 1]) = "end" THEN f[k - 1] ELSE next[f[k - 1]]
        BY <3>2
      <4>3. CASE k = 1
        BY <1>2, <3>2, <4>1, <4>2, <4>3
      <4>4. CASE k > 1 /\ k - 1 <= n
        BY <1>2, <3>2, <4>1, <4>2, <4>4
      <4>5. CASE k > 1 /\ ~ (k - 1 <= n)
        BY <1>2, <3>2, <4>1, <4>2, <4>5
      <4>6. QED
        BY <3>2, <4>1, <4>3, <4>4, <4>5
    <3>3. QED
      BY <3>1, <3>2
  <2>2. QED
    BY <2>1
<1> DEFINE v == Visited(a)
<1>4. v = body(v)
  BY <1>1, <1>3
<1> HIDE DEF v, f
<1>5. \A k \in K : v[k] = f[k]
  <2> DEFINE T == {k \in K : v[k] # f[k]}
  <2>1. SUFFICES ASSUME T # {} PROVE FALSE
    OBVIOUS
  <2>2. PICK k \in T : \A j \in T : k <= j
    <3>1. T \in SUBSET Nat
      BY EntriesAssumption
    <3> HIDE DEF T
    <3>2. QED
      BY <2>1, <3>1, FirstOne
  <2>3. k \in K /\ v[k] # f[k]
    OBVIOUS
  <2>4. CASE k = 0
    <3>1. v[0] = Start(a) /\ f[0] = Start(a)
      BY <1>3, <1>4, EntriesAssumption
    <3>2. QED
      BY <2>3, <2>4, <3>1
  <2>5. CASE k # 0
    <3>1. k - 1 \in K /\ ~ (k <= k - 1)
      BY <2>3, <2>5, EntriesAssumption
    <3>2. v[k - 1] = f[k - 1]
      BY <2>2, <3>1
    <3>3. /\ v[k] = IF entry_type(v[k - 1]) = "end" THEN v[k - 1] ELSE next[v[k - 1]]
          /\ f[k] = IF entry_type(f[k - 1]) = "end" THEN f[k - 1] ELSE next[f[k - 1]]
      BY <1>3, <1>4, <2>3, <2>5
    <3>4. QED
      BY <2>3, <3>2, <3>3
  <2>6. QED
    BY <2>4, <2>5
<1>6. QED
  BY <1>5 DEF f, v

LEMMA FindsFacts ==
    ASSUME IInv
    PROVE  FindsWhatIsThere
<1> SUFFICES ASSUME NEW a \in Queues, NEW e \in Entries
             PROVE  /\ Holds(queue, a, e) => \E i \in DOMAIN queue[a] :
                           queue[a][i] = e /\ find_value(e, a) = Before(a, i)
                    /\ ~ Holds(queue, a, e) => find_value(e, a) = NullEntry
  BY DEF FindsWhatIsThere
<1> DEFINE n == Len(queue[a])
           hits == {k \in 1 .. MAX_ENTRIES : Visited(a)[k] = e}
<1>1. /\ n \in 0 .. MAX_ENTRIES /\ DOMAIN queue[a] = 1 .. n
      /\ End(a) # e
  BY LengthIsBounded, EndFacts, NodeFacts DEF IInv
<1>2. /\ Visited(a)[0] = Start(a)
      /\ \A k \in 1 .. MAX_ENTRIES :
             Visited(a)[k] = IF k <= n THEN queue[a][k] ELSE End(a)
  BY VisitedFacts, EntriesAssumption
<1>3. \A k \in 1 .. MAX_ENTRIES : k \in hits <=> k \in 1 .. n /\ queue[a][k] = e
  BY <1>1, <1>2, EntriesAssumption
<1>4. find_value(e, a) = IF hits = {} THEN NullEntry ELSE Visited(a)[Min(hits) - 1]
  BY DEF find_value
<1> HIDE DEF hits, n
<1>5. hits \in SUBSET (1 .. MAX_ENTRIES)
  BY DEF hits
<1>6. CASE Holds(queue, a, e)
  <2>1. PICK i \in 1 .. n : queue[a][i] = e
    BY <1>1, <1>6 DEF Holds
  <2>2. i \in 1 .. MAX_ENTRIES /\ i \in hits
    BY <1>1, <1>3, <2>1, EntriesAssumption
  <2>3. ASSUME NEW k \in hits PROVE k = i
    <3>1. k \in 1 .. MAX_ENTRIES
      BY <1>5
    <3>2. k \in 1 .. n /\ queue[a][k] = e
      BY <1>3, <3>1
    <3>3. k \in DOMAIN queue[a] /\ i \in DOMAIN queue[a] /\ queue[a][k] = queue[a][i]
      BY <1>1, <2>1, <3>2
    <3>4. OnePosition(queue, Queues)
      BY DEF IInv, EntriesConserved
    <3>5. QED
      BY <3>3, <3>4 DEF OnePosition
  <2>4. Min(hits) = i
    <3>1. i <= i /\ \A x \in hits : x = i
      BY <2>2, <2>3
    <3>2. \A x : (x \in hits /\ \A y \in hits : x <= y) <=> x = i
      BY <2>2, <3>1
    <3>3. QED
      BY <3>2 DEF Min
  <2>5. Visited(a)[i - 1] = Before(a, i)
    <3>1. CASE i = 1
      BY <1>2, <3>1 DEF Before
    <3>2. CASE i # 1
      <4>1. i - 1 \in 1 .. MAX_ENTRIES /\ i - 1 <= n
        BY <1>1, <2>1, <3>2, EntriesAssumption
      <4>2. QED
        BY <1>2, <3>2, <4>1 DEF Before
    <3>3. QED
      BY <3>1, <3>2
  <2>6. QED
    BY <1>1, <1>4, <1>6, <2>1, <2>2, <2>4, <2>5
<1>7. CASE ~ Holds(queue, a, e)
  <2>1. hits = {}
    BY <1>1, <1>3, <1>5, <1>7 DEF Holds
  <2>2. QED
    BY <1>4, <1>7, <2>1
<1>8. QED
  BY <1>6, <1>7

(* The loop of find_value reaches the end of every queue, finds a value    *)
(* exactly when its entry is there, and returns the entry before it.       *)
THEOREM FindValueIsRight == Spec => []FindsWhatIsThere
<1>1. IInv => FindsWhatIsThere
  BY FindsFacts
<1>2. IInv /\ [Next]_vars => IInv'
  BY NextIInv
<1>3. QED
  BY InitIInv, <1>1, <1>2, PTL DEF Spec
=============================================================================
