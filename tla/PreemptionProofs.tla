-------------------------- MODULE PreemptionProofs --------------------------
(***************************************************************************)
(* Theorems about Preemption, for every number of threads and priorities,  *)
(* every use of the interrupt sources, and interrupts in any number of     *)
(* windows.                                                                *)
(*                                                                         *)
(* The invariant says of every place at which a context may be what makes  *)
(* it safe to go on there, whether the processor is there now or a thread  *)
(* was switched out there.  It speaks of the sequences that the memory of  *)
(* the queues represents, and of the memory where cleanup holds pointers   *)
(* into it; it holds until an interrupt switches within the stores of pop  *)
(* or push, after which there is nothing that the memory represents.       *)
(***************************************************************************)
EXTENDS Preemption, ThreadQueuesProofs

(* The statements of a thread that stands on its ready queue, of one that  *)
(* has left it, and of the idle loop.                                      *)
OnQueue == {"run", "info", "enable", "clear", "disable", "pop", "unlink"}
Ended   == {"untail", "link", "append", "close", "freed"}
IdleAt  == {"idle", "loadsp", "svc"}
InTable == Subscribing \cup Unsubscribing

Listed(q, t) == \E a \in QueueNames : Holds(q, a, t)
InReady(q, t) == \E p \in Priority : Holds(q, Ready(p), t)

QueuesOK(q) == q \in [QueueNames -> Seq(Threads)] /\ OnePosition(q, QueueNames)
MemoryOK(m, q) == m \in [Nodes -> Nodes] /\ QueuesOK(q) /\ Represents(m, q)

(* next_thread on sequences. *)
IsNext(q, t) ==
    \/ (\A p \in Priority : q[Ready(p)] = <<>>) /\ t = usrloopthread
    \/ \E p \in Priority : /\ q[Ready(p)] # <<>>
                           /\ \A b \in Priority : b < p => q[Ready(b)] = <<>>
                           /\ t = Head(q[Ready(p)])

LevelsOK(q, l) ==
    /\ l \in [Threads -> Priority]
    /\ \A p \in Priority, t \in Threads : Holds(q, Ready(p), t) => l[t] = p

(* A context x of the thread t, on memory m and queues q. *)
PlaceOK(m, q, x, t) ==
    /\ x.name = "unlink" => x.s = t /\ x.next = m[Entry(t)]
    /\ x.name \in {"untail", "link"} => x.s = t /\ ~ Listed(q, t)
    /\ x.name \in {"append", "close"} => x.s = t /\ Holds(q, Free, t)
    /\ x.name # "loadsp"
    /\ x.name = "info" => x.i \in Infos

(* One that is saved, which no window allows for.  The entry after that of *)
(* a thread about to be unlinked is not the end entry, so that next has not*)
(* changed when it goes on.                                                *)
RestOK(m, q, x, t) ==
    /\ PlaceOK(m, q, x, t)
    /\ x.name \notin {"append", "close"}
    /\ x.name = "unlink" => ~ EndsAt(m[Entry(t)])

SavedOK(m, q, c) ==
    /\ DOMAIN c = Threads \cup {usrloopthread}
    /\ \A t \in Threads : RestOK(m, q, c[t], t)
    /\ c[usrloopthread].name \notin OnQueue \cup Ended

PcOK ==
    /\ rthread \in Threads \cup {usrloopthread}
    /\ rthread \in Threads => PlaceOK(next, queue, pc, rthread)
    /\ pc.name \in OnQueue => rthread \in Threads /\ IsNext(queue, rthread)
    /\ pc.name \in Ended => rthread \in Threads
    /\ rthread \in Threads => saved[rthread] = NoPc
    /\ irqlr = NoPc

(* A subscription's information has a priority, and a thread that returned *)
(* is not in the middle of subscribing.                                    *)
InfoOK ==
    /\ DOMAIN info = Sources
    /\ \A s \in Sources : info[s] # None => info[s].priority \in Nat
    /\ \A t \in Threads : Holds(queue, Free, t) => saved[t].name \notin InTable

(* As long as no interrupt switched between pop and push. *)
PoolOK ==
    "pool" \notin struck =>
        \A t \in 0 .. client.threads - 1 :
            Listed(queue, t) \/ pc \in {AtEntry("untail", t), AtEntry("link", t)}

(* As long as no interrupt struck between c_cleanup and the idle loop.     *)
(* The context of the idle loop while it does not run.                     *)
IdleOK(x) == x.name \in {"idle", "svc"}
CalmOK(q, c, f) ==
    /\ \A t \in Threads : t # rthread /\ ~ Holds(q, Free, t) => c[t] = f[t]
    /\ \A t \in Threads : t # rthread /\ InReady(q, t) => c[t].name \in OnQueue
    /\ rthread # usrloopthread => IdleOK(c[usrloopthread])
ContextOK ==
    "context" \notin struck =>
        /\ CalmOK(queue, saved, left)
        /\ pc.name \in OnQueue \cup Ended \cup IdleAt
        /\ pc.name \in {"append", "close", "freed"} => Holds(queue, Free, rthread)
        /\ pc.name \in IdleAt <=> rthread = usrloopthread

ThreadsOK ==
    /\ client \in Clients /\ DOMAIN left = Threads \cup {usrloopthread}
    /\ next \in [Nodes -> Nodes] /\ MemoryOK(Settled, queue)
    /\ LevelsOK(queue, priority) /\ SavedOK(next, queue, saved)
    /\ PcOK /\ InfoOK /\ PoolOK /\ ContextOK

PInv == "queue" \notin struck => ThreadsOK
-----------------------------------------------------------------------------
(* The names of the queues and the ranges of the constants. *)
LEMMA PoolFacts ==
    /\ \A p \in Priority : Ready(p) \in QueueNames /\ Ready(p) # Free
    /\ \A a \in QueueNames \ {Free} : \E p \in Priority : a = Ready(p)
    /\ \A p, b : Ready(p) = Ready(b) => p = b
    /\ Free \in QueueNames
    /\ PRIORITIES - 1 \in Priority /\ 0 \in Priority /\ Priority \subseteq Nat
    /\ usrloopthread \notin Threads
BY PoolAssumption DEF QueueNames, Ready, Free, Priority, Threads, usrloopthread

(* Start, end and value entries are different places in memory. *)
LEMMA NodeFacts ==
    /\ \A a \in QueueNames : /\ Start(a) \in Nodes /\ End(a) \in Nodes
                             /\ ~ EndsAt(Start(a)) /\ EndsAt(End(a))
    /\ \A a, b : /\ Start(a) # End(b)
                 /\ Start(a) = Start(b) => a = b
                 /\ End(a) = End(b) => a = b
    /\ \A t \in Threads : Entry(t) \in Nodes
    /\ \A t : ~ EndsAt(Entry(t)) /\ Entry(t)[2] = t
    /\ \A t, u : Entry(t) = Entry(u) => t = u
    /\ \A t, a : Entry(t) # Start(a) /\ Entry(t) # End(a)
<1>1. /\ \A a : Start(a) = <<"start", a>> /\ End(a) = <<"end", a>>
      /\ \A t : Entry(t) = <<"value", t>>
      /\ "start" # "end" /\ "start" # "value" /\ "end" # "value"
  BY DEF Start, End, Entry
<1>2. \A n : EndsAt(n) <=> n[1] = "end"
  BY DEF EndsAt, entry_type
<1>3. /\ \A a \in QueueNames : Start(a) \in Nodes /\ End(a) \in Nodes
      /\ \A t \in Threads : Entry(t) \in Nodes
  BY DEF Nodes
<1>4. QED
  BY <1>1, <1>2, <1>3

(* What it says of the pointers that they represent a sequence. *)
Chain(m, s, a) ==
    /\ m[Start(a)] = IF Len(s) = 0 THEN End(a) ELSE Entry(s[1])
    /\ \A i \in 1 .. Len(s) : m[Entry(s[i])] = IF i = Len(s) THEN End(a) ELSE Entry(s[i + 1])
    /\ m[End(a)] = IF Len(s) = 0 THEN Start(a) ELSE Entry(s[Len(s)])

LEMMA ChainFacts ==
    ASSUME NEW m, NEW a, NEW s \in Seq(Threads)
    PROVE  LinkedAs(m, EntriesOf(s), a) <=> Chain(m, s, a)
<1> DEFINE n == Len(s)
           r == [i \in DOMAIN s |-> Entry(s[i])]
<1>1. n \in Nat /\ DOMAIN s = 1 .. n /\ \A i \in 1 .. n : s[i] \in Threads
  BY LenProperties, ElementOfSeq
<1>2. r \in Seq(Nodes)
  <2>1. r = [i \in 1 .. n |-> Entry(s[i])] /\ \A i \in 1 .. n : Entry(s[i]) \in Nodes
    BY <1>1, NodeFacts
  <2> HIDE DEF n
  <2>2. [i \in 1 .. n |-> Entry(s[i])] \in Seq(Nodes)
    BY <1>1, <2>1, IsASeq
  <2>3. QED
    BY <2>1, <2>2
<1>3. Len(r) = n /\ \A i \in 1 .. n : r[i] = Entry(s[i])
  <2>1. DOMAIN r = 1 .. n /\ DOMAIN r = 1 .. Len(r) /\ Len(r) \in Nat
    BY <1>1, <1>2, LenProperties
  <2>2. QED
    BY <1>1, <2>1
<1> HIDE DEF n, r
<1>4. LinkedAs(m, r, a) <=>
          /\ m[Start(a)] = IF n = 0 THEN End(a) ELSE r[1]
          /\ \A i \in 1 .. n : m[r[i]] = IF i = n THEN End(a) ELSE r[i + 1]
          /\ m[End(a)] = IF n = 0 THEN Start(a) ELSE r[n]
  BY <1>3 DEF LinkedAs
<1>5. Chain(m, s, a) <=>
          /\ m[Start(a)] = IF n = 0 THEN End(a) ELSE Entry(s[1])
          /\ \A i \in 1 .. n : m[Entry(s[i])] = IF i = n THEN End(a) ELSE Entry(s[i + 1])
          /\ m[End(a)] = IF n = 0 THEN Start(a) ELSE Entry(s[n])
  BY DEF Chain, n
<1>6. n # 0 => 1 \in 1 .. n /\ n \in 1 .. n
  BY <1>1
<1>7. \A i \in 1 .. n : i # n => i + 1 \in 1 .. n
  BY <1>1
<1>8. EntriesOf(s) = r
  BY DEF EntriesOf, r
<1>9. (\A i \in 1 .. n : m[r[i]] = IF i = n THEN End(a) ELSE r[i + 1])
          <=> \A i \in 1 .. n : m[Entry(s[i])] = IF i = n THEN End(a) ELSE Entry(s[i + 1])
  BY <1>3, <1>7
<1>10. QED
  BY <1>3, <1>4, <1>5, <1>6, <1>8, <1>9

LEMMA MemoryFacts ==
    ASSUME NEW m, NEW q, MemoryOK(m, q), NEW a \in QueueNames
    PROVE  /\ Chain(m, q[a], a)
           /\ Len(q[a]) \in Nat /\ DOMAIN q[a] = 1 .. Len(q[a])
           /\ \A i \in 1 .. Len(q[a]) : q[a][i] \in Threads
           /\ q[a] = <<>> <=> Len(q[a]) = 0
           /\ q[a] # <<>> => Head(q[a]) = q[a][1] /\ Head(q[a]) \in Threads
           /\ EndsAt(m[Start(a)]) <=> q[a] = <<>>
           /\ q[a] # <<>> => m[Start(a)] = Entry(Head(q[a]))
<1>1. q[a] \in Seq(Threads) /\ q \in [QueueNames -> Seq(Threads)]
  BY DEF MemoryOK, QueuesOK
<1>2. Chain(m, q[a], a)
  BY <1>1, ChainFacts DEF MemoryOK, Represents
<1>3. /\ Len(q[a]) \in Nat /\ DOMAIN q[a] = 1 .. Len(q[a])
      /\ \A i \in 1 .. Len(q[a]) : q[a][i] \in Threads
      /\ q[a] # <<>> => Head(q[a]) = q[a][1] /\ Head(q[a]) \in Threads
  BY <1>1, HoldsIn
<1>4. q[a] = <<>> <=> Len(q[a]) = 0
  BY <1>1, EmptySeq
<1>5. QED
  BY <1>2, <1>3, <1>4, NodeFacts DEF Chain

(* The pointers of a queue whose sequence is s as before. *)
LEMMA ChainSame ==
    ASSUME NEW m, NEW k, NEW s, NEW a, Chain(m, s, a),
           k[Start(a)] = m[Start(a)], k[End(a)] = m[End(a)],
           \A i \in 1 .. Len(s) : k[Entry(s[i])] = m[Entry(s[i])]
    PROVE  Chain(k, s, a)
BY DEF Chain

(* MemoryOK from the chains. *)
LEMMA MemoryIntro ==
    ASSUME NEW m \in [Nodes -> Nodes], NEW q, QueuesOK(q),
           \A a \in QueueNames : Chain(m, q[a], a)
    PROVE  MemoryOK(m, q)
<1>1. \A a \in QueueNames : q[a] \in Seq(Threads)
  BY DEF QueuesOK
<1>2. \A a \in QueueNames : LinkedAs(m, EntriesOf(q[a]), a)
  BY <1>1, ChainFacts
<1>3. QED
  BY <1>2 DEF MemoryOK, Represents

(* pop_from_queue does on the memory what it does on the sequences, and    *)
(* leaves the next of every entry alone.                                   *)
LEMMA PopKeepsMemory ==
    ASSUME NEW m, NEW q, MemoryOK(m, q), NEW a \in QueueNames, q[a] # <<>>
    PROVE  /\ MemoryOK(popped(m, a), pop_from_queue(q, a))
           /\ Removed(q, pop_from_queue(q, a), QueueNames, Threads, a, Head(q[a]))
           /\ \A t \in Threads : popped(m, a)[Entry(t)] = m[Entry(t)]
<1> DEFINE s == q[a]
           n == Len(s)
           e == Entry(s[1])
           k == popped(m, a)
           r == pop_from_queue(q, a)
<1>1. /\ n \in Nat \ {0} /\ s \in Seq(Threads) /\ m[Start(a)] = e
      /\ m[e] = IF n = 1 THEN End(a) ELSE Entry(s[2])
      /\ \A i \in 1 .. n : s[i] \in Threads
      /\ s # <<>> /\ Head(s) = s[1]
  <2>1. Len(q[a]) \in Nat /\ Len(q[a]) # 0 /\ q[a] \in Seq(Threads)
    BY MemoryFacts DEF MemoryOK, QueuesOK
  <2>2. 1 \in 1 .. Len(q[a])
    BY <2>1
  <2>3. /\ m[Start(a)] = Entry(q[a][1])
        /\ m[Entry(q[a][1])] = IF 1 = Len(q[a]) THEN End(a) ELSE Entry(q[a][1 + 1])
    <3>1. Chain(m, q[a], a)
      BY MemoryFacts
    <3>2. QED
      BY <2>1, <2>2, <3>1 DEF Chain
  <2>4. Head(q[a]) = q[a][1] /\ \A i \in 1 .. n : s[i] \in Threads
    BY MemoryFacts
  <2>5. 1 + 1 = 2
    OBVIOUS
  <2>6. QED
    BY <2>1, <2>3, <2>4, <2>5
<1>2. EndsAt(m[e]) <=> n = 1
  BY <1>1, NodeFacts
<1>3. k = [m EXCEPT ![Start(a)] = m[e], ![End(a)] = IF n = 1 THEN Start(a) ELSE @]
  <2>1. ~ EndsAt(e)
    BY NodeFacts
  <2>2. k = [m EXCEPT ![Start(a)] = m[m[Start(a)]],
                      ![End(a)] = IF EndsAt(m[m[Start(a)]]) THEN Start(a) ELSE @]
    BY <1>1, <2>1 DEF popped, EndsAt
  <2> HIDE DEF k, e, n, s
  <2>3. QED
    BY <1>1, <1>2, <2>2
<1>4. m \in [Nodes -> Nodes] /\ e \in Nodes
  BY <1>1, NodeFacts DEF MemoryOK
<1>5. /\ k \in [Nodes -> Nodes]
      /\ k[Start(a)] = m[e] /\ k[End(a)] = IF n = 1 THEN Start(a) ELSE m[End(a)]
      /\ \A x \in Nodes : x # Start(a) /\ x # End(a) => k[x] = m[x]
  <2> HIDE DEF k, e, n
  <2>1. QED
    BY <1>3, <1>4, NodeFacts
<1>6. \A t \in Threads : k[Entry(t)] = m[Entry(t)]
  BY <1>5, NodeFacts
<1>7. /\ Removed(q, r, QueueNames, Threads, a, Head(s))
      /\ r[a] = Tail(s) /\ \A b \in QueueNames \ {a} : r[b] = q[b]
  <2>1. /\ r = remove_next_from_queue(q, <<a, 1>>) /\ 1 \in DOMAIN q[a]
        /\ q \in [QueueNames -> Seq(Threads)] /\ OnePosition(q, QueueNames)
    BY PopIsRemove DEF MemoryOK, QueuesOK
  <2>2. Removed(q, remove_next_from_queue(q, <<a, 1>>), QueueNames, Threads, a, q[a][1])
    BY <2>1, RemoveFacts
  <2>3. r[a] = Tail(s) /\ \A b \in QueueNames \ {a} : r[b] = q[b]
    BY <2>1 DEF pop_from_queue
  <2>4. QED
    BY <1>1, <2>1, <2>2, <2>3
<1>8. /\ Len(Tail(s)) = n - 1
      /\ \A i \in 1 .. n - 1 : Tail(s)[i] = s[i + 1]
  BY <1>1, HeadTailProperties
<1>n. n = Len(q[a]) /\ s = q[a]
  OBVIOUS
<1> HIDE DEF k, r, e, n, s
<1>9. Chain(k, r[a], a)
  <2>1. k[Start(a)] = IF n - 1 = 0 THEN End(a) ELSE Entry(Tail(s)[1])
    <3>1. n # 1 => Tail(s)[1] = s[1 + 1] /\ 1 + 1 = 2
      BY <1>1, <1>8
    <3>2. n - 1 = 0 <=> n = 1
      BY <1>1
    <3>3. QED
      BY <1>1, <1>5, <3>1, <3>2
  <2>2. ASSUME NEW i \in 1 .. n - 1
        PROVE  k[Entry(Tail(s)[i])] = IF i = n - 1 THEN End(a) ELSE Entry(Tail(s)[i + 1])
    <3>1. i + 1 \in 1 .. n /\ Tail(s)[i] = s[i + 1]
      BY <1>1, <1>8
    <3>2. m[Entry(s[i + 1])] = IF i + 1 = n THEN End(a) ELSE Entry(s[(i + 1) + 1])
      BY <1>n, <3>1, MemoryFacts DEF Chain
    <3>3. i # n - 1 => Tail(s)[i + 1] = s[(i + 1) + 1]
      BY <1>1, <1>8
    <3>4. k[Entry(s[i + 1])] = m[Entry(s[i + 1])]
      BY <1>1, <1>6, <3>1
    <3>5. i + 1 = n <=> i = n - 1
      BY <1>1
    <3>6. QED
      BY <3>1, <3>2, <3>3, <3>4, <3>5
  <2>3. k[End(a)] = IF n - 1 = 0 THEN Start(a) ELSE Entry(Tail(s)[n - 1])
    <3>1. m[End(a)] = Entry(s[n])
      BY <1>1, <1>n, MemoryFacts DEF Chain
    <3>2. n # 1 => Tail(s)[n - 1] = s[n]
      <4>1. n # 1 => n - 1 \in 1 .. n - 1 /\ (n - 1) + 1 = n
        BY <1>1
      <4>2. QED
        BY <1>8, <4>1
    <3>3. n - 1 = 0 <=> n = 1
      BY <1>1
    <3>4. QED
      BY <1>5, <3>1, <3>2, <3>3
  <2>4. QED
    BY <1>7, <1>8, <2>1, <2>2, <2>3 DEF Chain
<1>10. ASSUME NEW b \in QueueNames, b # a
       PROVE  Chain(k, r[b], b)
  <2>1. Chain(m, q[b], b) /\ \A i \in 1 .. Len(q[b]) : q[b][i] \in Threads
    BY MemoryFacts
  <2>2. /\ k[Start(b)] = m[Start(b)] /\ k[End(b)] = m[End(b)]
        /\ \A i \in 1 .. Len(q[b]) : k[Entry(q[b][i])] = m[Entry(q[b][i])]
    BY <1>5, <1>6, <1>10, <2>1, NodeFacts
  <2>3. QED
    BY <1>7, <1>10, <2>1, <2>2, ChainSame
<1>11. \A b \in QueueNames : Chain(k, r[b], b)
  BY <1>9, <1>10
<1>12. QueuesOK(r)
  BY <1>7 DEF Removed, QueuesOK
<1>13. QED
  BY <1>5, <1>6, <1>7, <1>n, <1>11, <1>12, MemoryIntro DEF k, r

(* push_to_queue likewise; the next of the last entry, which was the end   *)
(* entry, is the only other one that it changes.                           *)
LEMMA PushKeepsMemory ==
    ASSUME NEW m, NEW q, MemoryOK(m, q), NEW a \in QueueNames,
           NEW t \in Threads, ~ Listed(q, t)
    PROVE  /\ MemoryOK(pushed(m, Entry(t), a), push_to_queue(t, q, a))
           /\ Added(q, push_to_queue(t, q, a), QueueNames, Threads, a, t)
           /\ \A u \in Threads : u # t /\ ~ EndsAt(m[Entry(u)]) =>
                  pushed(m, Entry(t), a)[Entry(u)] = m[Entry(u)]
<1> DEFINE s == q[a]
           n == Len(s)
           e == Entry(t)
           l == m[End(a)]
           k == pushed(m, e, a)
           r == push_to_queue(t, q, a)
<1>1. /\ n \in Nat /\ s \in Seq(Threads) /\ l = IF n = 0 THEN Start(a) ELSE Entry(s[n])
      /\ \A i \in 1 .. n : s[i] \in Threads /\ s[i] # t
  <2>1. Len(q[a]) \in Nat /\ q[a] \in Seq(Threads)
    BY MemoryFacts DEF MemoryOK, QueuesOK
  <2>2. \A i \in 1 .. Len(q[a]) : q[a][i] # t
    BY MemoryFacts DEF Listed, Holds
  <2>3. QED
    BY <2>1, <2>2, MemoryFacts DEF Chain
<1>2. n # 0 => n \in 1 .. n /\ m[Entry(s[n])] = End(a)
  <2>1. n # 0 => n \in 1 .. n
    BY <1>1
  <2>2. QED
    BY <1>1, <2>1, MemoryFacts DEF Chain
<1>3. l \in Nodes /\ l # e /\ l # End(a) /\ e \in Nodes /\ e # End(a) /\ m \in [Nodes -> Nodes]
  BY <1>1, <1>2, NodeFacts DEF MemoryOK
<1>4. k = [[m EXCEPT ![l] = e] EXCEPT ![End(a)] = e, ![e] = End(a)]
  BY DEF pushed
<1>5. /\ k \in [Nodes -> Nodes]
      /\ k[l] = e /\ k[End(a)] = e /\ k[e] = End(a)
      /\ \A x \in Nodes : x # l /\ x # End(a) /\ x # e => k[x] = m[x]
  <2> HIDE DEF k, e, l, n
  <2>1. QED
    BY <1>3, <1>4, NodeFacts
<1>6. Added(q, r, QueueNames, Threads, a, t)
  BY PushFacts DEF MemoryOK, QueuesOK, Listed
<1>7. /\ r[a] = Append(s, t) /\ \A b \in QueueNames \ {a} : r[b] = q[b]
      /\ Len(Append(s, t)) = n + 1 /\ Append(s, t)[n + 1] = t
      /\ \A i \in 1 .. n : Append(s, t)[i] = s[i]
  <2>1. r[a] = Append(s, t) /\ \A b \in QueueNames \ {a} : r[b] = q[b]
    BY DEF push_to_queue, MemoryOK, QueuesOK
  <2>2. QED
    BY <1>1, <2>1, AppendProperties
<1> HIDE DEF k, r, e, l
<1>8. ASSUME NEW u \in Threads, u # t, ~ EndsAt(m[Entry(u)])
      PROVE  k[Entry(u)] = m[Entry(u)]
  <2>1. Entry(u) # l /\ Entry(u) # End(a) /\ Entry(u) # e
    BY <1>1, <1>2, <1>8, NodeFacts DEF e
  <2>2. QED
    BY <1>5, <2>1, NodeFacts
<1>9. Chain(k, r[a], a)
  <2>1. k[Start(a)] = Entry(Append(s, t)[1])
    <3>1. CASE n = 0
      BY <1>1, <1>5, <1>7, <3>1 DEF e
    <3>2. CASE n # 0
      <4>1. /\ m[Start(a)] = Entry(s[1]) /\ Append(s, t)[1] = s[1]
            /\ Start(a) # l /\ Start(a) # End(a) /\ Start(a) # e
        BY <1>1, <1>7, <3>2, MemoryFacts, NodeFacts DEF Chain, e
      <4>2. QED
        BY <1>5, <4>1, NodeFacts
    <3>3. QED
      BY <3>1, <3>2
  <2>2. ASSUME NEW i \in 1 .. n + 1
        PROVE  k[Entry(Append(s, t)[i])] =
                   IF i = n + 1 THEN End(a) ELSE Entry(Append(s, t)[i + 1])
    <3>1. CASE i = n + 1
      BY <1>5, <1>7, <3>1 DEF e
    <3>2. CASE i = n
      BY <1>1, <1>5, <1>7, <2>2, <3>2 DEF e
    <3>3. CASE i \in 1 .. n - 1
      <4>1. /\ Append(s, t)[i] = s[i] /\ Append(s, t)[i + 1] = s[i + 1]
            /\ i \in 1 .. n /\ i # n /\ i + 1 \in 1 .. n
        BY <1>1, <1>7, <3>3
      <4>2. m[Entry(s[i])] = Entry(s[i + 1])
        BY <4>1, MemoryFacts DEF Chain
      <4>3. s[i] \in Threads /\ s[i] # t /\ ~ EndsAt(m[Entry(s[i])])
        BY <1>1, <4>1, <4>2, NodeFacts
      <4>4. QED
        BY <1>1, <1>8, <3>3, <4>1, <4>2, <4>3
    <3>4. QED
      BY <1>1, <2>2, <3>1, <3>2, <3>3
  <2>3. k[End(a)] = Entry(Append(s, t)[n + 1])
    BY <1>5, <1>7 DEF e
  <2>4. n + 1 # 0
    BY <1>1
  <2>5. QED
    BY <1>7, <2>1, <2>2, <2>3, <2>4 DEF Chain
<1>10. ASSUME NEW b \in QueueNames, b # a
       PROVE  Chain(k, r[b], b)
  <2>1. /\ Chain(m, q[b], b) /\ DOMAIN q[b] = 1 .. Len(q[b])
        /\ \A i \in 1 .. Len(q[b]) : q[b][i] \in Threads /\ q[b][i] # t
    BY MemoryFacts DEF Listed, Holds
  <2>2. k[Start(b)] = m[Start(b)] /\ k[End(b)] = m[End(b)]
    <3>1. /\ Start(b) # l /\ Start(b) # End(a) /\ Start(b) # e
          /\ End(b) # l /\ End(b) # End(a) /\ End(b) # e
      BY <1>1, <1>10, NodeFacts DEF e
    <3>2. QED
      BY <1>5, <3>1, NodeFacts
  <2>3. ASSUME NEW i \in 1 .. Len(q[b])
        PROVE  k[Entry(q[b][i])] = m[Entry(q[b][i])]
    <3>1. Entry(q[b][i]) # l
      <4>1. CASE n = 0
        BY <1>1, <4>1, NodeFacts
      <4>2. CASE n # 0
        <5>1. s[n] # q[b][i]
          <6>1. n \in DOMAIN q[a] /\ i \in DOMAIN q[b] /\ OnePosition(q, QueueNames)
            BY <1>2, <2>1, <4>2, MemoryFacts DEF MemoryOK, QueuesOK
          <6>2. QED
            BY <1>10, <6>1 DEF OnePosition
        <5>2. QED
          BY <1>1, <4>2, <5>1, NodeFacts
      <4>3. QED
        BY <4>1, <4>2
    <3>2. Entry(q[b][i]) # End(a) /\ Entry(q[b][i]) # e /\ Entry(q[b][i]) \in Nodes
      BY <2>1, NodeFacts DEF e
    <3>3. QED
      BY <1>5, <3>1, <3>2
  <2>4. QED
    BY <1>7, <1>10, <2>1, <2>2, <2>3, ChainSame
<1>11. \A b \in QueueNames : Chain(k, r[b], b)
  BY <1>9, <1>10
<1>12. QueuesOK(r)
  BY <1>6 DEF Added, QueuesOK
<1>13. QED
  BY <1>5, <1>6, <1>8, <1>11, <1>12, MemoryIntro DEF k, r, e

(* Both, as svc_add_thread makes them. *)
LEMMA MoveKeepsMemory ==
    ASSUME NEW m, NEW q, MemoryOK(m, q), q[Free] # <<>>, NEW a \in QueueNames,
           NEW t, t = Head(q[Free])
    PROVE  /\ MemoryOK(pushed(popped(m, Free), Entry(t), a), MoveHead(q, Free, a))
           /\ t \in Threads /\ Holds(q, Free, t)
           /\ Moved(q, MoveHead(q, Free, a), QueueNames, Threads, t, a)
           /\ \A u \in Threads : u # t /\ ~ EndsAt(m[Entry(u)]) =>
                  pushed(popped(m, Free), Entry(t), a)[Entry(u)] = m[Entry(u)]
<1>1. Free \in QueueNames /\ q \in [QueueNames -> Seq(Threads)] /\ OnePosition(q, QueueNames)
  BY PoolFacts DEF MemoryOK, QueuesOK
<1>2. /\ t \in Threads /\ Holds(q, Free, t)
      /\ Moved(q, MoveHead(q, Free, a), QueueNames, Threads, t, a)
  BY <1>1, MoveHeadFacts
<1>3. PICK k, r : k = popped(m, Free) /\ r = pop_from_queue(q, Free)
  OBVIOUS
<1>4. /\ MemoryOK(k, r) /\ Removed(q, r, QueueNames, Threads, Free, t)
      /\ \A u \in Threads : k[Entry(u)] = m[Entry(u)]
  BY <1>1, <1>3, PopKeepsMemory
<1>5. ~ Listed(r, t)
  BY <1>4 DEF Removed, Listed
<1>6. /\ MemoryOK(pushed(k, Entry(t), a), push_to_queue(t, r, a))
      /\ \A u \in Threads : u # t /\ ~ EndsAt(k[Entry(u)]) =>
             pushed(k, Entry(t), a)[Entry(u)] = k[Entry(u)]
  BY <1>2, <1>4, <1>5, PushKeepsMemory
<1>7. MoveHead(q, Free, a) = push_to_queue(t, r, a)
  BY <1>3 DEF MoveHead
<1>8. QED
  BY <1>2, <1>3, <1>4, <1>6, <1>7

(* next_thread finds in the memory what stands first on the sequences. *)
LEMMA NextFacts ==
    ASSUME NEW m, NEW q, MemoryOK(m, q), NEW t
    PROVE  IsNextThread(m, t) <=> IsNext(q, t)
<1>1. ASSUME NEW p \in Priority
      PROVE  /\ entry_type(m[Start(Ready(p))]) = "end" <=> q[Ready(p)] = <<>>
             /\ m[Start(Ready(p))] = Entry(t) <=> q[Ready(p)] # <<>> /\ t = Head(q[Ready(p)])
  <2>1. Ready(p) \in QueueNames
    BY PoolFacts
  <2>2. /\ EndsAt(m[Start(Ready(p))]) <=> q[Ready(p)] = <<>>
        /\ q[Ready(p)] # <<>> => m[Start(Ready(p))] = Entry(Head(q[Ready(p)]))
    BY <2>1, MemoryFacts
  <2>3. QED
    BY <2>2, NodeFacts DEF EndsAt
<1>2. QED
  BY <1>1 DEF IsNextThread, IsNext
(* Where a thread is listed, and that it is not in two places. *)
LEMMA ListedFacts ==
    ASSUME NEW q, QueuesOK(q), NEW t
    PROVE  /\ Listed(q, t) <=> Holds(q, Free, t) \/ InReady(q, t)
           /\ Listed(q, t) => t \in Threads
           /\ ~ (Holds(q, Free, t) /\ InReady(q, t))
           /\ \A p, b \in Priority : Holds(q, Ready(p), t) /\ Holds(q, Ready(b), t) => p = b
<1>1. \A a \in QueueNames : Holds(q, a, t) => t \in Threads
  BY HoldsIn DEF QueuesOK
<1>2. \A a, b \in QueueNames : Holds(q, a, t) /\ Holds(q, b, t) => a = b
  BY DEF QueuesOK, OnePosition, Holds
<1>3. QED
  BY <1>1, <1>2, PoolFacts DEF Listed, InReady

(* The thread that next_thread finds stands at the head of its own queue. *)
LEMMA NextThreadFacts ==
    ASSUME NEW q, NEW l, NEW t \in Threads, QueuesOK(q), LevelsOK(q, l), IsNext(q, t)
    PROVE  /\ InReady(q, t) /\ l[t] \in Priority
           /\ q[Ready(l[t])] # <<>> /\ Head(q[Ready(l[t])]) = t
           /\ Holds(q, Ready(l[t]), t)
<1>1. PICK p \in Priority : q[Ready(p)] # <<>> /\ t = Head(q[Ready(p)])
  BY PoolFacts DEF IsNext
<1>2. Holds(q, Ready(p), t)
  BY <1>1, HoldsIn, PoolFacts DEF QueuesOK
<1>3. l[t] = p
  BY <1>2 DEF LevelsOK
<1>4. QED
  BY <1>1, <1>2, <1>3 DEF InReady

(* Where no window is open, the memory is what the queues mean. *)
LEMMA SettledFacts ==
    ASSUME ThreadsOK, "queue" \notin Window
    PROVE  Settled = next /\ MemoryOK(next, queue)
<1>1. pc.name \notin {"append", "close"}
  BY DEF Window
<1>2. CASE pc.name = "untail"
  <2>1. ~ EndsAt(next[Entry(pc.s)])
    BY <1>2 DEF Window
  <2>2. Settled = [next EXCEPT ![End(Own)] = next[End(Own)]]
    BY <1>2, <2>1 DEF Settled
  <2>3. [next EXCEPT ![End(Own)] = next[End(Own)]] = next
    BY DEF ThreadsOK
  <2>4. QED
    BY <2>2, <2>3 DEF ThreadsOK
<1>3. CASE pc.name # "untail"
  BY <1>1, <1>3 DEF Settled, ThreadsOK
<1>4. QED
  BY <1>2, <1>3

(* What the branches of c_irq_handler keep, about the record S of memory,  *)
(* queues, contexts, levels and former places that they pass on.           *)
BranchOK(S) ==
    /\ MemoryOK(S.m, S.q) /\ LevelsOK(S.q, S.l) /\ SavedOK(S.m, S.q, S.c)
    /\ DOMAIN S.f = Threads \cup {usrloopthread}
    /\ \A t \in Threads : /\ Listed(S.q, t) <=> Listed(queue, t)
                          /\ Holds(S.q, Free, t) => Holds(queue, Free, t)
    /\ \A t \in Threads : /\ Holds(S.q, Free, t) => S.c[t].name \notin InTable
                          /\ S.c[t] = saved[t] \/ (Holds(queue, Free, t) /\ S.c[t] = At("run"))
    /\ \A t \in Threads : ~ Holds(queue, Free, t) /\ ~ EndsAt(next[Entry(t)])
                             => S.m[Entry(t)] = next[Entry(t)]
    /\ "context" \notin struck => CalmOK(S.q, S.c, S.f)

(* svc_add_thread takes the first free thread, if there is one, and gives  *)
(* it its place at the end of a ready queue and a fresh context.           *)
LEMMA AddThreadFacts ==
    ASSUME NEW S, BranchOK(S), NEW arg \in Nat
    PROVE  BranchOK(AddThread(S, arg))
<1>0. /\ MemoryOK(S.m, S.q)
      /\ EndsAt(S.m[Start(Free)]) <=> S.q[Free] = <<>>
      /\ S.q[Free] # <<>> => S.m[Start(Free)][2] = Head(S.q[Free])
  <2>1. MemoryOK(S.m, S.q)
    BY DEF BranchOK
  <2>2. QED
    BY <2>1, MemoryFacts, PoolFacts, NodeFacts
<1>1. CASE S.q[Free] = <<>>
  BY <1>0, <1>1 DEF AddThread
<1>2. CASE S.q[Free] # <<>>
  <2> DEFINE t == Head(S.q[Free])
             p == IF arg >= PRIORITIES THEN PRIORITIES - 1 ELSE arg
             R == AddThread(S, arg)
  <2>1. p \in Priority
    BY PoolAssumption DEF Priority
  <2>2. /\ R.m = pushed(popped(S.m, Free), Entry(t), Ready(p))
        /\ R.q = MoveHead(S.q, Free, Ready(p))
        /\ R.c = [u \in DOMAIN S.c |->
                     IF u = t THEN At("run")
                     ELSE IF S.c[u] = [name |-> "loadsp", s |-> t] THEN Garbage ELSE S.c[u]]
        /\ R.l = [S.l EXCEPT ![t] = p]
        /\ R.f = [S.f EXCEPT ![t] = At("run")]
    BY <1>0, <1>2 DEF AddThread
  <2>3. /\ Moved(S.q, R.q, QueueNames, Threads, t, Ready(p))
        /\ Holds(S.q, Free, t) /\ t \in Threads
        /\ MemoryOK(R.m, R.q)
        /\ \A u \in Threads : u # t /\ ~ EndsAt(S.m[Entry(u)]) => R.m[Entry(u)] = S.m[Entry(u)]
    <3>1. Ready(p) \in QueueNames /\ MemoryOK(S.m, S.q) /\ t = Head(S.q[Free])
      BY <1>0, <2>1, PoolFacts
    <3> HIDE DEF t, p, R
    <3>2. QED
      BY <1>2, <2>2, <3>1, MoveKeepsMemory
  <2> HIDE DEF t, p, R
  <2>4. /\ QueuesOK(R.q)
        /\ \A a \in QueueNames : \A u : Holds(R.q, a, u) <=>
               IF u = t THEN a = Ready(p) ELSE Holds(S.q, a, u)
    BY <2>3 DEF Moved, MemoryOK
  <2>5. \A u : /\ Holds(R.q, Free, u) <=> Holds(S.q, Free, u) /\ u # t
               /\ InReady(R.q, u) <=> u = t \/ InReady(S.q, u)
               /\ Listed(R.q, u) <=> Listed(S.q, u)
    BY <2>1, <2>3, <2>4, PoolFacts DEF InReady, Listed
  <2>6. LevelsOK(R.q, R.l)
    <3>1. R.l \in [Threads -> Priority]
      BY <2>1, <2>2, <2>3 DEF BranchOK, LevelsOK
    <3>2. ASSUME NEW b \in Priority, NEW u \in Threads, Holds(R.q, Ready(b), u)
          PROVE  R.l[u] = b
      BY <2>1, <2>2, <2>3, <2>4, <3>2, PoolFacts DEF BranchOK, LevelsOK
    <3>3. QED
      BY <3>1, <3>2 DEF LevelsOK
  <2>7. /\ DOMAIN R.c = Threads \cup {usrloopthread}
        /\ R.c[t] = At("run")
        /\ \A u \in Threads : u # t => R.c[u] = S.c[u]
        /\ \/ R.c[usrloopthread] = S.c[usrloopthread]
           \/ S.c[usrloopthread].name = "loadsp" /\ R.c[usrloopthread] = Garbage
    BY <2>2, <2>3, PoolFacts DEF BranchOK, SavedOK, RestOK, PlaceOK
  <2>8. SavedOK(R.m, R.q, R.c)
    <3>1. ASSUME NEW u \in Threads
          PROVE  RestOK(R.m, R.q, R.c[u], u)
      <4>1. CASE u = t
        BY <2>7, <4>1 DEF RestOK, PlaceOK, At
      <4>2. CASE u # t
        <5>1. RestOK(S.m, S.q, S.c[u], u) /\ R.c[u] = S.c[u]
          BY <2>7, <4>2 DEF BranchOK, SavedOK
        <5>2. ~ EndsAt(S.m[Entry(u)]) => R.m[Entry(u)] = S.m[Entry(u)]
          BY <2>3, <4>2
        <5>3. QED
          BY <2>5, <4>2, <5>1, <5>2 DEF RestOK, PlaceOK
      <4>3. QED
        BY <4>1, <4>2
    <3>2. R.c[usrloopthread].name \notin OnQueue \cup Ended
      BY <2>7 DEF BranchOK, SavedOK, Garbage, At, OnQueue, Ended
    <3>3. QED
      BY <2>7, <3>1, <3>2 DEF SavedOK
  <2>9. /\ DOMAIN R.f = Threads \cup {usrloopthread}
        /\ \A u \in Threads : R.f[u] = IF u = t THEN At("run") ELSE S.f[u]
    BY <2>2, <2>3 DEF BranchOK
  <2>10. "context" \notin struck => CalmOK(R.q, R.c, R.f)
    <3>1. ASSUME CalmOK(S.q, S.c, S.f)
          PROVE  CalmOK(R.q, R.c, R.f)
      <4>1. \A u \in Threads : u # rthread /\ ~ Holds(R.q, Free, u) => R.c[u] = R.f[u]
        BY <2>5, <2>7, <2>9, <3>1 DEF CalmOK
      <4>2. \A u \in Threads : u # rthread /\ InReady(R.q, u) => R.c[u].name \in OnQueue
        BY <2>5, <2>7, <3>1 DEF CalmOK, At, OnQueue
      <4>3. rthread # usrloopthread => IdleOK(R.c[usrloopthread])
        BY <2>7, <3>1 DEF CalmOK, IdleOK, At
      <4>4. QED
        BY <4>1, <4>2, <4>3 DEF CalmOK
    <3>2. QED
      BY <3>1 DEF BranchOK
  <2>11. \A u \in Threads :
             /\ Holds(R.q, Free, u) => R.c[u].name \notin InTable
             /\ R.c[u] = saved[u] \/ (Holds(queue, Free, u) /\ R.c[u] = At("run"))
    BY <2>3, <2>5, <2>7 DEF BranchOK
  <2>12. \A u \in Threads : ~ Holds(queue, Free, u) /\ ~ EndsAt(next[Entry(u)])
                             => R.m[Entry(u)] = next[Entry(u)]
    <3>1. ASSUME NEW u \in Threads, ~ Holds(queue, Free, u), ~ EndsAt(next[Entry(u)])
          PROVE  R.m[Entry(u)] = next[Entry(u)]
      <4>1. S.m[Entry(u)] = next[Entry(u)] /\ u # t
        BY <2>3, <3>1 DEF BranchOK
      <4>2. QED
        BY <2>3, <3>1, <4>1
    <3>2. QED
      BY <3>1
  <2>13. QED
    BY <2>3, <2>5, <2>6, <2>8, <2>9, <2>10, <2>11, <2>12 DEF BranchOK, R
<1>3. QED
  BY <1>1, <1>2

(* c_irq_handler, whichever of its branches are taken. *)
LEMMA AddThreadsFacts ==
    ASSUME ThreadsOK, MemoryOK(next, queue), NEW g \in Infos
    PROVE  BranchOK(AddThreads(g))
<1> DEFINE base   == [m |-> next, q |-> queue, c |-> saved, l |-> priority, f |-> left]
           uart   == Branch(base, UART_IRQ, g)
           gpio   == Branch(uart, GPIO_BANK_1_IRQ, g)
           timer1 == Branch(gpio, 1, g)
           timer2 == Branch(timer1, 2, g)
           timer3 == Branch(timer2, 3, g)
<1>1. BranchOK(base)
  BY DEF ThreadsOK, BranchOK, InfoOK, ContextOK
<1>2. ASSUME NEW S, BranchOK(S), NEW s
      PROVE  BranchOK(Branch(S, s, g))
  <2>1. s \in Served(g) => InfoAt(s, g).priority \in Nat
    BY InfosAssumption DEF ThreadsOK, InfoOK, InfoAt, Served
  <2>2. QED
    BY <1>2, <2>1, AddThreadFacts DEF Branch
<1>3. AddThreads(g) = Branch(timer3, 4, g)
  BY DEF AddThreads
<1> HIDE DEF base
<1>4. BranchOK(uart)
  BY <1>1, <1>2
<1> HIDE DEF uart
<1>5. BranchOK(gpio)
  BY <1>4, <1>2
<1> HIDE DEF gpio
<1>6. BranchOK(timer1)
  BY <1>5, <1>2
<1> HIDE DEF timer1
<1>7. BranchOK(timer2)
  BY <1>6, <1>2
<1> HIDE DEF timer2
<1>8. BranchOK(timer3)
  BY <1>7, <1>2
<1> HIDE DEF timer3
<1>9. QED
  BY <1>2, <1>3, <1>8
-----------------------------------------------------------------------------
(* The switch, from the place x on queues q with the contexts c: whoever   *)
(* comes next goes on at a place that fits it.                             *)
Link(link, irqlink) == IF irqlink = NoPc THEN link ELSE irqlink

LEMMA ScheduleFacts ==
    ASSUME PcOK, NEW m, NEW q, NEW c, NEW link, NEW irqlink, NEW x, x = Link(link, irqlink),
           MemoryOK(m, q), SavedOK(m, q, c), schedule(m, c, link, irqlink), queue' = q,
           rthread \in Threads => RestOK(m, q, x, rthread),
           rthread = usrloopthread => x.name \notin OnQueue \cup Ended
    PROVE  /\ next' = m /\ SavedOK(m, q, saved') /\ PcOK' /\ Settled' = next'
           /\ rthread' \in Threads \cup {usrloopthread} /\ IsNext(q, rthread')
           /\ saved'[rthread'] = NoPc
           /\ rthread' # rthread => saved'[rthread] = x
           /\ \A u \in (Threads \cup {usrloopthread}) \ {rthread, rthread'} : saved'[u] = c[u]
           /\ pc' = IF rthread' = rthread THEN x ELSE c[rthread']
<1>1. PICK t \in Threads \cup {usrloopthread} :
          /\ IsNextThread(m, t)
          /\ rthread' = t /\ next' = m /\ irqlr' = NoPc
          /\ restore_ctx(preserve_ctx(c, x), t)
  BY DEF schedule, Link
<1>2. /\ saved' = [[c EXCEPT ![rthread] = x] EXCEPT ![t] = NoPc]
      /\ pc' = [c EXCEPT ![rthread] = x][t]
  BY <1>1 DEF restore_ctx, preserve_ctx
<1>3. DOMAIN c = Threads \cup {usrloopthread} /\ rthread \in Threads \cup {usrloopthread}
  BY DEF SavedOK, PcOK
<1>4. /\ DOMAIN saved' = Threads \cup {usrloopthread}
      /\ saved'[t] = NoPc
      /\ t # rthread => saved'[rthread] = x
      /\ \A u \in (Threads \cup {usrloopthread}) \ {rthread, t} : saved'[u] = c[u]
      /\ pc' = IF t = rthread THEN x ELSE c[t]
  BY <1>1, <1>2, <1>3
<1>5. SavedOK(m, q, saved')
  <2>1. \A u : RestOK(m, q, NoPc, u)
    BY DEF RestOK, PlaceOK, NoPc, At
  <2>2. NoPc.name \notin OnQueue \cup Ended
    BY DEF NoPc, At, OnQueue, Ended
  <2>3. \A u \in Threads : RestOK(m, q, saved'[u], u)
    BY <1>3, <1>4, <2>1, PoolFacts DEF SavedOK
  <2>4. saved'[usrloopthread].name \notin OnQueue \cup Ended
    BY <1>1, <1>3, <1>4, <2>2 DEF SavedOK
  <2>5. QED
    BY <1>4, <2>3, <2>4 DEF SavedOK
<1>6. IsNext(q, t) /\ (t \in Threads => Listed(q, t) /\ ~ Holds(q, Free, t))
  <2>1. IsNext(q, t)
    BY <1>1, NextFacts
  <2>2. ASSUME t \in Threads
        PROVE  InReady(q, t)
    <3>1. PICK p \in Priority : q[Ready(p)] # <<>> /\ t = Head(q[Ready(p)])
      BY <2>1, <2>2, PoolFacts DEF IsNext
    <3>2. Ready(p) \in QueueNames /\ q \in [QueueNames -> Seq(Threads)]
      BY PoolFacts DEF MemoryOK, QueuesOK
    <3>3. Holds(q, Ready(p), Head(q[Ready(p)]))
      BY <3>1, <3>2, HoldsIn
    <3>4. QED
      BY <3>1, <3>3 DEF InReady
  <2>3. QED
    BY <2>1, <2>2, ListedFacts DEF MemoryOK
<1>7. /\ t \in Threads => RestOK(m, q, pc', t)
      /\ t = usrloopthread => pc'.name \notin OnQueue \cup Ended
  BY <1>4 DEF SavedOK
<1>8. pc'.name \notin {"untail", "link", "append", "close"}
  <2>1. CASE t \in Threads
    BY <1>6, <1>7, <2>1 DEF RestOK, PlaceOK
  <2>2. CASE t = usrloopthread
    BY <1>7, <2>2 DEF Ended
  <2>3. QED
    BY <2>1, <2>2
<1>9. PcOK'
  <2>1. t \in Threads => PlaceOK(next', queue', pc', t)
    BY <1>1, <1>7 DEF RestOK
  <2>2. /\ rthread' \in Threads => PlaceOK(next', queue', pc', rthread')
        /\ pc'.name \in OnQueue => rthread' \in Threads /\ IsNext(queue', rthread')
        /\ pc'.name \in Ended => rthread' \in Threads
        /\ rthread' \in Threads => saved'[rthread'] = NoPc
        /\ irqlr' = NoPc
    BY <1>1, <1>4, <1>6, <1>7, <2>1
  <2>3. QED
    BY <1>1, <2>2 DEF PcOK, PlaceOK, Listed, Holds, IsNext, OnQueue, Ended
<1>10. Settled' = next'
  BY <1>8 DEF Settled
<1>11. QED
  BY <1>1, <1>4, <1>5, <1>6, <1>9, <1>10

(* What the switch does to the contexts as long as none was lost. *)
LEMMA ScheduleKeepsContexts ==
    ASSUME PcOK, NEW q, NEW l, NEW c, NEW f, NEW x, QueuesOK(q), LevelsOK(q, l), CalmOK(q, c, f),
           DOMAIN f = Threads \cup {usrloopthread},
           queue' = q, rthread' \in Threads \cup {usrloopthread}, IsNext(q, rthread'),
           saved'[rthread'] = NoPc, rthread' # rthread => saved'[rthread] = x,
           \A u \in (Threads \cup {usrloopthread}) \ {rthread, rthread'} : saved'[u] = c[u],
           pc' = IF rthread' = rthread THEN x ELSE c[rthread'],
           left' = [f EXCEPT ![rthread] = x, ![rthread'] = NoPc],
           rthread \in Threads /\ InReady(q, rthread) => x.name \in OnQueue,
           rthread = usrloopthread => IdleOK(x)
    PROVE  ContextOK'
<1>1. rthread \in Threads \cup {usrloopthread}
  BY DEF PcOK
<1>2. \A t \in Threads : t # rthread' => saved'[t] = left'[t] \/ (t # rthread /\ Holds(q, Free, t))
  BY <1>1 DEF CalmOK
<1>3. \A t \in Threads : t # rthread' /\ InReady(q, t) => saved'[t].name \in OnQueue
  BY <1>1 DEF CalmOK
<1>4. rthread' # usrloopthread => IdleOK(saved'[usrloopthread])
  BY <1>1 DEF CalmOK
<1>5. rthread' \in Threads => pc'.name \in OnQueue
  BY NextThreadFacts DEF CalmOK
<1>6. rthread' = usrloopthread => IdleOK(pc')
  BY DEF CalmOK
<1>7. CalmOK(queue, saved, left)'
  <2>1. /\ \A t \in Threads : t # rthread' /\ ~ Holds(queue', Free, t) => saved'[t] = left'[t]
        /\ \A t \in Threads : t # rthread' /\ InReady(queue', t) => saved'[t].name \in OnQueue
        /\ rthread' # usrloopthread => IdleOK(saved'[usrloopthread])
    BY <1>2, <1>3, <1>4
  <2>2. QED
    BY <2>1 DEF CalmOK, InReady, Holds, IdleOK, OnQueue
<1>8. /\ pc'.name \in OnQueue \cup IdleAt
      /\ pc'.name \in IdleAt <=> rthread' = usrloopthread
  BY <1>5, <1>6, PoolFacts DEF IdleOK, IdleAt, OnQueue
<1>9. pc'.name \notin {"append", "close", "freed"}
  BY <1>8 DEF OnQueue, IdleAt
<1>10. QED
  BY <1>7, <1>8, <1>9 DEF ContextOK, OnQueue, IdleAt, Ended
-----------------------------------------------------------------------------
-----------------------------------------------------------------------------
(* The invariant of the next state from what is known of its parts. *)
LEMMA ThreadsIntro ==
    ASSUME client' \in Clients, DOMAIN left' = Threads \cup {usrloopthread},
           next' \in [Nodes -> Nodes], MemoryOK(Settled', queue'), LevelsOK(queue', priority'),
           SavedOK(next', queue', saved'), PcOK', InfoOK', PoolOK', ContextOK'
    PROVE  ThreadsOK'
<1>1. MemoryOK(Settled, queue)'
  BY DEF MemoryOK, QueuesOK, OnePosition, Represents, LinkedAs, EntriesOf
<1>2. LevelsOK(queue, priority)'
  BY DEF LevelsOK, Holds
<1>3. SavedOK(next, queue, saved)'
  BY DEF SavedOK, RestOK, PlaceOK, Listed, Holds, OnQueue, Ended
<1>4. QED
  BY <1>1, <1>2, <1>3 DEF ThreadsOK

(* The instance's pool, all of it free. *)
LEMMA PoolInit ==
    ASSUME client \in Clients
    PROVE  /\ MemoryOK(init_scheduler, InitQueue)
           /\ InitQueue[Free] # <<>> /\ Head(InitQueue[Free]) = 0
           /\ \A t : Holds(InitQueue, Free, t) <=> t \in 0 .. client.threads - 1
           /\ \A p \in Priority : \A t : ~ Holds(InitQueue, Ready(p), t)
<1> DEFINE n == client.threads
           pool == [i \in 1 .. n |-> i - 1]
<1>1. n \in Nat \ {0} /\ n <= MAX_THREADS /\ MAX_THREADS \in Nat
  BY PoolAssumption, ClientsAssumption
<1>2. \A i \in 1 .. n : i - 1 \in Threads /\ (i # n => i \in Threads)
  BY <1>1 DEF Threads
<1>3. pool \in Seq(Threads) /\ Len(pool) = n /\ \A i \in 1 .. n : pool[i] = i - 1
  <2> HIDE DEF n
  <2>1. pool \in Seq(Threads)
    BY <1>1, <1>2, IsASeq
  <2>2. DOMAIN pool = 1 .. n /\ DOMAIN pool = 1 .. Len(pool) /\ Len(pool) \in Nat
    BY <2>1, LenProperties
  <2>3. QED
    BY <1>1, <2>1, <2>2
<1>4. /\ \A a \in QueueNames : InitQueue[a] = IF a = Free THEN pool ELSE <<>>
      /\ DOMAIN InitQueue = QueueNames
      /\ InitQueue = [a \in QueueNames |-> IF a = Free THEN pool ELSE <<>>]
  BY DEF InitQueue
<1> HIDE DEF n, pool
<1>5. <<>> \in Seq(Threads) /\ Len(<<>>) = 0 /\ DOMAIN <<>> = {}
  OBVIOUS
<1>6. InitQueue \in [QueueNames -> Seq(Threads)]
  BY <1>3, <1>4, <1>5
<1>7. DOMAIN pool = 1 .. n
  BY <1>3, LenProperties
<1>8. QueuesOK(InitQueue)
  <2> SUFFICES ASSUME NEW a \in QueueNames, NEW b \in QueueNames,
                      NEW i \in DOMAIN InitQueue[a], NEW j \in DOMAIN InitQueue[b],
                      InitQueue[a][i] = InitQueue[b][j]
               PROVE  a = b /\ i = j
    BY <1>6 DEF OnePosition, QueuesOK
  <2>1. a = Free /\ b = Free /\ i \in 1 .. n /\ j \in 1 .. n
    BY <1>4, <1>5, <1>7
  <2>2. pool[i] = i - 1 /\ pool[j] = j - 1 /\ pool[i] = pool[j]
    BY <1>3, <1>4, <2>1
  <2>3. QED
    BY <1>1, <2>1, <2>2
<1>9. /\ \A t : Holds(InitQueue, Free, t) <=> t \in 0 .. n - 1
      /\ \A p \in Priority : \A t : ~ Holds(InitQueue, Ready(p), t)
      /\ InitQueue[Free] # <<>> /\ Head(InitQueue[Free]) = 0
  <2>1. InitQueue[Free] = pool /\ \A p \in Priority : InitQueue[Ready(p)] = <<>>
    BY <1>4, PoolFacts
  <2>2. \A t : (\E i \in 1 .. n : i - 1 = t) <=> t \in 0 .. n - 1
    <3>1. ASSUME NEW t \in 0 .. n - 1
          PROVE  t + 1 \in 1 .. n /\ (t + 1) - 1 = t
      BY <1>1, <3>1
    <3>2. ASSUME NEW i \in 1 .. n
          PROVE  i - 1 \in 0 .. n - 1
      BY <1>1, <3>2
    <3>3. QED
      BY <3>1, <3>2
  <2>3. pool # <<>>
    BY <1>1, <1>3, <1>5
  <2>4. Head(pool) = 0
    <3>1. Head(pool) = pool[1]
      BY <1>3, <2>3, HeadTailProperties
    <3>2. 1 \in 1 .. n /\ 1 - 1 = 0
      BY <1>1
    <3>3. QED
      BY <1>3, <3>1, <3>2
  <2>5. QED
    BY <1>3, <1>5, <1>7, <2>1, <2>2, <2>3, <2>4 DEF Holds
<1> DEFINE m == init_scheduler
<1>10. /\ \A t \in Threads : m[Entry(t)] = IF t < n - 1 THEN Entry(t + 1) ELSE End(Free)
       /\ m[Start(Free)] = Entry(0) /\ m[End(Free)] = Entry(n - 1)
       /\ \A p \in Priority : /\ m[Start(Ready(p))] = End(Ready(p))
                              /\ m[End(Ready(p))] = Start(Ready(p))
       /\ DOMAIN m = Nodes
  <2>1. /\ \A t : entry_type(Entry(t)) = "value" /\ Entry(t)[2] = t
        /\ \A a : /\ entry_type(Start(a)) = "start" /\ Start(a)[2] = a
                  /\ entry_type(End(a)) = "end" /\ End(a)[2] = a
        /\ "start" # "end" /\ "start" # "value" /\ "end" # "value"
    BY DEF Entry, Start, End, entry_type
  <2>2. m = [x \in Nodes |->
        CASE entry_type(x) = "value" -> IF x[2] < n - 1 THEN Entry(x[2] + 1) ELSE End(Free)
          [] x = Start(Free)         -> Entry(0)
          [] x = End(Free)           -> Entry(n - 1)
          [] OTHER -> IF entry_type(x) = "start" THEN End(x[2]) ELSE Start(x[2])]
    BY DEF init_scheduler, n
  <2> HIDE DEF m
  <2>3. \A t \in Threads : m[Entry(t)] = IF t < n - 1 THEN Entry(t + 1) ELSE End(Free)
    BY <2>1, <2>2, NodeFacts
  <2>4. m[Start(Free)] = Entry(0) /\ m[End(Free)] = Entry(n - 1)
    BY <2>1, <2>2, NodeFacts, PoolFacts
  <2>5. ASSUME NEW p \in Priority
        PROVE  m[Start(Ready(p))] = End(Ready(p)) /\ m[End(Ready(p))] = Start(Ready(p))
    <3>1. Ready(p) \in QueueNames /\ Ready(p) # Free
      BY PoolFacts
    <3>2. /\ Start(Ready(p)) \in Nodes /\ End(Ready(p)) \in Nodes
          /\ Start(Ready(p)) # Start(Free) /\ Start(Ready(p)) # End(Free)
          /\ End(Ready(p)) # Start(Free) /\ End(Ready(p)) # End(Free)
      BY <3>1, NodeFacts
    <3>3. QED
      BY <2>1, <2>2, <3>2
  <2>6. DOMAIN m = Nodes
    BY <2>2
  <2>7. QED
    BY <2>3, <2>4, <2>5, <2>6
<1>11. m \in [Nodes -> Nodes]
  <2>1. 0 \in Threads /\ n - 1 \in Threads /\ \A t \in Threads : t < n - 1 => t + 1 \in Threads
    BY <1>1 DEF Threads
  <2>2. ASSUME NEW x \in Nodes
        PROVE  m[x] \in Nodes
    <3>1. CASE \E t \in Threads : x = Entry(t)
      BY <1>10, <2>1, <3>1, NodeFacts, PoolFacts
    <3>2. CASE x \in {Start(Free), End(Free)}
      BY <1>10, <2>1, <3>2, NodeFacts
    <3>3. CASE \E p \in Priority : x = Start(Ready(p)) \/ x = End(Ready(p))
      BY <1>10, <3>3, NodeFacts, PoolFacts
    <3>4. QED
      BY <3>1, <3>2, <3>3, PoolFacts DEF Nodes
  <2>3. m = [x \in Nodes |-> m[x]]
    BY DEF init_scheduler
  <2> HIDE DEF m
  <2>4. QED
    BY <2>2, <2>3
<1> HIDE DEF m
<1>12. \A a \in QueueNames : Chain(m, InitQueue[a], a)
  <2>1. Chain(m, pool, Free)
    <3>1. n # 0 /\ 1 \in 1 .. n /\ 1 - 1 = 0 /\ n \in 1 .. n
      BY <1>1
    <3>2. ASSUME NEW i \in 1 .. n
          PROVE  m[Entry(pool[i])] = IF i = n THEN End(Free) ELSE Entry(pool[i + 1])
      <4>1. pool[i] = i - 1 /\ i - 1 \in Threads
        BY <1>2, <1>3
      <4>2. CASE i = n
        BY <1>1, <1>10, <4>1, <4>2
      <4>3. CASE i # n
        <5>1. i - 1 < n - 1 /\ (i - 1) + 1 = i /\ i + 1 \in 1 .. n /\ (i + 1) - 1 = i
          BY <1>1, <4>3
        <5>2. QED
          BY <1>3, <1>10, <4>1, <4>3, <5>1
      <4>4. QED
        BY <4>2, <4>3
    <3>3. QED
      BY <1>3, <1>10, <3>1, <3>2 DEF Chain
  <2>2. \A p \in Priority : Chain(m, <<>>, Ready(p))
    BY <1>5, <1>10 DEF Chain
  <2>3. QED
    BY <1>4, <2>1, <2>2, PoolFacts
<1>13. MemoryOK(m, InitQueue)
  BY <1>8, <1>11, <1>12, MemoryIntro
<1>14. QED
  BY <1>9, <1>13 DEF m, n

LEMMA InitPInv == Init => PInv
<1> SUFFICES ASSUME Init PROVE ThreadsOK
  BY DEF PInv
<1>1. /\ client \in Clients /\ client.threads \in Nat \ {0}
      /\ client.threads <= MAX_THREADS /\ MAX_THREADS \in Nat
  BY PoolAssumption, ClientsAssumption DEF Init, IrqInit
<1>2. /\ next = pushed(popped(init_scheduler, Free), Entry(0), Ready(0))
      /\ queue = MoveHead(InitQueue, Free, Ready(0))
  BY DEF Init
<1>3. /\ MemoryOK(next, queue) /\ next \in [Nodes -> Nodes]
      /\ \A a \in QueueNames : \A t :
             Holds(queue, a, t) <=> IF t = 0 THEN a = Ready(0) ELSE Holds(InitQueue, a, t)
  <2>1. MemoryOK(next, queue) /\ Moved(InitQueue, queue, QueueNames, Threads, 0, Ready(0))
    BY <1>1, <1>2, PoolInit, PoolFacts, MoveKeepsMemory
  <2>2. QED
    BY <2>1 DEF Moved, MemoryOK
<1>4. /\ Holds(queue, Ready(0), 0)
      /\ \A p \in Priority : \A t : Holds(queue, Ready(p), t) => p = 0 /\ t = 0
      /\ \A t \in 1 .. client.threads - 1 : Holds(queue, Free, t)
      /\ ~ Holds(queue, Free, 0)
  <2>1. \A t \in 1 .. client.threads - 1 : t # 0 /\ t \in 0 .. client.threads - 1
    BY <1>1
  <2>2. QED
    BY <1>1, <1>3, <2>1, PoolInit, PoolFacts
<1>5. LevelsOK(queue, priority)
  <2>1. priority = [t \in Threads |-> 0]
    BY DEF Init
  <2>2. QED
    BY <1>4, <2>1, PoolFacts DEF LevelsOK
<1>6. /\ DOMAIN saved = Threads \cup {usrloopthread} /\ left = saved
      /\ \A t \in Threads : saved[t] = NoPc
      /\ saved[usrloopthread] = At("idle")
      /\ rthread = 0 /\ 0 \in Threads /\ pc = At("run") /\ irqlr = NoPc
  BY <1>1, PoolFacts DEF Init, Threads
<1>7. SavedOK(next, queue, saved)
  BY <1>6 DEF SavedOK, RestOK, PlaceOK, NoPc, At, OnQueue, Ended
<1>8. IsNext(queue, 0)
  <2>1. Ready(0) \in QueueNames /\ 0 \in Priority /\ queue \in [QueueNames -> Seq(Threads)]
    BY <1>3, PoolFacts DEF MemoryOK, QueuesOK
  <2>2. queue[Ready(0)] # <<>>
    BY <1>4 DEF Holds
  <2>3. Holds(queue, Ready(0), Head(queue[Ready(0)]))
    BY <2>1, <2>2, HoldsIn
  <2>4. Head(queue[Ready(0)]) = 0
    BY <1>4, <2>1, <2>3
  <2>5. \A b \in Priority : ~ (b < 0)
    BY DEF Priority
  <2>6. QED
    BY <2>1, <2>2, <2>4, <2>5 DEF IsNext
<1>9. PcOK
  BY <1>6, <1>8 DEF PcOK, PlaceOK, NoPc, At, OnQueue, Ended
<1>10. InfoOK
  <2>1. \A t \in Threads : saved[t].name = "none"
    BY <1>6 DEF NoPc, At
  <2>2. QED
    BY <2>1 DEF InfoOK, Init, IrqInit, InTable, Subscribing, Unsubscribing
<1>11. PoolOK
  <2>1. \A t \in 0 .. client.threads - 1 : t = 0 \/ t \in 1 .. client.threads - 1
    BY <1>1
  <2>2. QED
    BY <1>4, <2>1, PoolFacts DEF PoolOK, Listed
<1>12. ContextOK
  BY <1>4, <1>6, PoolFacts DEF ContextOK, CalmOK, InReady, IdleOK, At, NoPc, OnQueue, Ended, IdleAt
<1>13. Settled = next
  BY <1>6 DEF Settled, At
<1>14. QED
  BY <1>1, <1>3, <1>5, <1>6, <1>7, <1>9, <1>10, <1>11, <1>12, <1>13 DEF ThreadsOK
-----------------------------------------------------------------------------
(* A step that leaves the threads and the subscriptions alone. *)
LEMMA StillKeeps == ASSUME ThreadsOK, UNCHANGED <<schedVars, client, info>> PROVE ThreadsOK'
<1>1. UNCHANGED <<rthread, next, queue, priority, pc, saved, irqlr, left, struck, client, info>>
  BY DEF schedVars
<1>2. Settled' = Settled
  BY <1>1 DEF Settled, Own
<1>3. PcOK' /\ InfoOK'
  BY <1>1 DEF ThreadsOK, PcOK, PlaceOK, Listed, Holds, IsNext, OnQueue, Ended,
              InfoOK, InTable, Subscribing, Unsubscribing
<1>4. PoolOK'
  BY <1>1 DEF ThreadsOK, PoolOK, Listed, Holds
<1>5. ContextOK'
  BY <1>1 DEF ThreadsOK, ContextOK, CalmOK, InReady, Holds, IdleOK, OnQueue, Ended, IdleAt
<1>6. QED
  BY <1>1, <1>2, <1>3, <1>4, <1>5, ThreadsIntro DEF ThreadsOK

(* A step within a thread from one statement to another on the same queues.*)
LEMMA GotoKeeps ==
    ASSUME ThreadsOK, NEW p, Goto(p), UNCHANGED <<next, queue, client>>,
           pc.name \in OnQueue, p.name \in OnQueue, PlaceOK(next, queue, p, rthread),
           DOMAIN info' = Sources,
           \A s \in Sources : info'[s] # None => info'[s].priority \in Nat
    PROVE  ThreadsOK'
<1> USE DEF Goto
<1>1. Settled = next /\ Settled' = next'
  BY DEF Settled, OnQueue
<1>2. PcOK'
  BY DEF ThreadsOK, PcOK, PlaceOK, Listed, Holds, IsNext, OnQueue, Ended
<1>3. InfoOK'
  BY DEF ThreadsOK, InfoOK, Holds, InTable, Subscribing, Unsubscribing
<1>4. PoolOK'
  <2>1. ASSUME "pool" \notin struck, NEW t \in 0 .. client.threads - 1
        PROVE  Listed(queue, t)
    BY <2>1 DEF ThreadsOK, PoolOK, OnQueue, AtEntry
  <2>2. QED
    BY <2>1 DEF ThreadsOK, PoolOK, Listed, Holds
<1>5. ContextOK'
  BY DEF ThreadsOK, ContextOK, CalmOK, InReady, Holds, IdleOK, OnQueue, Ended, IdleAt
<1>6. QED
  BY <1>1, <1>2, <1>3, <1>4, <1>5, ThreadsIntro DEF ThreadsOK

(* An interrupt whose handler starts threads leaves rthread at pc, where   *)
(* it was struck.                                                          *)
Struck == Link(Garbage, pc)

LEMMA IrqSwitch ==
    ASSUME ThreadsOK, NEW g \in Infos, NEW S, S = AddThreads(g), schedule(S.m, S.c, Garbage, pc),
           queue' = S.q, "queue" \notin Window
    PROVE  /\ BranchOK(S)
           /\ Struck = pc \/ (Struck = Garbage /\ pc.name = "none")
           /\ next' = S.m /\ SavedOK(S.m, S.q, saved') /\ PcOK' /\ Settled' = next'
           /\ rthread' \in Threads \cup {usrloopthread} /\ IsNext(S.q, rthread')
           /\ saved'[rthread'] = NoPc
           /\ rthread' # rthread => saved'[rthread] = Struck
           /\ \A u \in (Threads \cup {usrloopthread}) \ {rthread, rthread'} : saved'[u] = S.c[u]
           /\ pc' = IF rthread' = rthread THEN Struck ELSE S.c[rthread']
<1>1. BranchOK(S)
  BY SettledFacts, AddThreadsFacts
<1>2. Struck = pc \/ (Struck = Garbage /\ pc.name = "none")
  BY DEF Struck, Link, NoPc, At
<1>3. ASSUME rthread \in Threads
      PROVE  RestOK(S.m, S.q, Struck, rthread)
  <2>1. CASE Struck = Garbage
    BY <2>1 DEF RestOK, PlaceOK, Garbage, At
  <2>2. CASE Struck = pc
    <3>1. PlaceOK(next, queue, pc, rthread) /\ pc.name \notin {"append", "close"}
      BY <1>3 DEF ThreadsOK, PcOK, Window
    <3>2. Listed(S.q, rthread) <=> Listed(queue, rthread)
      BY <1>1, <1>3 DEF BranchOK
    <3>3. ASSUME pc.name = "unlink"
          PROVE  S.m[Entry(rthread)] = next[Entry(rthread)] /\ ~ EndsAt(next[Entry(rthread)])
      <4>1. pc.next = next[Entry(rthread)] /\ ~ EndsAt(pc.next)
        BY <3>1, <3>3 DEF PlaceOK, Window
      <4>2. IsNext(queue, rthread) /\ MemoryOK(next, queue) /\ LevelsOK(queue, priority)
        BY <3>3, SettledFacts DEF ThreadsOK, PcOK, OnQueue
      <4>3. ~ Holds(queue, Free, rthread)
        BY <1>3, <4>2, NextThreadFacts, ListedFacts DEF MemoryOK
      <4>4. QED
        BY <1>1, <1>3, <4>1, <4>3 DEF BranchOK
    <3>4. QED
      BY <2>2, <3>1, <3>2, <3>3 DEF RestOK, PlaceOK
  <2>3. QED
    BY <1>2, <2>1, <2>2
<1>4. rthread = usrloopthread => Struck.name \notin OnQueue \cup Ended
  BY <1>2, PoolFacts DEF ThreadsOK, PcOK, Garbage, At, OnQueue, Ended
<1>5. Struck = Link(Garbage, pc) /\ PcOK /\ MemoryOK(S.m, S.q) /\ SavedOK(S.m, S.q, S.c)
  BY <1>1 DEF Struck, ThreadsOK, BranchOK
<1>6. PICK m, q, c : m = S.m /\ q = S.q /\ c = S.c
  OBVIOUS
<1>7. /\ next' = m /\ SavedOK(m, q, saved') /\ PcOK' /\ Settled' = next'
      /\ rthread' \in Threads \cup {usrloopthread} /\ IsNext(q, rthread')
      /\ saved'[rthread'] = NoPc
      /\ rthread' # rthread => saved'[rthread] = Struck
      /\ \A u \in (Threads \cup {usrloopthread}) \ {rthread, rthread'} : saved'[u] = c[u]
      /\ pc' = IF rthread' = rthread THEN Struck ELSE c[rthread']
  <2>1. /\ PcOK /\ MemoryOK(m, q) /\ SavedOK(m, q, c) /\ schedule(m, c, Garbage, pc) /\ queue' = q
        /\ rthread \in Threads => RestOK(m, q, Struck, rthread)
    BY <1>3, <1>5, <1>6
  <2>2. QED
    BY <1>4, <1>5, <2>1, ScheduleFacts
<1>8. QED
  BY <1>1, <1>2, <1>6, <1>7

LEMMA IrqKeeps == ASSUME ThreadsOK, Irq, "queue" \notin struck' PROVE ThreadsOK'
<1>1. PICK g \in Infos : LET S == AddThreads(g) IN
          /\ c_irq_handler(g)
          /\ IF Served(g) = {}
             THEN UNCHANGED schedVars
             ELSE /\ struck' = struck \cup Window
                  /\ schedule(S.m, S.c, Garbage, pc)
                  /\ Means(S.q)
                  /\ priority' = S.l
                  /\ left' = [S.f EXCEPT ![rthread] = pc, ![rthread'] = NoPc]
  BY DEF Irq
<1> DEFINE S == AddThreads(g)
<1>2. UNCHANGED <<client, info>>
  BY <1>1 DEF c_irq_handler, tableVars
<1>3. CASE Served(g) = {}
  BY <1>1, <1>2, <1>3, StillKeeps DEF schedVars
<1>4. CASE Served(g) # {}
  <2>1. /\ schedule(S.m, S.c, Garbage, pc) /\ queue' = S.q
        /\ priority' = S.l
        /\ left' = [S.f EXCEPT ![rthread] = pc, ![rthread'] = NoPc]
        /\ struck' = struck \cup Window
        /\ "queue" \notin Window
    BY <1>1, <1>4 DEF Means
  <2>2. S = AddThreads(g)
    OBVIOUS
  <2> HIDE DEF S
  <2>3. /\ BranchOK(S)
        /\ Struck = pc \/ (Struck = Garbage /\ pc.name = "none")
        /\ next' = S.m /\ SavedOK(S.m, S.q, saved') /\ PcOK' /\ Settled' = next'
        /\ rthread' \in Threads \cup {usrloopthread} /\ IsNext(S.q, rthread')
        /\ saved'[rthread'] = NoPc
        /\ rthread' # rthread => saved'[rthread] = Struck
        /\ \A u \in (Threads \cup {usrloopthread}) \ {rthread, rthread'} : saved'[u] = S.c[u]
        /\ pc' = IF rthread' = rthread THEN Struck ELSE S.c[rthread']
    BY <2>1, <2>2, IrqSwitch
  <2>4. MemoryOK(Settled', queue') /\ LevelsOK(queue', priority') /\ SavedOK(next', queue', saved')
    BY <2>3, <2>1 DEF BranchOK
  <2>5. InfoOK'
    <3>1. ASSUME NEW t \in Threads, Holds(queue', Free, t)
          PROVE  saved'[t].name \notin InTable
      <4>1. CASE t = rthread'
        BY <2>3, <4>1 DEF NoPc, At, InTable, Subscribing, Unsubscribing
      <4>2. CASE t # rthread' /\ t = rthread
        <5>1. Holds(queue, Free, t)
          BY <2>1, <2>3, <3>1 DEF BranchOK
        <5>2. MemoryOK(next, queue)
          BY <2>1, SettledFacts
        <5>3. pc.name \notin OnQueue
          BY <4>2, <5>1, <5>2, NextThreadFacts, ListedFacts DEF ThreadsOK, PcOK, MemoryOK
        <5>4. QED
          BY <2>3, <4>2, <5>3
             DEF OnQueue, Garbage, At, InTable, Subscribing, Unsubscribing
      <4>3. CASE t # rthread' /\ t # rthread
        BY <2>1, <2>3, <3>1, <4>3 DEF BranchOK
      <4>4. QED
        BY <4>1, <4>2, <4>3
    <3>2. QED
      BY <1>2, <3>1 DEF ThreadsOK, InfoOK, Holds, InTable, Subscribing, Unsubscribing
  <2>6. PoolOK'
    <3> SUFFICES ASSUME "pool" \notin struck' PROVE PoolOK'
      BY DEF PoolOK
    <3>1. "pool" \notin struck /\ pc.name \notin {"untail", "link"}
      BY <2>1 DEF Window
    <3>2. \A t \in 0 .. client.threads - 1 : Listed(queue, t)
      BY <3>1 DEF ThreadsOK, PoolOK, AtEntry
    <3>3. \A t \in 0 .. client.threads - 1 : Listed(queue', t)
      <4>1. QueuesOK(queue)
        BY <2>1, SettledFacts DEF MemoryOK
      <4>2. QED
        BY <2>1, <2>3, <3>2, <4>1, ListedFacts DEF BranchOK
    <3>4. QED
      BY <1>2, <3>3 DEF PoolOK, Listed, Holds
  <2>7. ContextOK'
    <3> SUFFICES ASSUME "context" \notin struck' PROVE ContextOK'
      BY DEF ContextOK
    <3>1. "context" \notin struck /\ pc.name \notin {"append", "close", "freed", "loadsp"}
      BY <2>1 DEF Window
    <3>2. /\ CalmOK(S.q, S.c, S.f) /\ DOMAIN S.f = Threads \cup {usrloopthread}
          /\ QueuesOK(S.q) /\ LevelsOK(S.q, S.l) /\ PcOK
      BY <2>3, <3>1 DEF BranchOK, ThreadsOK, MemoryOK
    <3>3. Struck = pc
      BY <2>3, <3>1 DEF ThreadsOK, ContextOK, OnQueue, Ended, IdleAt
    <3>4. rthread \in Threads /\ InReady(S.q, rthread) => Struck.name \in OnQueue
      <4>1. ASSUME rthread \in Threads, InReady(S.q, rthread)
            PROVE  pc.name \notin {"untail", "link"}
        BY <2>3, <3>2, <4>1, ListedFacts DEF BranchOK, ThreadsOK, PcOK, PlaceOK
      <4>2. QED
        BY <3>1, <3>3, <4>1, PoolFacts DEF ThreadsOK, ContextOK, Ended
    <3>5. rthread = usrloopthread => IdleOK(Struck)
      BY <3>1, <3>3 DEF ThreadsOK, ContextOK, IdleAt, IdleOK
    <3>6. ASSUME NEW q, NEW l, NEW c, NEW f,
                 q = S.q, l = S.l, c = S.c, f = S.f
          PROVE  ContextOK'
      <4>1. /\ CalmOK(q, c, f) /\ DOMAIN f = Threads \cup {usrloopthread}
            /\ QueuesOK(q) /\ LevelsOK(q, l) /\ PcOK
        BY <3>2, <3>6
      <4>2. /\ queue' = q /\ rthread' \in Threads \cup {usrloopthread}
            /\ IsNext(q, rthread') /\ saved'[rthread'] = NoPc
            /\ rthread' # rthread => saved'[rthread] = Struck
            /\ \A u \in (Threads \cup {usrloopthread}) \ {rthread, rthread'} : saved'[u] = c[u]
            /\ pc' = IF rthread' = rthread THEN Struck ELSE c[rthread']
            /\ left' = [f EXCEPT ![rthread] = Struck, ![rthread'] = NoPc]
        BY <2>1, <2>3, <3>3, <3>6
      <4>3. /\ rthread \in Threads /\ InReady(q, rthread) => Struck.name \in OnQueue
            /\ rthread = usrloopthread => IdleOK(Struck)
        BY <3>4, <3>5, <3>6
      <4>4. QED
        BY <4>1, <4>2, <4>3, ScheduleKeepsContexts
    <3>7. QED
      BY <3>6
  <2>8. QED
    <3>1. DOMAIN left' = Threads \cup {usrloopthread}
      BY <2>3, <2>1 DEF BranchOK
    <3>2. client' \in Clients /\ next' \in [Nodes -> Nodes]
      BY <1>2, <2>3, <2>4 DEF ThreadsOK, MemoryOK
    <3>3. QED
      BY <2>3, <2>4, <2>5, <2>6, <2>7, <3>1, <3>2, ThreadsIntro
<1>5. QED
  BY <1>3, <1>4

(* A supervisor call: the switch, on the queues as they are, of a thread   *)
(* in its own code or of the idle loop that a finished thread has become.  *)
LEMMA SwitchKeeps ==
    ASSUME ThreadsOK, NEW x, schedule(next, saved, x, irqlr),
           left' = [left EXCEPT ![rthread] = x, ![rthread'] = NoPc],
           UNCHANGED <<queue, client, info, priority, struck>>,
           \/ pc.name = "run" /\ x = pc
           \/ pc.name = "svc" /\ x = At("idle")
    PROVE  /\ ThreadsOK'
           /\ rthread' # rthread => saved'[rthread] = x
           /\ \A u \in (Threads \cup {usrloopthread}) \ {rthread, rthread'} : saved'[u] = saved[u]
           /\ pc' = IF rthread' = rthread THEN x ELSE saved[rthread']
<1>1. /\ PcOK /\ MemoryOK(next, queue) /\ QueuesOK(queue) /\ LevelsOK(queue, priority)
      /\ SavedOK(next, queue, saved)
      /\ x = Link(x, irqlr)
      /\ x.name \in {"run", "idle"}
      /\ x.name = "run" => rthread \in Threads
  <2>1. MemoryOK(next, queue)
    BY SettledFacts DEF Window
  <2>2. QED
    BY <2>1 DEF ThreadsOK, PcOK, Link, At, OnQueue, MemoryOK
<1>2. /\ rthread \in Threads => RestOK(next, queue, x, rthread)
      /\ rthread = usrloopthread => x.name \notin OnQueue \cup Ended
  <2>1. CASE x.name = "run"
    BY <1>1, <2>1, PoolFacts DEF RestOK, PlaceOK
  <2>2. CASE x.name = "idle"
    BY <2>2 DEF RestOK, PlaceOK, OnQueue, Ended
  <2>3. QED
    BY <1>1, <2>1, <2>2
<1>3. /\ next' = next /\ SavedOK(next, queue, saved') /\ PcOK' /\ Settled' = next'
      /\ rthread' \in Threads \cup {usrloopthread} /\ IsNext(queue, rthread')
      /\ saved'[rthread'] = NoPc
      /\ rthread' # rthread => saved'[rthread] = x
      /\ \A u \in (Threads \cup {usrloopthread}) \ {rthread, rthread'} : saved'[u] = saved[u]
      /\ pc' = IF rthread' = rthread THEN x ELSE saved[rthread']
  BY <1>1, <1>2, ScheduleFacts
<1>4. InfoOK'
  <2>1. ASSUME NEW t \in Threads, Holds(queue, Free, t)
        PROVE  saved'[t].name \notin InTable
    BY <1>1, <1>3, <2>1 DEF ThreadsOK, InfoOK, NoPc, At, InTable, Subscribing, Unsubscribing
  <2>2. QED
    BY <1>3, <2>1 DEF ThreadsOK, InfoOK, Holds, InTable, Subscribing, Unsubscribing
<1>5. PoolOK'
  <2> SUFFICES ASSUME "pool" \notin struck PROVE PoolOK'
    BY DEF PoolOK
  <2>1. \A t \in 0 .. client.threads - 1 : Listed(queue, t)
    BY DEF ThreadsOK, PoolOK, AtEntry
  <2>2. QED
    BY <2>1 DEF PoolOK, Listed, Holds
<1>6. ContextOK'
  <2> SUFFICES ASSUME "context" \notin struck PROVE ContextOK'
    BY DEF ContextOK
  <2>1. CalmOK(queue, saved, left) /\ DOMAIN left = Threads \cup {usrloopthread}
    BY DEF ThreadsOK, ContextOK
  <2>2. /\ rthread \in Threads /\ InReady(queue, rthread) => x.name \in OnQueue
        /\ rthread = usrloopthread => IdleOK(x)
    BY <1>1, PoolFacts DEF ThreadsOK, ContextOK, IdleAt, OnQueue, IdleOK, At
  <2>3. QED
    BY <1>1, <1>3, <2>1, <2>2, ScheduleKeepsContexts
<1>7. ThreadsOK'
  BY <1>1, <1>3, <1>4, <1>5, <1>6, ThreadsIntro DEF ThreadsOK
<1>8. QED
  BY <1>3, <1>7

(* The statements of subscribe_irq and unsubscribe_irq. *)
LEMMA SubscriptionKeeps == ASSUME ThreadsOK, Subscription PROVE ThreadsOK'
<1>1. DOMAIN info = Sources /\ \A s \in Sources : info[s] # None => info[s].priority \in Nat
  BY DEF ThreadsOK, InfoOK
<1>2. pc.name \in OnQueue => rthread \in Threads /\ PlaceOK(next, queue, pc, rthread)
  BY DEF ThreadsOK, PcOK
<1>3. ASSUME NEW s \in Sources, NEW i \in Infos, SubscribeIrq(s, i)
      PROVE  ThreadsOK'
  <2>1. UNCHANGED <<next, queue, client, info>> /\ Goto(AtIrq("info", s, i)) /\ pc.name = "run"
    BY <1>3 DEF SubscribeIrq, SameQueues, StoreHandler, Running
  <2>2. PlaceOK(next, queue, AtIrq("info", s, i), rthread)
    BY DEF PlaceOK, AtIrq
  <2>3. QED
    BY <1>1, <2>1, <2>2, GotoKeeps DEF AtIrq, OnQueue
<1>4. ASSUME SubscribeInfo
      PROVE  ThreadsOK'
  <2>1. /\ UNCHANGED <<next, queue, client>> /\ Goto(AtIrq("enable", pc.s, pc.i)) /\ pc.name = "info"
        /\ info' = [info EXCEPT ![pc.s] =
                       IF pc.s = GPIO_BANK_1_IRQ /\ @ # None
                       THEN [pc.i EXCEPT !.pins = @ \cup info[pc.s].pins] ELSE pc.i]
    BY <1>4 DEF SubscribeInfo, SameQueues, StoreInfo
  <2>2. pc.i \in [priority : Nat, oneshot : BOOLEAN, pins : SUBSET Pins]
    BY <1>2, <2>1, InfosAssumption DEF PlaceOK, OnQueue
  <2>3. DOMAIN info' = Sources /\ \A s \in Sources : info'[s] # None => info'[s].priority \in Nat
    BY <1>1, <2>1, <2>2
  <2>4. PlaceOK(next, queue, AtIrq("enable", pc.s, pc.i), rthread)
    BY DEF PlaceOK, AtIrq
  <2>5. QED
    BY <2>1, <2>3, <2>4, GotoKeeps DEF AtIrq, OnQueue
<1>5. ASSUME SubscribeEnable
      PROVE  ThreadsOK'
  <2>1. UNCHANGED <<next, queue, client, info>> /\ Goto(At("run")) /\ pc.name = "enable"
    BY <1>5 DEF SubscribeEnable, SameQueues, EnableSource, tableVars
  <2>2. PlaceOK(next, queue, At("run"), rthread)
    BY DEF PlaceOK, At
  <2>3. QED
    BY <1>1, <2>1, <2>2, GotoKeeps DEF At, OnQueue
<1>6. ASSUME NEW s \in Sources, UnsubscribeIrq(s)
      PROVE  ThreadsOK'
  <2>1. UNCHANGED <<next, queue, client, info>> /\ Goto(AtIrq("clear", s, None)) /\ pc.name = "run"
    BY <1>6 DEF UnsubscribeIrq, SameQueues, ClearHandler, Running
  <2>2. PlaceOK(next, queue, AtIrq("clear", s, None), rthread)
    BY DEF PlaceOK, AtIrq
  <2>3. QED
    BY <1>1, <2>1, <2>2, GotoKeeps DEF AtIrq, OnQueue
<1>7. ASSUME UnsubscribeInfo
      PROVE  ThreadsOK'
  <2>1. /\ UNCHANGED <<next, queue, client>> /\ Goto(AtIrq("disable", pc.s, None)) /\ pc.name = "clear"
        /\ info' = [info EXCEPT ![pc.s] = None]
    BY <1>7 DEF UnsubscribeInfo, SameQueues, ClearInfo
  <2>2. PlaceOK(next, queue, AtIrq("disable", pc.s, None), rthread)
    BY DEF PlaceOK, AtIrq
  <2>3. DOMAIN info' = Sources /\ \A s \in Sources : info'[s] # None => info'[s].priority \in Nat
    BY <1>1, <2>1
  <2>4. QED
    BY <2>1, <2>2, <2>3, GotoKeeps DEF AtIrq, OnQueue
<1>8. ASSUME UnsubscribeDisable
      PROVE  ThreadsOK'
  <2>1. UNCHANGED <<next, queue, client, info>> /\ Goto(At("run")) /\ pc.name = "disable"
    BY <1>8 DEF UnsubscribeDisable, SameQueues, DisableSource, tableVars
  <2>2. PlaceOK(next, queue, At("run"), rthread)
    BY DEF PlaceOK, At
  <2>3. QED
    BY <1>1, <2>1, <2>2, GotoKeeps DEF At, OnQueue
<1>9. QED
  BY <1>3, <1>4, <1>5, <1>6, <1>7, <1>8 DEF Subscription

(* A statement of c_cleanup that works on the queues: it changes next of   *)
(* the entry itself and of the last entry only, and lists that thread only.*)
LEMMA CleaningKeeps ==
    ASSUME ThreadsOK, UNCHANGED <<client, info, rthread, priority, saved, irqlr, left, struck>>,
           rthread \in Threads, pc.name \in OnQueue \cup Ended, pc'.name \in Ended,
           next' \in [Nodes -> Nodes], MemoryOK(Settled', queue'),
           \A u \in Threads : u # rthread /\ ~ EndsAt(next[Entry(u)])
                                  => next'[Entry(u)] = next[Entry(u)],
           \A u \in Threads : u # rthread => (Holds(queue', Free, u) <=> Holds(queue, Free, u)),
           \A u : \A p \in Priority :
               u # rthread => (Holds(queue', Ready(p), u) <=> Holds(queue, Ready(p), u)),
           \A p \in Priority : ~ Holds(queue', Ready(p), rthread),
           PlaceOK(next', queue', pc', rthread),
           pc'.name \in {"untail", "link"} => pc' = AtEntry(pc'.name, rthread),
           pc'.name = "freed" => Holds(queue', Free, rthread)
    PROVE  ThreadsOK'
<1>1. /\ \A u \in Threads : u # rthread => /\ InReady(queue', u) <=> InReady(queue, u)
                                           /\ Listed(queue', u) <=> Listed(queue, u)
      /\ ~ InReady(queue', rthread)
  <2>1. /\ \A u \in Threads : u # rthread => (InReady(queue', u) <=> InReady(queue, u))
        /\ ~ InReady(queue', rthread)
    BY DEF InReady
  <2>2. QueuesOK(queue) /\ QueuesOK(queue')
    BY DEF ThreadsOK, MemoryOK
  <2>3. QED
    BY <2>1, <2>2, ListedFacts
<1>2. LevelsOK(queue', priority')
  BY DEF ThreadsOK, LevelsOK
<1>3. saved[rthread] = NoPc
  BY DEF ThreadsOK, PcOK
<1>4. SavedOK(next', queue', saved')
  <2>1. ASSUME NEW u \in Threads
        PROVE  RestOK(next', queue', saved'[u], u)
    <3>1. CASE u = rthread
      BY <1>3, <3>1 DEF RestOK, PlaceOK, NoPc, At
    <3>2. CASE u # rthread
      <4>1. RestOK(next, queue, saved[u], u) /\ saved'[u] = saved[u]
        BY DEF ThreadsOK, SavedOK
      <4>2. ~ EndsAt(next[Entry(u)]) => next'[Entry(u)] = next[Entry(u)]
        BY <3>2
      <4>3. QED
        BY <1>1, <3>2, <4>1, <4>2 DEF RestOK, PlaceOK
    <3>3. QED
      BY <3>1, <3>2
  <2>2. QED
    BY <2>1 DEF ThreadsOK, SavedOK
<1>5. PcOK'
  <2>1. pc'.name \notin OnQueue
    BY DEF OnQueue, Ended
  <2>2. QED
    BY <1>3, <2>1 DEF ThreadsOK, PcOK, PlaceOK, Listed, Holds, IsNext, OnQueue, Ended
<1>6. InfoOK'
  <2>1. ASSUME NEW t \in Threads, Holds(queue', Free, t)
        PROVE  saved'[t].name \notin InTable
    <3>1. saved[rthread].name \notin InTable
      BY <1>3 DEF NoPc, At, InTable, Subscribing, Unsubscribing
    <3>2. QED
      BY <2>1, <3>1 DEF ThreadsOK, InfoOK
  <2>2. QED
    BY <2>1 DEF ThreadsOK, InfoOK, Holds, InTable, Subscribing, Unsubscribing
<1>7. PoolOK'
  <2>1. pc'.name \in {"untail", "link"} \/ Listed(queue', rthread)
    BY PoolFacts DEF PlaceOK, Ended, Listed
  <2>2. ASSUME "pool" \notin struck, NEW t \in 0 .. client.threads - 1
        PROVE  Listed(queue', t) \/ (pc'.name \in {"untail", "link"} /\ t = rthread)
    <3>1. CASE t = rthread
      BY <2>1, <3>1
    <3>2. CASE t # rthread
      <4>1. ~ (pc.name \in {"untail", "link"} /\ pc.s = t)
        BY <3>2 DEF ThreadsOK, PcOK, PlaceOK
      <4>2. Listed(queue, t)
        BY <2>2, <4>1 DEF ThreadsOK, PoolOK, AtEntry
      <4>3. QueuesOK(queue)
        BY DEF ThreadsOK, MemoryOK
      <4>4. t \in Threads
        BY <4>2, <4>3, ListedFacts
      <4>5. Listed(queue', t)
        BY <1>1, <3>2, <4>2, <4>4 DEF Listed
      <4>6. QED
        BY <4>5
    <3>3. QED
      BY <3>1, <3>2
  <2>3. pc'.name \in {"untail", "link"}
            => pc' \in {AtEntry("untail", rthread), AtEntry("link", rthread)}
    OBVIOUS
  <2>4. QED
    BY <2>2, <2>3 DEF PoolOK, Listed, Holds
<1>8. ContextOK'
  <2> SUFFICES ASSUME "context" \notin struck PROVE ContextOK'
    BY DEF ContextOK
  <2>1. /\ \A t \in Threads : t # rthread /\ ~ Holds(queue', Free, t) => saved[t] = left[t]
        /\ \A t \in Threads : t # rthread /\ InReady(queue', t) => saved[t].name \in OnQueue
        /\ rthread # usrloopthread /\ IdleOK(saved[usrloopthread])
    BY <1>1, PoolFacts DEF ThreadsOK, ContextOK, CalmOK
  <2>2. CalmOK(queue, saved, left)'
    BY <2>1 DEF CalmOK, InReady, Holds, IdleOK, OnQueue
  <2>3. /\ pc'.name \in {"append", "close", "freed"} => Holds(queue', Free, rthread)
        /\ pc'.name \notin IdleAt
    BY DEF PlaceOK, Ended, IdleAt
  <2>4. QED
    BY <2>1, <2>2, <2>3 DEF ContextOK, Holds, OnQueue, Ended, IdleAt
<1>9. QED
  BY <1>2, <1>4, <1>5, <1>6, <1>7, <1>8, ThreadsIntro DEF ThreadsOK

(* pop, of the thread that runs and stands at the head of its queue. *)
LEMMA UnlinkKeeps == ASSUME ThreadsOK, CleanupUnlink, "queue" \notin struck' PROVE ThreadsOK'
<1>1. /\ pc.name = "unlink" /\ pc.s = rthread /\ rthread \in Threads
      /\ pc.next = next[Entry(rthread)]
      /\ IsNext(queue, rthread) /\ saved[rthread] = NoPc
      /\ next' = [next EXCEPT ![Start(Own)] = next[Entry(rthread)]]
      /\ queue' = pop_from_queue(queue, Own)
      /\ pc' = AtEntry("untail", rthread)
      /\ UNCHANGED <<client, info, rthread, priority, saved, irqlr, left, struck>>
  BY DEF CleanupUnlink, Means, Goto, irqVars, tableVars, ThreadsOK, PcOK, PlaceOK, OnQueue
<1>2. MemoryOK(next, queue) /\ QueuesOK(queue) /\ next \in [Nodes -> Nodes]
  BY <1>1, SettledFacts DEF Settled, ThreadsOK, MemoryOK
<1>3. /\ Own \in QueueNames /\ Own # Free
      /\ queue[Own] # <<>> /\ Head(queue[Own]) = rthread /\ Own' = Own
  <2>1. /\ priority[rthread] \in Priority
        /\ queue[Ready(priority[rthread])] # <<>> /\ Head(queue[Ready(priority[rthread])]) = rthread
    BY <1>1, <1>2, NextThreadFacts DEF ThreadsOK
  <2>2. QED
    BY <1>1, <2>1, PoolFacts DEF Own
<1>4. PICK a, k : a = Own /\ k = popped(next, a)
  OBVIOUS
<1>5. /\ MemoryOK(k, queue') /\ Removed(queue, queue', QueueNames, Threads, a, rthread)
      /\ \A u \in Threads : k[Entry(u)] = next[Entry(u)]
  BY <1>1, <1>2, <1>3, <1>4, PopKeepsMemory
<1>6. k = [next' EXCEPT ![End(a)] = IF EndsAt(next[Entry(rthread)]) THEN Start(a) ELSE @]
  <2>1. next[Start(a)] = Entry(rthread) /\ ~ EndsAt(Entry(rthread))
    BY <1>2, <1>3, <1>4, MemoryFacts, NodeFacts
  <2>2. k = [next EXCEPT ![Start(a)] = next[Entry(rthread)],
                         ![End(a)] = IF EndsAt(next[Entry(rthread)]) THEN Start(a) ELSE @]
    BY <1>4, <2>1 DEF popped, EndsAt
  <2>3. /\ Start(a) \in Nodes /\ End(a) \in Nodes /\ Start(a) # End(a)
        /\ Entry(rthread) # Start(a)
    BY <1>3, <1>4, NodeFacts
  <2>4. PICK n, v, w, x, y : /\ n = next' /\ v = next[Entry(rthread)] /\ x = Start(a) /\ y = End(a)
                             /\ w = IF EndsAt(v) THEN x ELSE next[y]
    OBVIOUS
  <2>5. k = [next EXCEPT ![x] = v, ![y] = w] /\ n = [next EXCEPT ![x] = v]
    BY <1>1, <1>2, <1>4, <2>2, <2>3, <2>4
  <2>6. n[y] = next[y] /\ k = [n EXCEPT ![y] = w]
    BY <1>2, <2>3, <2>4, <2>5
  <2>7. QED
    BY <2>4, <2>6
<1>7. /\ next' \in [Nodes -> Nodes]
      /\ \A u \in Threads : next'[Entry(u)] = next[Entry(u)]
  BY <1>1, <1>2, NodeFacts
<1>8. Settled' = k
  BY <1>1, <1>3, <1>4, <1>6, <1>7 DEF Settled, AtEntry
<1>9. /\ \A u : Holds(queue', Free, u) <=> Holds(queue, Free, u) /\ u # rthread
      /\ \A u : \A p \in Priority :
             Holds(queue', Ready(p), u) <=> Holds(queue, Ready(p), u) /\ u # rthread
  BY <1>5, PoolFacts DEF Removed
<1>10. ~ Listed(queue', rthread)
  BY <1>5 DEF Removed, Listed
<1>11. /\ PlaceOK(next', queue', pc', rthread) /\ pc'.name = "untail"
       /\ pc' = AtEntry(pc'.name, rthread)
  BY <1>1, <1>10 DEF PlaceOK, AtEntry
<1>12. QED
  BY <1>1, <1>5, <1>7, <1>8, <1>9, <1>11, CleaningKeeps DEF OnQueue, Ended

(* The store of pop that follows, of the end entry. *)
LEMMA UntailKeeps == ASSUME ThreadsOK, CleanupUntail PROVE ThreadsOK'
<1>1. /\ pc.name = "untail" /\ pc.s = rthread /\ rthread \in Threads
      /\ ~ Listed(queue, rthread)
      /\ next' = [next EXCEPT ![End(Own)] = IF EndsAt(next[Entry(rthread)])
                                            THEN Start(Own) ELSE @]
      /\ pc' = AtEntry("link", rthread)
      /\ UNCHANGED <<queue, client, info, rthread, priority, saved, irqlr, left, struck>>
  BY DEF CleanupUntail, Goto, irqVars, tableVars, ThreadsOK, PcOK, PlaceOK, Ended
<1>2. Settled = next' /\ Settled' = next'
  BY <1>1 DEF Settled, AtEntry
<1>3. MemoryOK(Settled', queue') /\ next' \in [Nodes -> Nodes] /\ next \in [Nodes -> Nodes]
  BY <1>1, <1>2 DEF ThreadsOK, MemoryOK
<1>4. \A u \in Threads : next'[Entry(u)] = next[Entry(u)]
  BY <1>1, <1>3, NodeFacts
<1>5. /\ PlaceOK(next', queue', pc', rthread) /\ pc'.name = "link"
      /\ pc' = AtEntry(pc'.name, rthread)
  BY <1>1 DEF PlaceOK, AtEntry
<1>6. \A p \in Priority : ~ Holds(queue', Ready(p), rthread)
  BY <1>1, PoolFacts DEF Listed
<1>7. QED
  BY <1>1, <1>3, <1>4, <1>5, <1>6, CleaningKeeps DEF OnQueue, Ended

(* The first store of push, which links the entry. *)
LEMMA LinkKeeps == ASSUME ThreadsOK, CleanupLink, "queue" \notin struck' PROVE ThreadsOK'
<1>1. /\ pc.name = "link" /\ pc.s = rthread /\ rthread \in Threads
      /\ ~ Listed(queue, rthread)
      /\ next' = [next EXCEPT ![next[End(Free)]] = Entry(rthread)]
      /\ queue' = push_to_queue(rthread, queue, Free)
      /\ pc' = AtEntry("append", rthread)
      /\ UNCHANGED <<client, info, rthread, priority, saved, irqlr, left, struck>>
  BY DEF CleanupLink, Means, Goto, irqVars, tableVars, ThreadsOK, PcOK, PlaceOK, Ended
<1>2. MemoryOK(next, queue) /\ QueuesOK(queue) /\ next \in [Nodes -> Nodes]
  BY <1>1, SettledFacts DEF Settled, ThreadsOK, MemoryOK
<1>3. PICK k, e : e = Entry(rthread) /\ k = pushed(next, e, Free)
  OBVIOUS
<1>4. /\ MemoryOK(k, queue') /\ Added(queue, queue', QueueNames, Threads, Free, rthread)
      /\ \A u \in Threads : u # rthread /\ ~ EndsAt(next[Entry(u)]) => k[Entry(u)] = next[Entry(u)]
  BY <1>1, <1>2, <1>3, PoolFacts, PushKeepsMemory
<1>5. k = [next' EXCEPT ![End(Free)] = e, ![e] = End(Free)]
  BY <1>1, <1>3 DEF pushed
<1>6. Settled' = k
  BY <1>1, <1>3, <1>5 DEF Settled, AtEntry
<1>7. next' \in [Nodes -> Nodes]
  <2>1. Entry(rthread) \in Nodes /\ End(Free) \in Nodes
    BY <1>1, NodeFacts, PoolFacts
  <2>2. QED
    BY <1>1, <1>2, <2>1
<1>8. \A u \in Threads : u # rthread /\ ~ EndsAt(next[Entry(u)]) => next'[Entry(u)] = next[Entry(u)]
  <2>1. ASSUME NEW u \in Threads, u # rthread
        PROVE  k[Entry(u)] = next'[Entry(u)]
    <3>1. Entry(u) \in Nodes /\ Entry(u) # e /\ Entry(u) # End(Free)
      BY <1>3, <2>1, NodeFacts
    <3>2. QED
      BY <1>5, <1>7, <3>1
  <2>2. QED
    BY <1>4, <2>1
<1>9. /\ \A u : Holds(queue', Free, u) <=> Holds(queue, Free, u) \/ u = rthread
      /\ \A u : \A p \in Priority : Holds(queue', Ready(p), u) <=> Holds(queue, Ready(p), u)
  BY <1>4, PoolFacts DEF Added
<1>10. \A p \in Priority : ~ Holds(queue', Ready(p), rthread)
  BY <1>1, <1>9, PoolFacts DEF Listed
<1>11. PlaceOK(next', queue', pc', rthread) /\ pc'.name = "append"
  BY <1>1, <1>9 DEF PlaceOK, AtEntry
<1>12. QED
  BY <1>1, <1>4, <1>6, <1>7, <1>8, <1>9, <1>10, <1>11, CleaningKeeps DEF OnQueue, Ended

(* The two that follow: the end entry, and next of the entry. *)
LEMMA AppendKeeps == ASSUME ThreadsOK, CleanupAppend \/ CleanupClose PROVE ThreadsOK'
<1>1. /\ pc.name \in {"append", "close"} /\ pc.s = rthread /\ rthread \in Threads
      /\ Holds(queue, Free, rthread)
      /\ next' = IF pc.name = "append" THEN [next EXCEPT ![End(Free)] = Entry(rthread)]
                                       ELSE [next EXCEPT ![Entry(rthread)] = End(Free)]
      /\ pc' = IF pc.name = "append" THEN AtEntry("close", rthread) ELSE At("freed")
      /\ UNCHANGED <<queue, client, info, rthread, priority, saved, irqlr, left, struck>>
  BY DEF CleanupAppend, CleanupClose, Goto, irqVars, tableVars, ThreadsOK, PcOK, PlaceOK, Ended
<1>2. Settled' = Settled
  BY <1>1 DEF Settled, AtEntry, At
<1>3. next \in [Nodes -> Nodes] /\ MemoryOK(Settled', queue') /\ QueuesOK(queue)
  BY <1>1, <1>2 DEF ThreadsOK, MemoryOK
<1>4. Entry(rthread) \in Nodes /\ End(Free) \in Nodes
  BY <1>1, NodeFacts, PoolFacts
<1>5. next' \in [Nodes -> Nodes]
  BY <1>1, <1>3, <1>4
<1>6. \A u \in Threads : u # rthread => next'[Entry(u)] = next[Entry(u)]
  BY <1>1, <1>3, <1>4, NodeFacts
<1>7. /\ PlaceOK(next', queue', pc', rthread) /\ pc'.name \in {"close", "freed"}
      /\ Holds(queue', Free, rthread)
  BY <1>1 DEF PlaceOK, AtEntry, At
<1>8. \A p \in Priority : ~ Holds(queue', Ready(p), rthread)
  BY <1>1, <1>3, ListedFacts DEF InReady
<1>9. QED
  BY <1>1, <1>3, <1>5, <1>6, <1>7, <1>8, CleaningKeeps DEF OnQueue, Ended

(* The two statements by which a finished thread becomes the idle loop. *)
LEMMA LeaveKeeps == ASSUME ThreadsOK, CleanupLeave \/ CleanupLoadSp PROVE ThreadsOK'
<1>1. /\ UNCHANGED <<next, queue, client, info, priority, saved, irqlr, left, struck>>
      /\ rthread' = usrloopthread /\ usrloopthread \notin Threads
      /\ pc.name \in {"freed", "loadsp"} /\ pc'.name \in {"loadsp", "svc"}
      /\ pc.name = "freed" => rthread \in Threads
      /\ pc.name = "loadsp" => rthread = usrloopthread
  <2>1. CASE CleanupLeave
    BY <2>1, PoolFacts
       DEF CleanupLeave, Stays, SameQueues, irqVars, tableVars, ThreadsOK, PcOK, Ended, AtEntry
  <2>2. CASE CleanupLoadSp
    BY <2>2, PoolFacts
       DEF CleanupLoadSp, Goto, Stays, SameQueues, irqVars, tableVars, ThreadsOK, PcOK, PlaceOK, At
  <2>3. QED
    BY <2>1, <2>2
<1>2. Settled = next /\ Settled' = next' /\ MemoryOK(next, queue)
  BY <1>1 DEF Settled, ThreadsOK
<1>3. MemoryOK(Settled', queue') /\ LevelsOK(queue', priority') /\ SavedOK(next', queue', saved')
  BY <1>1, <1>2 DEF ThreadsOK
<1>4. PcOK'
  BY <1>1 DEF ThreadsOK, PcOK, OnQueue, Ended
<1>5. InfoOK'
  BY <1>1 DEF ThreadsOK, InfoOK, Holds, InTable, Subscribing, Unsubscribing
<1>6. PoolOK'
  <2>1. ASSUME "pool" \notin struck, NEW t \in 0 .. client.threads - 1
        PROVE  Listed(queue, t)
    BY <1>1, <2>1 DEF ThreadsOK, PoolOK, AtEntry
  <2>2. QED
    BY <1>1, <2>1 DEF ThreadsOK, PoolOK, Listed, Holds
<1>7. ContextOK'
  <2>1. ASSUME "context" \notin struck, NEW t \in Threads
        PROVE  /\ ~ Holds(queue, Free, t) => saved[t] = left[t]
               /\ InReady(queue, t) => saved[t].name \in OnQueue
    BY <1>1, <1>2, <2>1, ListedFacts DEF ThreadsOK, ContextOK, CalmOK, MemoryOK
  <2>2. QED
    BY <1>1, <2>1 DEF ThreadsOK, ContextOK, CalmOK, InReady, Holds, IdleOK, OnQueue, Ended, IdleAt
<1>8. QED
  BY <1>1, <1>3, <1>4, <1>5, <1>6, <1>7, ThreadsIntro DEF ThreadsOK

LEMMA CleanupKeeps == ASSUME ThreadsOK, Cleanup, "queue" \notin struck' PROVE ThreadsOK'
<1>1. DOMAIN info = Sources /\ \A s \in Sources : info[s] # None => info[s].priority \in Nat
  BY DEF ThreadsOK, InfoOK
<1>2. CASE Return
  <2>1. UNCHANGED <<next, queue, client, info>> /\ Goto(At("pop")) /\ pc.name = "run"
    BY <1>2 DEF Return, Running, Stays, SameQueues, irqVars, tableVars
  <2>2. PlaceOK(next, queue, At("pop"), rthread)
    BY DEF PlaceOK, At
  <2>3. QED
    BY <1>1, <2>1, <2>2, GotoKeeps DEF At, OnQueue
<1>3. CASE CleanupRead
  <2>1. PICK e, p : /\ e = next[Start(Own)]
                    /\ p = [name |-> "unlink", s |-> e[2], next |-> next[e]]
    OBVIOUS
  <2>2. UNCHANGED <<next, queue, client, info>> /\ Goto(p) /\ pc.name = "pop"
    BY <1>3, <2>1 DEF CleanupRead, Stays, SameQueues, irqVars, tableVars
  <2>3. MemoryOK(next, queue) /\ IsNext(queue, rthread) /\ rthread \in Threads
    BY <2>2, SettledFacts DEF Window, ThreadsOK, PcOK, OnQueue
  <2>4. Own \in QueueNames /\ queue[Own] # <<>> /\ Head(queue[Own]) = rthread
    <3>1. /\ priority[rthread] \in Priority
          /\ queue[Ready(priority[rthread])] # <<>>
          /\ Head(queue[Ready(priority[rthread])]) = rthread
      BY <2>3, NextThreadFacts DEF ThreadsOK, MemoryOK
    <3>2. QED
      BY <3>1, PoolFacts DEF Own
  <2>5. e = Entry(rthread) /\ e[2] = rthread
    BY <2>1, <2>3, <2>4, MemoryFacts, NodeFacts
  <2>6. p.name = "unlink" /\ PlaceOK(next, queue, p, rthread)
    BY <2>1, <2>5 DEF PlaceOK
  <2>7. QED
    BY <1>1, <2>2, <2>6, GotoKeeps DEF OnQueue
<1>4. CASE CleanupSvc
  BY <1>4, SwitchKeeps DEF CleanupSvc, irqVars, tableVars
<1>5. QED
  BY <1>2, <1>3, <1>4, UnlinkKeeps, UntailKeeps, LinkKeeps, AppendKeeps, LeaveKeeps DEF Cleanup

(* An interrupt in the stores of pop or push stays among those that have   *)
(* struck.                                                                 *)
LEMMA StruckGrows == [Next]_vars => struck \subseteq struck'
<1> SUFFICES ASSUME [Next]_vars PROVE struck \subseteq struck'
  OBVIOUS
<1>1. CASE Irq
  BY <1>1 DEF Irq, schedVars
<1>2. CASE SvcSchedule \/ Device \/ UNCHANGED vars
  BY <1>2 DEF SvcSchedule, Device, vars, schedVars
<1>3. CASE Subscription
  BY <1>3 DEF Subscription, SubscribeIrq, SubscribeInfo, SubscribeEnable, UnsubscribeIrq,
              UnsubscribeInfo, UnsubscribeDisable, Goto
<1>4. CASE Cleanup
  BY <1>4 DEF Cleanup, Return, CleanupRead, CleanupUnlink, CleanupUntail, CleanupLink,
              CleanupAppend, CleanupClose, CleanupLeave, CleanupLoadSp, CleanupSvc, Goto
<1>5. QED
  BY <1>1, <1>2, <1>3, <1>4 DEF Next

LEMMA NextPInv == PInv /\ [Next]_vars => PInv'
<1> SUFFICES ASSUME PInv, [Next]_vars, "queue" \notin struck' PROVE ThreadsOK'
  BY DEF PInv
<1>0. ThreadsOK
  BY StruckGrows DEF PInv
<1>1. CASE SvcSchedule
  <2>1. /\ pc.name = "run" /\ schedule(next, saved, pc, irqlr)
        /\ left' = [left EXCEPT ![rthread] = pc, ![rthread'] = NoPc]
        /\ UNCHANGED <<queue, client, info, priority, struck>>
    BY <1>1 DEF SvcSchedule, Running, irqVars, tableVars
  <2>2. QED
    BY <1>0, <2>1, SwitchKeeps
<1>2. CASE Device
  BY <1>0, <1>2, StillKeeps DEF Device, Match, Receive, Edge, tableVars
<1>3. CASE UNCHANGED vars
  BY <1>0, <1>3, StillKeeps DEF vars, irqVars, tableVars
<1>4. QED
  BY <1>0, <1>1, <1>2, <1>3, IrqKeeps, SubscriptionKeeps, CleanupKeeps DEF Next

(* Until an interrupt switches in the stores of pop or push, the memory is *)
(* lists once cleanup has finished them, and every context is at a place   *)
(* where it is safe to go on.                                              *)
THEOREM PInvHolds == Spec => []PInv
<1>1. QED
  BY InitPInv, NextPInv, PTL DEF Spec
-----------------------------------------------------------------------------
(* The pointers represent the queues, and no entry is on two of them or    *)
(* twice on one, unless an interrupt switched before a store of push after *)
(* its first, or before a store of the pop of a last entry.                *)
THEOREM EntriesAreListedOnce == Spec => []NeverListedTwice
<1>1. PInv => NeverListedTwice
  BY DEF PInv, ThreadsOK, MemoryOK, QueuesOK, NeverListedTwice
<1>2. QED
  BY <1>1, PInvHolds, PTL

(* No thread of the pool is lost, unless an interrupt switched there, or   *)
(* between c_cleanup's pop and its push.                                   *)
THEOREM ThreadsAreAccountedFor == Spec => []PoolAccounted
<1>1. PInv => PoolAccounted
  BY DEF PInv, ThreadsOK, PoolOK, PoolAccounted, Listed
<1>2. QED
  BY <1>1, PInvHolds, PTL

(* A thread goes on where it left, whether a supervisor call or an         *)
(* interrupt took the processor from it, unless an interrupt switched in   *)
(* the stores of pop or push, or between c_cleanup and the load of the     *)
(* idle loop's stack.                                                      *)
THEOREM ContextsAreIntact == Spec => []ContextIntact
<1>1. PInv => ContextIntact
  <2>1. Garbage.name \notin OnQueue \cup Ended \cup IdleAt
    BY DEF Garbage, At, OnQueue, Ended, IdleAt
  <2>2. QED
    BY <2>1 DEF PInv, ThreadsOK, ContextOK, CalmOK, ContextIntact
<1>2. QED
  BY <1>1, PInvHolds, PTL
-----------------------------------------------------------------------------
(* Client code runs in the thread that next_thread finds, even when the    *)
(* memory is lists no more: no step of the client's changes the memory,    *)
(* and every switch is by next_thread.  A context may be garbage then, so  *)
(* that the invariant holds for every statement on a ready queue.          *)
InOwnCode == {"run", "info", "enable", "clear", "disable"}
BestInv == pc.name \in InOwnCode => IsNextThread(next, rthread)

LEMMA SwitchFindsTheBest ==
    ASSUME NEW m, NEW c, NEW link, NEW irqlink, schedule(m, c, link, irqlink)
    PROVE  IsNextThread(next, rthread)'
<1>1. PICK t : IsNextThread(m, t) /\ rthread' = t /\ next' = m
  BY DEF schedule
<1>2. QED
  BY <1>1 DEF IsNextThread

LEMMA NextBestInv == BestInv /\ [Next]_vars => BestInv'
<1> SUFFICES ASSUME BestInv, [Next]_vars, pc'.name \in InOwnCode
             PROVE  IsNextThread(next, rthread)'
  BY DEF BestInv, InOwnCode
<1>1. ASSUME UNCHANGED <<next, rthread>>, pc.name \in InOwnCode
      PROVE  IsNextThread(next, rthread)'
  BY <1>1 DEF BestInv, IsNextThread
<1>2. CASE SvcSchedule \/ CleanupSvc
  BY <1>2, SwitchFindsTheBest DEF SvcSchedule, CleanupSvc
<1>3. CASE Irq
  <2>1. PICK g \in Infos : LET S == AddThreads(g) IN
            IF Served(g) = {} THEN UNCHANGED schedVars ELSE schedule(S.m, S.c, Garbage, pc)
    BY <1>3 DEF Irq
  <2>2. CASE Served(g) = {}
    BY <1>1, <2>1, <2>2 DEF schedVars
  <2>3. QED
    BY <2>1, <2>2, SwitchFindsTheBest
<1>4. CASE Device \/ UNCHANGED vars
  BY <1>1, <1>4 DEF Device, vars, schedVars
<1>5. CASE Subscription
  BY <1>1, <1>5
     DEF Subscription, SubscribeIrq, SubscribeInfo, SubscribeEnable, UnsubscribeIrq,
         UnsubscribeInfo, UnsubscribeDisable, Goto, SameQueues, Running, InOwnCode
<1>6. CASE Cleanup /\ ~ CleanupSvc
  BY <1>6
     DEF Cleanup, Return, CleanupRead, CleanupUnlink, CleanupUntail, CleanupLink, CleanupAppend,
         CleanupClose, CleanupLeave, CleanupLoadSp, Goto, At, AtEntry, InOwnCode
<1>7. QED
  BY <1>2, <1>3, <1>4, <1>5, <1>6 DEF Next

(* The code of a client runs in the thread that next_thread finds,         *)
(* whatever has become of the queues.                                      *)
THEOREM TheBestRuns == Spec => []RunsTheBest
<1>1. Init => BestInv
  <2> SUFFICES ASSUME Init PROVE IsNextThread(next, rthread)
    BY DEF BestInv
  <2>1. ThreadsOK /\ struck = {}
    BY InitPInv DEF Init, PInv
  <2>2. pc = At("run") /\ MemoryOK(next, queue)
    BY <2>1, SettledFacts DEF Init, Window, At
  <2>3. IsNext(queue, rthread)
    BY <2>1, <2>2 DEF ThreadsOK, PcOK, At, OnQueue
  <2>4. QED
    BY <2>2, <2>3, NextFacts
<1>2. BestInv => RunsTheBest
  BY DEF BestInv, RunsTheBest, InOwnCode
<1>3. QED
  BY <1>1, <1>2, NextBestInv, PTL DEF Spec
-----------------------------------------------------------------------------
(* The table irqs and the sources behind it.  A thread is busy with the    *)
(* source Code(t).s while it is in subscribe_irq or unsubscribe_irq.       *)
InfoRecords == [priority : Nat, oneshot : BOOLEAN, pins : SUBSET Pins]

TableOK ==
    /\ handler \in [Sources -> Infos \cup {None}]
    /\ info \in [Sources -> InfoRecords \cup {None}]
    /\ infoOf \in [Sources -> Infos \cup {None}]
    /\ shots \in [Timers -> Nat]

(* Nobody else is busy with the same source, so that what its statements   *)
(* have stored so far is still there.                                      *)
Busy(t) == Code(t).name \in InTable
BusyOK ==
    /\ \A t \in Threads : Busy(t) => Code(t).s \in Sources
    /\ \A t, u \in Threads : Busy(t) /\ Busy(u) /\ Code(t).s = Code(u).s => t = u
StoredOK(x) ==
    /\ x.name \in Subscribing => x.i \in Infos /\ handler[x.s] = x.i
    /\ x.name = "enable" => infoOf[x.s] = x.i /\ info[x.s] # None
    /\ x.name \in Unsubscribing => handler[x.s] = None

(* A handler is that of the information next to it, an enabled source has  *)
(* both, and a one-shot timer that has started its thread is not enabled.  *)
SourceOK(s) ==
    /\ handler[s] # None => handler[s] = infoOf[s] \/ Inside(s, {"info"})
    /\ s \in enabled => /\ handler[s] # None \/ Inside(s, Unsubscribing)
                        /\ info[s] # None \/ Inside(s, {"disable"})
    /\ s \in Timers /\ shots[s] > 0 /\ info[s] # None /\ info[s].oneshot => s \notin enabled

(* An edge is one that the subscriptions ask for, or from before them.     *)
GpioOK ==
    GPIO_BANK_1_IRQ \in enabled /\ ~ Inside(GPIO_BANK_1_IRQ, Unsubscribing)
        => /\ gparen \subseteq info[GPIO_BANK_1_IRQ].pins
           /\ gpeds \subseteq info[GPIO_BANK_1_IRQ].pins \cup leftover

TablesOK ==
    /\ TableOK /\ BusyOK
    /\ \A t \in Threads : StoredOK(Code(t))
    /\ \A s \in Sources : SourceOK(s)
    /\ GpioOK

(* A thread that is lost or restarted may be in the middle of them. *)
TInv == "queue" \notin struck => TablesOK
-----------------------------------------------------------------------------
LEMMA InitTInv == Init => TInv
<1> SUFFICES ASSUME Init PROVE TablesOK
  BY DEF TInv
<1>1. /\ handler = [s \in Sources |-> None] /\ info = handler /\ infoOf = handler
      /\ enabled = {} /\ shots = [s \in Timers |-> 0]
  BY DEF Init, IrqInit
<1>2. ASSUME NEW t \in Threads PROVE Code(t).name \in {"run", "none"}
  <2>1. pc = At("run") /\ saved[t] = NoPc
    BY PoolFacts DEF Init
  <2>2. pc.name = "run" /\ saved[t].name = "none"
    BY <2>1 DEF At, NoPc
  <2>3. QED
    BY <2>2 DEF Code
<1>3. TableOK
  BY <1>1 DEF TableOK
<1>4. BusyOK /\ \A t \in Threads : StoredOK(Code(t))
  BY <1>2 DEF BusyOK, Busy, StoredOK, InTable, Subscribing, Unsubscribing
<1>5. (\A s \in Sources : SourceOK(s)) /\ GpioOK
  BY <1>1 DEF SourceOK, GpioOK
<1>6. QED
  BY <1>3, <1>4, <1>5 DEF TablesOK

(* No thread enters or leaves the middle of subscribe_irq or               *)
(* unsubscribe_irq, although threads may be switched.                      *)
Quiet == \A t \in Threads : \/ Code(t)' = Code(t)
                            \/ ~ Busy(t) /\ ~ Busy(t)'

(* A step of the devices or of c_irq_handler keeps the invariant. *)
LEMMA QuietKeeps ==
    ASSUME TablesOK, Quiet, UNCHANGED <<handler, info, infoOf, gparen>>,
           enabled' \subseteq enabled, shots' \in [Timers -> Nat],
           \A s \in Timers : \/ shots'[s] = shots[s]
                             \/ info[s] # None /\ info[s].oneshot => s \notin enabled',
           \A e \in gpeds' : e \in gparen \/ (e \in gpeds /\ (e \in leftover => e \in leftover'))
    PROVE  TablesOK'
<1>1. TableOK'
  BY DEF TablesOK, TableOK
<1>2. \A t \in Threads : Busy(t)' => Busy(t) /\ Code(t)' = Code(t)
  BY DEF Quiet, Busy
<1>3. \A t \in Threads : Busy(t) => Busy(t)' /\ Code(t)' = Code(t)
  BY DEF Quiet, Busy
<1>4. ASSUME NEW s, NEW names, names \subseteq InTable
      PROVE  Inside(s, names)' <=> Inside(s, names)
  BY <1>2, <1>3, <1>4 DEF Inside, Busy
<1>5. BusyOK'
  BY <1>2 DEF TablesOK, BusyOK
<1>6. ASSUME NEW t \in Threads
      PROVE  StoredOK(Code(t))'
  <2>1. CASE Busy(t)'
    BY <1>2, <2>1 DEF TablesOK, StoredOK
  <2>2. CASE ~ Busy(t)'
    BY <2>2 DEF StoredOK, Busy, InTable, Subscribing
  <2>3. QED
    BY <2>1, <2>2
<1>7. ASSUME NEW s \in Sources
      PROVE  SourceOK(s)'
  <2>1. /\ Inside(s, {"info"})' <=> Inside(s, {"info"})
        /\ Inside(s, Unsubscribing)' <=> Inside(s, Unsubscribing)
        /\ Inside(s, {"disable"})' <=> Inside(s, {"disable"})
    BY <1>4 DEF InTable, Subscribing, Unsubscribing
  <2>2. SourceOK(s)
    BY DEF TablesOK
  <2>3. QED
    BY <2>1, <2>2 DEF SourceOK
<1>8. GpioOK'
  <2>1. Inside(GPIO_BANK_1_IRQ, Unsubscribing)' <=> Inside(GPIO_BANK_1_IRQ, Unsubscribing)
    BY <1>4 DEF InTable
  <2>2. GPIO_BANK_1_IRQ' = GPIO_BANK_1_IRQ
    BY DEF GPIO_BANK_1_IRQ
  <2>3. QED
    BY <2>1, <2>2 DEF TablesOK, GpioOK
<1>9. QED
  BY <1>1, <1>5, <1>6, <1>7, <1>8 DEF TablesOK
(* The thread that runs moves from pc to p, and is busy with s before or   *)
(* after, where nobody else is.                                            *)
StepsOn(s, p) ==
    /\ s \in Sources /\ rthread \in Threads /\ Goto(p)
    /\ IF pc.name \in InTable THEN pc.s = s ELSE Alone(s)
    /\ p.name \in InTable => p.s = s

LEMMA StepsOnFacts ==
    ASSUME TablesOK, NEW s, NEW p, StepsOn(s, p)
    PROVE  /\ BusyOK'
           /\ Code(rthread) = pc /\ Code(rthread)' = p
           /\ \A t \in Threads \ {rthread} :
                  Code(t)' = Code(t) /\ (Busy(t) => Code(t).s # s)
           /\ \A names \in SUBSET InTable :
                  /\ Inside(s, names) <=> pc.name \in names
                  /\ Inside(s, names)' <=> p.name \in names
                  /\ \A u \in Sources \ {s} : Inside(u, names)' <=> Inside(u, names)
<1>1. Code(rthread) = pc /\ Code(rthread)' = p /\ rthread' = rthread /\ rthread \in Threads
  BY DEF StepsOn, Goto, Code
<1>2. ASSUME NEW t \in Threads \ {rthread}
      PROVE  Code(t)' = Code(t)
  BY <1>2 DEF StepsOn, Goto, Code
<1>3. ASSUME NEW t \in Threads \ {rthread}, Busy(t)
      PROVE  Code(t).s # s
  <2>1. CASE pc.name \in InTable
    BY <1>1, <1>3, <2>1 DEF TablesOK, BusyOK, StepsOn, Busy
  <2>2. CASE pc.name \notin InTable
    BY <1>3, <2>2 DEF StepsOn, Alone, Inside, Busy, InTable
  <2>3. QED
    BY <2>1, <2>2
<1>4. BusyOK'
  <2>1. ASSUME NEW t \in Threads, Busy(t)'
        PROVE  /\ Code(t)'.s \in Sources
               /\ t # rthread => Busy(t) /\ Code(t)'.s = Code(t).s
               /\ t = rthread => Code(t)'.s = s
    BY <1>1, <1>2, <2>1 DEF TablesOK, BusyOK, Busy, StepsOn
  <2>2. ASSUME NEW t \in Threads, NEW u \in Threads, Busy(t)', Busy(u)', Code(t)'.s = Code(u)'.s
        PROVE  t = u
    <3>1. CASE t = rthread \/ u = rthread
      BY <1>3, <2>1, <2>2, <3>1
    <3>2. CASE t # rthread /\ u # rthread
      BY <2>1, <2>2, <3>2 DEF TablesOK, BusyOK
    <3>3. QED
      BY <3>1, <3>2
  <2>3. QED
    BY <2>1, <2>2 DEF BusyOK
<1>5. ASSUME NEW names \in SUBSET InTable
      PROVE  /\ Inside(s, names) <=> pc.name \in names
             /\ Inside(s, names)' <=> p.name \in names
             /\ \A u \in Sources \ {s} : Inside(u, names)' <=> Inside(u, names)
  <2>1. pc.name \in names => pc.s = s
    BY DEF StepsOn
  <2>2. p.name \in names => p.s = s
    BY DEF StepsOn
  <2>3. \A t \in Threads \ {rthread} : Code(t).name \in names => Code(t).s # s
    BY <1>3 DEF Busy
  <2>4. Inside(s, names) <=> pc.name \in names
    BY <1>1, <2>1, <2>3 DEF Inside
  <2>5. Inside(s, names)' <=> p.name \in names
    BY <1>1, <1>2, <2>2, <2>3 DEF Inside
  <2>6. ASSUME NEW u \in Sources \ {s}
        PROVE  Inside(u, names)' <=> Inside(u, names)
    BY <1>1, <1>2, <2>1, <2>2 DEF Inside
  <2>7. QED
    BY <2>4, <2>5, <2>6
<1>6. QED
  BY <1>1, <1>2, <1>3, <1>4, <1>5

(* A statement that stores to the table at s only. *)
LEMMA StepsOnKeeps ==
    ASSUME TablesOK, NEW s, NEW p, StepsOn(s, p),
           \A u \in Sources \ {s} :
               /\ handler'[u] = handler[u] /\ info'[u] = info[u] /\ infoOf'[u] = infoOf[u]
               /\ u \in enabled' <=> u \in enabled
               /\ u \in Timers => shots'[u] = shots[u],
           s # GPIO_BANK_1_IRQ => UNCHANGED <<gparen, gpeds, leftover>>,
           TableOK', StoredOK(p)', SourceOK(s)', s = GPIO_BANK_1_IRQ => GpioOK'
    PROVE  TablesOK'
<1>1. /\ BusyOK'
      /\ \A t \in Threads \ {rthread} : Code(t)' = Code(t) /\ (Busy(t) => Code(t).s # s)
      /\ \A names \in SUBSET InTable, u \in Sources \ {s} : Inside(u, names)' <=> Inside(u, names)
  BY StepsOnFacts
<1>2. ASSUME NEW t \in Threads
      PROVE  StoredOK(Code(t))'
  <2>1. CASE t = rthread
    <3>1. Code(t)' = p
      BY <2>1 DEF StepsOn, Goto, Code
    <3>2. QED
      BY <3>1 DEF StoredOK
  <2>2. CASE t # rthread /\ ~ Busy(t)
    BY <1>1, <2>2 DEF StoredOK, Busy, InTable, Subscribing
  <2>3. CASE t # rthread /\ Busy(t)
    <3>1. Code(t)' = Code(t) /\ Code(t).s \in Sources \ {s} /\ StoredOK(Code(t))
      BY <1>1, <2>3 DEF TablesOK, BusyOK
    <3>2. QED
      BY <3>1 DEF StoredOK
  <2>4. QED
    BY <2>1, <2>2, <2>3
<1>3. ASSUME NEW u \in Sources
      PROVE  SourceOK(u)'
  <2>1. CASE u = s
    BY <2>1 DEF SourceOK, Inside
  <2>2. CASE u # s
    <3>1. /\ Inside(u, {"info"})' <=> Inside(u, {"info"})
          /\ Inside(u, Unsubscribing)' <=> Inside(u, Unsubscribing)
          /\ Inside(u, {"disable"})' <=> Inside(u, {"disable"})
      BY <1>1, <2>2 DEF InTable, Subscribing, Unsubscribing
    <3>2. SourceOK(u)
      BY DEF TablesOK
    <3>3. QED
      BY <2>2, <3>1, <3>2 DEF SourceOK
  <2>3. QED
    BY <2>1, <2>2
<1>4. GpioOK'
  <2>1. CASE s # GPIO_BANK_1_IRQ
    <3>1. GPIO_BANK_1_IRQ \in Sources \ {s} /\ Unsubscribing \in SUBSET InTable
      BY <2>1 DEF Sources, InTable
    <3>2. Inside(GPIO_BANK_1_IRQ, Unsubscribing)' <=> Inside(GPIO_BANK_1_IRQ, Unsubscribing)
      BY <1>1, <3>1
    <3>3. QED
      BY <2>1, <3>1, <3>2 DEF TablesOK, GpioOK, GPIO_BANK_1_IRQ
  <2>2. QED
    BY <2>1
<1>5. QED
  BY <1>1, <1>2, <1>3, <1>4 DEF TablesOK
(* subscribe_irq and unsubscribe_irq, statement by statement. *)
LEMMA SubscribeKeepsTable ==
    ASSUME ThreadsOK, TablesOK, NEW s \in Sources, NEW i \in Infos, SubscribeIrq(s, i)
    PROVE  TablesOK'
<1> DEFINE p == AtIrq("info", s, i)
<1>1. /\ handler' = [handler EXCEPT ![s] = i] /\ pc.name = "run" /\ Goto(p) /\ Alone(s)
      /\ UNCHANGED <<info, infoOf, enabled, gpeds, gparen, shots, leftover>>
  BY DEF SubscribeIrq, StoreHandler, Running, deviceVars
<1>2. p.name = "info" /\ p.s = s /\ p.i = i
  BY DEF AtIrq
<1> HIDE DEF p
<1>3. StepsOn(s, p)
  BY <1>1, <1>2 DEF StepsOn, ThreadsOK, PcOK, InTable, Subscribing, Unsubscribing, OnQueue
<1>4. TableOK' /\ handler'[s] = i /\ i # None
  BY <1>1, InfosAssumption, NoneAssumption DEF TablesOK, TableOK
<1>5. /\ Inside(s, {"info"})' /\ ~ Inside(s, {"disable"})
      /\ ~ Inside(s, Unsubscribing) /\ ~ Inside(s, Unsubscribing)'
  BY <1>1, <1>2, <1>3, StepsOnFacts DEF InTable, Subscribing, Unsubscribing
<1>6. StoredOK(p)'
  BY <1>2, <1>4 DEF StoredOK, Subscribing, Unsubscribing
<1>7. SourceOK(s)'
  BY <1>1, <1>4, <1>5 DEF TablesOK, SourceOK
<1>8. s = GPIO_BANK_1_IRQ => GpioOK'
  BY <1>1, <1>5 DEF TablesOK, GpioOK
<1>9. QED
  BY <1>1, <1>3, <1>4, <1>6, <1>7, <1>8, StepsOnKeeps DEF TablesOK, TableOK

LEMMA SubscribeInfoKeepsTable ==
    ASSUME ThreadsOK, TablesOK, NEW s, NEW i, s = pc.s, i = pc.i, SubscribeInfo
    PROVE  TablesOK'
<1> DEFINE p == AtIrq("enable", s, i)
           new == IF s = GPIO_BANK_1_IRQ /\ info[s] # None
                  THEN [i EXCEPT !.pins = @ \cup info[s].pins] ELSE i
<1>1. /\ pc.name = "info" /\ Goto(p)
      /\ info' = [info EXCEPT ![s] = new] /\ infoOf' = [infoOf EXCEPT ![s] = i]
      /\ shots' = [t \in Timers |-> IF t = s THEN 0 ELSE shots[t]]
      /\ UNCHANGED <<handler, enabled, gpeds, gparen, leftover>>
  BY DEF SubscribeInfo, StoreInfo
<1>2. p.name = "enable" /\ p.s = s /\ p.i = i
  BY DEF AtIrq
<1> HIDE DEF p
<1>3. rthread \in Threads /\ Busy(rthread) /\ Code(rthread) = pc
  BY <1>1 DEF ThreadsOK, PcOK, OnQueue, Busy, Code, InTable, Subscribing
<1>4. s \in Sources /\ i \in Infos /\ handler[s] = i
  BY <1>1, <1>3 DEF TablesOK, BusyOK, StoredOK, Subscribing
<1>5. StepsOn(s, p)
  BY <1>1, <1>2, <1>3, <1>4 DEF StepsOn, InTable, Subscribing
<1>6. /\ i \in InfoRecords /\ None \notin InfoRecords
      /\ info[s] # None => info[s] \in InfoRecords
  BY <1>4, InfosAssumption, NoneAssumption DEF InfoRecords, TablesOK, TableOK
<1>7. /\ new \in InfoRecords /\ i.pins \subseteq new.pins
      /\ s = GPIO_BANK_1_IRQ /\ info[s] # None => info[s].pins \subseteq new.pins
  BY <1>6 DEF InfoRecords
<1> HIDE DEF new
<1>8. /\ TableOK' /\ info'[s] = new /\ infoOf'[s] = i /\ new # None
      /\ s \in Timers => shots'[s] = 0
  BY <1>1, <1>4, <1>6, <1>7 DEF TablesOK, TableOK
<1>9. ~ Inside(s, {"disable"}) /\ ~ Inside(s, Unsubscribing) /\ ~ Inside(s, Unsubscribing)'
  BY <1>1, <1>2, <1>5, StepsOnFacts DEF InTable, Subscribing, Unsubscribing
<1>10. StoredOK(p)'
  BY <1>1, <1>2, <1>4, <1>8 DEF StoredOK, Subscribing, Unsubscribing
<1>11. SourceOK(s)'
  BY <1>1, <1>4, <1>8, <1>9 DEF TablesOK, SourceOK
<1>12. s = GPIO_BANK_1_IRQ => GpioOK'
  <2> SUFFICES ASSUME s = GPIO_BANK_1_IRQ, GPIO_BANK_1_IRQ \in enabled
               PROVE  GpioOK'
    BY <1>1 DEF GpioOK, GPIO_BANK_1_IRQ
  <2>1. info[s] # None
    BY <1>4, <1>9 DEF TablesOK, SourceOK
  <2>2. gparen \subseteq info[s].pins /\ gpeds \subseteq info[s].pins \cup leftover
    BY <1>9 DEF TablesOK, GpioOK
  <2>3. gparen' \subseteq info'[s].pins /\ gpeds' \subseteq info'[s].pins \cup leftover'
    BY <1>1, <1>7, <1>8, <2>1, <2>2
  <2>4. QED
    BY <2>3 DEF GpioOK, GPIO_BANK_1_IRQ
<1>13. QED
  BY <1>1, <1>4, <1>5, <1>8, <1>10, <1>11, <1>12, StepsOnKeeps DEF TablesOK, TableOK

LEMMA SubscribeEnableKeepsTable ==
    ASSUME ThreadsOK, TablesOK, NEW s, s = pc.s, SubscribeEnable
    PROVE  TablesOK'
<1> DEFINE p == At("run")
<1>1. /\ pc.name = "enable" /\ Goto(p)
      /\ enabled' = enabled \cup {s}
      /\ gparen' = IF s = GPIO_BANK_1_IRQ THEN info[s].pins ELSE gparen
      /\ leftover' = IF s = GPIO_BANK_1_IRQ THEN gpeds ELSE leftover
      /\ shots' = [t \in Timers |-> IF t = s THEN 0 ELSE shots[t]]
      /\ UNCHANGED <<handler, info, infoOf, gpeds>>
  BY DEF SubscribeEnable, EnableSource, tableVars
<1>2. p.name = "run"
  BY DEF At
<1> HIDE DEF p
<1>3. rthread \in Threads /\ Busy(rthread) /\ Code(rthread) = pc
  BY <1>1 DEF ThreadsOK, PcOK, OnQueue, Busy, Code, InTable, Subscribing
<1>4. s \in Sources /\ handler[s] # None /\ handler[s] = infoOf[s] /\ info[s] # None
  <2>1. StoredOK(pc) /\ s \in Sources
    BY <1>3 DEF TablesOK, BusyOK
  <2>2. pc.i \in Infos /\ handler[s] = pc.i /\ infoOf[s] = pc.i /\ info[s] # None
    BY <1>1, <2>1 DEF StoredOK, Subscribing
  <2>3. QED
    BY <2>1, <2>2, InfosAssumption, NoneAssumption
<1>5. StepsOn(s, p)
  BY <1>1, <1>2, <1>3, <1>4 DEF StepsOn, InTable, Subscribing, Unsubscribing
<1>6. /\ TableOK'
      /\ s \in Timers => shots'[s] = 0
  BY <1>1, <1>4 DEF TablesOK, TableOK
<1>7. StoredOK(p)'
  BY <1>2 DEF StoredOK, Subscribing, Unsubscribing
<1>8. SourceOK(s)'
  BY <1>1, <1>4, <1>6 DEF SourceOK
<1>9. s = GPIO_BANK_1_IRQ => GpioOK'
  BY <1>1 DEF GpioOK, GPIO_BANK_1_IRQ
<1>10. QED
  BY <1>1, <1>4, <1>5, <1>6, <1>7, <1>8, <1>9, StepsOnKeeps DEF TablesOK, TableOK

LEMMA UnsubscribeKeepsTable ==
    ASSUME ThreadsOK, TablesOK, NEW s \in Sources, UnsubscribeIrq(s)
    PROVE  TablesOK'
<1> DEFINE p == AtIrq("clear", s, None)
<1>1. /\ handler' = [handler EXCEPT ![s] = None] /\ pc.name = "run" /\ Goto(p) /\ Alone(s)
      /\ UNCHANGED <<info, infoOf, enabled, gpeds, gparen, shots, leftover>>
  BY DEF UnsubscribeIrq, ClearHandler, Running, deviceVars
<1>2. p.name = "clear" /\ p.s = s
  BY DEF AtIrq
<1> HIDE DEF p
<1>3. StepsOn(s, p)
  BY <1>1, <1>2 DEF StepsOn, ThreadsOK, PcOK, InTable, Subscribing, Unsubscribing, OnQueue
<1>4. TableOK' /\ handler'[s] = None
  BY <1>1 DEF TablesOK, TableOK
<1>5. Inside(s, Unsubscribing)' /\ ~ Inside(s, {"disable"})
  BY <1>1, <1>2, <1>3, StepsOnFacts DEF InTable, Subscribing, Unsubscribing
<1>6. StoredOK(p)'
  BY <1>2, <1>4 DEF StoredOK, Subscribing, Unsubscribing
<1>7. SourceOK(s)'
  BY <1>1, <1>4, <1>5 DEF TablesOK, SourceOK
<1>8. s = GPIO_BANK_1_IRQ => GpioOK'
  BY <1>5 DEF GpioOK, GPIO_BANK_1_IRQ
<1>9. QED
  BY <1>1, <1>3, <1>4, <1>6, <1>7, <1>8, StepsOnKeeps DEF TablesOK, TableOK

LEMMA UnsubscribeInfoKeepsTable ==
    ASSUME ThreadsOK, TablesOK, NEW s, s = pc.s, UnsubscribeInfo
    PROVE  TablesOK'
<1> DEFINE p == AtIrq("disable", s, None)
<1>1. /\ pc.name = "clear" /\ Goto(p)
      /\ info' = [info EXCEPT ![s] = None] /\ infoOf' = [infoOf EXCEPT ![s] = None]
      /\ shots' = [t \in Timers |-> IF t = s THEN 0 ELSE shots[t]]
      /\ UNCHANGED <<handler, enabled, gpeds, gparen, leftover>>
  BY DEF UnsubscribeInfo, ClearInfo
<1>2. p.name = "disable" /\ p.s = s
  BY DEF AtIrq
<1> HIDE DEF p
<1>3. rthread \in Threads /\ Busy(rthread) /\ Code(rthread) = pc
  BY <1>1 DEF ThreadsOK, PcOK, OnQueue, Busy, Code, InTable, Unsubscribing
<1>4. s \in Sources /\ handler[s] = None
  BY <1>1, <1>3 DEF TablesOK, BusyOK, StoredOK, Unsubscribing
<1>5. StepsOn(s, p)
  BY <1>1, <1>2, <1>3, <1>4 DEF StepsOn, InTable, Unsubscribing
<1>6. TableOK' /\ info'[s] = None
  BY <1>1, <1>4 DEF TablesOK, TableOK
<1>7. Inside(s, Unsubscribing)' /\ Inside(s, {"disable"})'
  BY <1>2, <1>5, StepsOnFacts DEF InTable, Unsubscribing
<1>8. StoredOK(p)'
  BY <1>1, <1>2, <1>4 DEF StoredOK, Subscribing, Unsubscribing
<1>9. SourceOK(s)'
  BY <1>1, <1>4, <1>6, <1>7 DEF SourceOK
<1>10. s = GPIO_BANK_1_IRQ => GpioOK'
  BY <1>7 DEF GpioOK, GPIO_BANK_1_IRQ
<1>11. QED
  BY <1>1, <1>4, <1>5, <1>6, <1>8, <1>9, <1>10, StepsOnKeeps DEF TablesOK, TableOK

LEMMA UnsubscribeDisableKeepsTable ==
    ASSUME ThreadsOK, TablesOK, NEW s, s = pc.s, UnsubscribeDisable
    PROVE  TablesOK'
<1> DEFINE p == At("run")
<1>1. /\ pc.name = "disable" /\ Goto(p) /\ enabled' = enabled \ {s}
      /\ UNCHANGED <<handler, info, infoOf, gpeds, gparen, shots, leftover>>
  BY DEF UnsubscribeDisable, DisableSource, tableVars
<1>2. p.name = "run"
  BY DEF At
<1> HIDE DEF p
<1>3. rthread \in Threads /\ Busy(rthread) /\ Code(rthread) = pc
  BY <1>1 DEF ThreadsOK, PcOK, OnQueue, Busy, Code, InTable, Unsubscribing
<1>4. s \in Sources /\ handler[s] = None
  BY <1>1, <1>3 DEF TablesOK, BusyOK, StoredOK, Unsubscribing
<1>5. StepsOn(s, p)
  BY <1>1, <1>2, <1>3, <1>4 DEF StepsOn, InTable, Subscribing, Unsubscribing
<1>6. TableOK'
  BY <1>1 DEF TablesOK, TableOK
<1>7. StoredOK(p)'
  BY <1>2 DEF StoredOK, Subscribing, Unsubscribing
<1>8. SourceOK(s)'
  BY <1>1, <1>4 DEF SourceOK
<1>9. s = GPIO_BANK_1_IRQ => GpioOK'
  BY <1>1 DEF GpioOK, GPIO_BANK_1_IRQ
<1>10. QED
  BY <1>1, <1>4, <1>5, <1>6, <1>7, <1>8, <1>9, StepsOnKeeps DEF TablesOK, TableOK
(* A switch moves no thread into, or out of, these functions. *)
LEMMA IrqIsQuiet == ASSUME ThreadsOK, Irq, "queue" \notin struck' PROVE Quiet
<1>1. PICK g \in Infos : LET S == AddThreads(g) IN
          IF Served(g) = {} THEN UNCHANGED schedVars
          ELSE /\ struck' = struck \cup Window
               /\ schedule(S.m, S.c, Garbage, pc)
               /\ Means(S.q)
  BY DEF Irq
<1>2. CASE Served(g) = {}
  BY <1>1, <1>2 DEF schedVars, Quiet, Code
<1>3. CASE Served(g) # {}
  <2> DEFINE S == AddThreads(g)
  <2>1. S = AddThreads(g) /\ schedule(S.m, S.c, Garbage, pc) /\ queue' = S.q /\ "queue" \notin Window
    BY <1>1, <1>3 DEF Means
  <2> HIDE DEF S
  <2>2. /\ BranchOK(S)
        /\ Struck = pc \/ (Struck = Garbage /\ pc.name = "none")
        /\ rthread' # rthread => saved'[rthread] = Struck
        /\ \A u \in (Threads \cup {usrloopthread}) \ {rthread, rthread'} : saved'[u] = S.c[u]
        /\ pc' = IF rthread' = rthread THEN Struck ELSE S.c[rthread']
    BY <2>1, IrqSwitch
  <2>3. Garbage.name \notin InTable /\ At("run").name \notin InTable /\ "none" \notin InTable
    BY DEF Garbage, At, InTable, Subscribing, Unsubscribing
  <2>4. \A t \in Threads : S.c[t] = saved[t] \/ (S.c[t] = At("run") /\ saved[t].name \notin InTable)
    BY <2>2 DEF BranchOK, ThreadsOK, InfoOK
  <2>5. ASSUME NEW t \in Threads
        PROVE  Code(t)' = Code(t) \/ (Code(t).name \notin InTable /\ Code(t)'.name \notin InTable)
    <3>1. CASE t = rthread
      <4>1. Code(t) = pc /\ Code(t)' = Struck
        BY <2>2, <3>1 DEF Code
      <4>2. QED
        BY <2>2, <2>3, <4>1
    <3>2. CASE t # rthread
      <4>1. Code(t) = saved[t] /\ Code(t)' = S.c[t]
        BY <2>2, <3>2 DEF Code
      <4>2. QED
        BY <2>3, <2>4, <4>1
    <3>3. QED
      BY <3>1, <3>2
  <2>6. QED
    BY <2>5 DEF Quiet, Busy
<1>4. QED
  BY <1>2, <1>3

LEMMA SwitchIsQuiet == ASSUME ThreadsOK, SvcSchedule \/ CleanupSvc PROVE Quiet
<1>1. PICK x : /\ schedule(next, saved, x, irqlr)
               /\ left' = [left EXCEPT ![rthread] = x, ![rthread'] = NoPc]
               /\ UNCHANGED <<queue, client, info, priority, struck>>
               /\ (pc.name = "run" /\ x = pc) \/ (pc.name = "svc" /\ x = At("idle"))
  <2>1. CASE SvcSchedule
    BY <2>1 DEF SvcSchedule, Running, irqVars, tableVars
  <2>2. CASE CleanupSvc
    BY <2>2 DEF CleanupSvc, irqVars, tableVars
  <2>3. QED
    BY <2>1, <2>2
<1>2. /\ rthread' # rthread => saved'[rthread] = x
      /\ \A u \in (Threads \cup {usrloopthread}) \ {rthread, rthread'} : saved'[u] = saved[u]
      /\ pc' = IF rthread' = rthread THEN x ELSE saved[rthread']
  BY <1>1, SwitchKeeps
<1>3. pc.name \notin InTable /\ x.name \notin InTable
  BY <1>1 DEF At, InTable, Subscribing, Unsubscribing
<1>4. ASSUME NEW t \in Threads
      PROVE  Code(t)' = Code(t) \/ (Code(t).name \notin InTable /\ Code(t)'.name \notin InTable)
  <2>1. CASE t = rthread
    <3>1. Code(t) = pc /\ Code(t)' = x
      BY <1>2, <2>1 DEF Code
    <3>2. QED
      BY <1>3, <3>1
  <2>2. CASE t # rthread
    BY <1>2, <2>2 DEF Code
  <2>3. QED
    BY <2>1, <2>2
<1>5. QED
  BY <1>4 DEF Quiet, Busy

LEMMA CleanupIsQuiet == ASSUME ThreadsOK, Cleanup PROVE Quiet
<1>1. CASE CleanupSvc
  BY <1>1, SwitchIsQuiet
<1>2. CASE CleanupLeave
  <2>1. /\ rthread \in Threads /\ rthread' = usrloopthread /\ usrloopthread \notin Threads
        /\ saved[rthread] = NoPc /\ saved' = saved /\ pc.name = "freed"
    BY <1>2, PoolFacts DEF CleanupLeave, ThreadsOK, PcOK, Ended
  <2>2. \A t \in Threads : Code(t)' = saved[t] /\ Code(t) = IF t = rthread THEN pc ELSE saved[t]
    BY <2>1 DEF Code
  <2>3. QED
    BY <2>1, <2>2 DEF Quiet, Busy, NoPc, At, InTable, Subscribing, Unsubscribing
<1>3. ASSUME NEW p, Goto(p), pc.name \notin InTable, p.name \notin InTable
      PROVE  Quiet
  BY <1>3 DEF Goto, Quiet, Busy, Code
<1>4. CASE \/ Return \/ CleanupRead \/ CleanupUnlink \/ CleanupUntail
           \/ CleanupLink \/ CleanupAppend \/ CleanupClose \/ CleanupLoadSp
  <2>1. /\ pc.name \in {"run", "pop", "loadsp"} \cup {"unlink"} \cup Ended
        /\ \E p : Goto(p) /\ p.name \in {"pop", "unlink", "svc"} \cup Ended
    BY <1>4 DEF Return, Running, CleanupRead, CleanupUnlink, CleanupUntail, CleanupLink,
                CleanupAppend, CleanupClose, CleanupLoadSp, At, AtEntry, Ended
  <2>2. QED
    BY <1>3, <2>1 DEF InTable, Subscribing, Unsubscribing, Ended
<1>5. QED
  BY <1>1, <1>2, <1>4 DEF Cleanup

LEMMA IrqKeepsTable ==
    ASSUME ThreadsOK, TablesOK, Irq, "queue" \notin struck'
    PROVE  TablesOK'
<1>1. PICK g \in Infos : c_irq_handler(g)
  BY DEF Irq
<1>2. /\ UNCHANGED <<handler, info, infoOf, gparen>>
      /\ enabled' = enabled \ {s \in Served(g) \cap Timers : InfoAt(s, g).oneshot}
      /\ shots' = [s \in Timers |-> IF s \in Served(g) /\ shots[s] < 2 THEN shots[s] + 1
                                                                      ELSE shots[s]]
      /\ gpeds' \subseteq gpeds /\ leftover' = leftover \cap gpeds'
  BY <1>1 DEF c_irq_handler, tableVars
<1>3. enabled' \subseteq enabled /\ shots' \in [Timers -> Nat]
  BY <1>2 DEF TablesOK, TableOK
<1>4. ASSUME NEW s \in Timers
      PROVE  shots'[s] = shots[s] \/ (info[s] # None /\ info[s].oneshot => s \notin enabled')
  <2>1. CASE s \in Served(g) /\ info[s] # None /\ info[s].oneshot
    BY <1>2, <2>1 DEF InfoAt
  <2>2. CASE s \notin Served(g)
    BY <1>2, <2>2
  <2>3. QED
    BY <2>1, <2>2
<1>5. QED
  BY <1>2, <1>3, <1>4, IrqIsQuiet, QuietKeeps

LEMMA NextTInv == PInv /\ TInv /\ [Next]_vars => TInv'
<1> SUFFICES ASSUME PInv, TInv, [Next]_vars, "queue" \notin struck' PROVE TablesOK'
  BY DEF TInv
<1>0. ThreadsOK /\ TablesOK
  BY StruckGrows DEF PInv, TInv
<1>1. ASSUME Quiet, UNCHANGED irqVars
      PROVE  TablesOK'
  BY <1>0, <1>1, QuietKeeps DEF irqVars, tableVars, deviceVars, TablesOK, TableOK
<1>2. CASE SvcSchedule
  BY <1>0, <1>1, <1>2, SwitchIsQuiet DEF SvcSchedule
<1>3. CASE Cleanup
  <2>1. UNCHANGED irqVars
    BY <1>3 DEF Cleanup, Return, CleanupRead, CleanupUnlink, CleanupUntail, CleanupLink,
                CleanupAppend, CleanupClose, CleanupLeave, CleanupLoadSp, CleanupSvc, Stays
  <2>2. QED
    BY <1>0, <1>1, <1>3, <2>1, CleanupIsQuiet
<1>4. CASE Device
  <2>1. /\ Quiet
        /\ UNCHANGED <<handler, info, infoOf, gparen, enabled, shots, leftover>>
    BY <1>4 DEF Device, Match, Receive, Edge, tableVars, schedVars, Quiet, Code
  <2>2. \A e \in gpeds' : e \in gparen \/ e \in gpeds
    BY <1>4 DEF Device, Match, Receive, Edge
  <2>3. shots' \in [Timers -> Nat]
    BY <1>0, <2>1 DEF TablesOK, TableOK
  <2>4. QED
    BY <1>0, <2>1, <2>2, <2>3, QuietKeeps
<1>5. CASE Subscription
  BY <1>0, <1>5, SubscribeKeepsTable, SubscribeInfoKeepsTable, SubscribeEnableKeepsTable,
     UnsubscribeKeepsTable, UnsubscribeInfoKeepsTable, UnsubscribeDisableKeepsTable
     DEF Subscription
<1>6. CASE UNCHANGED vars
  <2>1. UNCHANGED irqVars /\ Quiet
    BY <1>6 DEF vars, schedVars, Quiet, Code
  <2>2. QED
    BY <1>1, <2>1
<1>7. QED
  BY <1>0, <1>2, <1>3, <1>4, <1>5, <1>6, IrqKeepsTable DEF Next

(* Until an interrupt switches in the stores of pop or push, the handler   *)
(* and the information of a source are those of one subscription whenever  *)
(* its thread is not between the two stores, and no source that nobody     *)
(* handles is enabled.                                                     *)
THEOREM TInvHolds == Spec => []TInv
<1>1. QED
  BY InitTInv, NextTInv, PInvHolds, PTL DEF Spec

(* A thread is started with the handler and the information of one         *)
(* subscription, unless c_irq_handler runs between their two stores, or an *)
(* interrupt has switched in the stores of pop or push before.             *)
THEOREM ThreadsStartAsSubscribed == Spec => StartedAsSubscribed
<1>1. TInv =>
          \A s \in Sources : Taken /\ (\E g \in Infos : Serves(s, g)) =>
              handler[s] = infoOf[s] \/ Inside(s, {"info"})
  BY DEF TInv, TablesOK, SourceOK, Serves, Taken
<1>2. QED
  BY <1>1, TInvHolds, PTL DEF StartedAsSubscribed

(* A one-shot timer starts its thread a second time only in an interrupt   *)
(* that some other source has raised, under the same condition.            *)
THEOREM OneShotsShootOnce == Spec => OneShotOnce
<1>1. TInv =>
          \A s \in Timers :
              (Taken /\ shots[s] > 0 /\ shots[s]' # shots[s] /\ info[s] # None /\ info[s].oneshot)
                  => \E r \in Sources \ {s} : Asserted(r)
  <2> SUFFICES ASSUME TablesOK, NEW s \in Timers, Line, shots[s] > 0, info[s] # None, info[s].oneshot
               PROVE  \E r \in Sources \ {s} : Asserted(r)
    BY DEF Taken, TInv
  <2>1. s \notin enabled
    BY DEF TablesOK, SourceOK, Sources
  <2>2. QED
    BY <2>1 DEF Line, Asserted
<1>2. QED
  BY <1>1, TInvHolds, PTL DEF OneShotOnce

(* c_irq_handler leaves no source holding the interrupt line that it could *)
(* not serve: the processor would never leave the handler.  The same       *)
(* condition, and an edge from before the subscription, are excepted.      *)
THEOREM InterruptsAreAcknowledged == Spec => Acknowledged
<1>1. TInv =>
          \A s \in Sources : Taken /\ Asserted(s)' =>
              \/ Inside(s, Unsubscribing)
              \/ s = GPIO_BANK_1_IRQ /\ leftover # {}
  <2> SUFFICES ASSUME TablesOK, NEW s \in Sources, NEW g \in Infos, c_irq_handler(g), Asserted(s)',
                      ~ Inside(s, Unsubscribing)
               PROVE  s = GPIO_BANK_1_IRQ /\ leftover # {}
    BY DEF Taken, TInv
  <2>1. /\ rx' = (rx /\ ~ Asserted(UART_IRQ)) /\ imsc' = imsc
        /\ gpeds' = gpeds \ (IF GPIO_BANK_1_IRQ \in Served(g)
                             THEN InfoAt(GPIO_BANK_1_IRQ, g).pins ELSE {})
        /\ cs' = cs \ Served(g)
        /\ enabled' \subseteq enabled
    BY DEF c_irq_handler
  <2>2. UART_IRQ # GPIO_BANK_1_IRQ /\ UART_IRQ \notin Timers /\ GPIO_BANK_1_IRQ \notin Timers
    BY TimersAssumption DEF UART_IRQ, GPIO_BANK_1_IRQ
  <2>3. s \in enabled /\ handler[s] # None /\ info[s] # None
    <3>1. s \in enabled
      BY <2>1 DEF Asserted
    <3>2. Inside(s, {"disable"}) => Inside(s, Unsubscribing)
      BY DEF Inside, Unsubscribing
    <3>3. QED
      BY <3>1, <3>2 DEF TablesOK, SourceOK
  <2>4. s # UART_IRQ
    <3> SUFFICES ASSUME s = UART_IRQ PROVE FALSE
      OBVIOUS
    <3>1. rx' /\ imsc'
      BY <2>2 DEF Asserted
    <3>2. rx /\ ~ Asserted(UART_IRQ) /\ imsc
      BY <2>1, <3>1, Zenon
    <3>3. QED
      BY <2>3, <3>2 DEF Asserted
  <2>5. s \notin Timers
    <3>1. ASSUME s \in Timers PROVE s \in cs' /\ s # UART_IRQ /\ s # GPIO_BANK_1_IRQ
      BY <2>2, <3>1 DEF Asserted, UART_IRQ, GPIO_BANK_1_IRQ
    <3>2. QED
      BY <2>1, <2>3, <3>1 DEF Served, Serves
  <2>6. s = GPIO_BANK_1_IRQ
    BY <2>4, <2>5 DEF Sources
  <2>7. gpeds' # {}
    BY <2>2, <2>6 DEF Asserted, UART_IRQ, GPIO_BANK_1_IRQ
  <2>8. gpeds \subseteq info[s].pins \cup leftover
    BY <2>3, <2>6 DEF TablesOK, GpioOK
  <2>9. ASSUME leftover = {} PROVE FALSE
    <3>1. gpeds # {} /\ gpeds \subseteq info[s].pins /\ InfoAt(s, g) = info[s]
      BY <2>1, <2>3, <2>7, <2>8, <2>9 DEF InfoAt
    <3>2. Asserted(s)
      BY <2>2, <2>3, <2>6, <3>1 DEF Asserted
    <3>3. s \in Served(g)
      BY <2>2, <2>3, <2>6, <3>1, <3>2 DEF Served, Serves
    <3>4. QED
      BY <2>1, <2>6, <2>7, <3>1, <3>3
  <2>10. QED
    BY <2>6, <2>9
<1>2. QED
  BY <1>1, TInvHolds, PTL DEF Acknowledged
=============================================================================
