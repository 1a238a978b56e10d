------------------------- MODULE ThreadQueuesProofs -------------------------
(***************************************************************************)
(* What the queue operations of ThreadQueues do to a family q of queues    *)
(* named by A and holding entries of E: their type, that an entry has one  *)
(* position at most, and which queue holds which entry afterwards.         *)
(***************************************************************************)
EXTENDS ThreadQueues, SequenceTheorems, WellFoundedInduction, TLAPS

(* A set of naturals has a least one. *)
LEMMA FirstOne ==
    ASSUME NEW T \in SUBSET Nat, T # {}
    PROVE  \E x \in T : \A y \in T : x <= y
<1>1. PICK x \in T : \A y \in T : ~ (<<y, x>> \in OpToRel(<, Nat))
  BY WFMin, NatLessThanWellFounded
<1>2. \A y \in T : ~ (y < x)
  BY <1>1 DEF OpToRel
<1>3. QED
  BY <1>2

(* Removing one element: the others keep their order. *)
LEMMA RemoveAtProperties ==
    ASSUME NEW E, NEW s \in Seq(E), NEW i \in 1 .. Len(s)
    PROVE  /\ RemoveAt(s, i) \in Seq(E)
           /\ Len(RemoveAt(s, i)) = Len(s) - 1
           /\ \A j \in 1 .. Len(s) - 1 :
                  RemoveAt(s, i)[j] = IF j < i THEN s[j] ELSE s[j + 1]
<1> DEFINE n == Len(s)
           u == SubSeq(s, 1, i - 1)
           v == SubSeq(s, i + 1, n)
<1>0. n \in Nat /\ i \in 1 .. n /\ \A j \in 1 .. n : s[j] \in E
  BY LenProperties, ElementOfSeq
<1>r. RemoveAt(s, i) = u \o v
  BY DEF RemoveAt
<1> HIDE DEF n
<1>1. u \in Seq(E) /\ Len(u) = i - 1 /\ \A j \in 1 .. i - 1 : u[j] = s[j]
  <2>1. \A j \in 1 .. i - 1 : s[j] \in E
    BY <1>0
  <2>2. 1 \in Int /\ i - 1 \in Int
    BY <1>0
  <2>3. /\ u \in Seq(E)
        /\ Len(u) = IF 1 <= i - 1 THEN (i - 1) - 1 + 1 ELSE 0
        /\ \A j \in 1 .. (i - 1) - 1 + 1 : u[j] = s[1 + j - 1]
    BY <2>1, <2>2, SubSeqProperties
  <2> HIDE DEF u
  <2>4. \A j \in 1 .. i - 1 : 1 + j - 1 = j /\ j \in 1 .. (i - 1) - 1 + 1
    BY <1>0
  <2>5. QED
    BY <1>0, <2>3, <2>4
<1>2. v \in Seq(E) /\ Len(v) = n - i /\ \A j \in 1 .. n - i : v[j] = s[j + i]
  <2>1. \A j \in i + 1 .. n : s[j] \in E
    BY <1>0
  <2>2. i + 1 \in Int /\ n \in Int
    BY <1>0
  <2>3. /\ v \in Seq(E)
        /\ Len(v) = IF i + 1 <= n THEN n - (i + 1) + 1 ELSE 0
        /\ \A j \in 1 .. n - (i + 1) + 1 : v[j] = s[(i + 1) + j - 1]
    BY <2>1, <2>2, SubSeqProperties
  <2> HIDE DEF v
  <2>4. \A j \in 1 .. n - i : (i + 1) + j - 1 = j + i /\ j \in 1 .. n - (i + 1) + 1
    BY <1>0
  <2>5. QED
    BY <1>0, <2>3, <2>4
<1> HIDE DEF u, v
<1>3. /\ u \o v \in Seq(E)
      /\ Len(u \o v) = Len(u) + Len(v)
      /\ \A j \in 1 .. Len(u) + Len(v) :
             (u \o v)[j] = IF j <= Len(u) THEN u[j] ELSE v[j - Len(u)]
  BY <1>1, <1>2, ConcatProperties
<1> DEFINE w == u \o v
<1>4. /\ w \in Seq(E)
      /\ Len(w) = n - 1
      /\ \A j \in 1 .. n - 1 : w[j] = IF j <= i - 1 THEN u[j] ELSE v[j - (i - 1)]
  <2>1. (i - 1) + (n - i) = n - 1
    BY <1>0
  <2>2. QED
    BY <1>1, <1>2, <1>3, <2>1
<1> HIDE DEF w
<1>5. ASSUME NEW j \in 1 .. n - 1
      PROVE  w[j] = IF j < i THEN s[j] ELSE s[j + 1]
  <2>1. CASE j < i
    <3>1. j \in 1 .. i - 1 /\ j <= i - 1
      BY <1>0, <2>1
    <3>2. QED
      BY <1>1, <1>4, <2>1, <3>1
  <2>2. CASE ~ (j < i)
    <3>1. j - (i - 1) \in 1 .. n - i /\ ~ (j <= i - 1) /\ (j - (i - 1)) + i = j + 1
      BY <1>0, <2>2
    <3>2. QED
      BY <1>2, <1>4, <2>2, <3>1
  <2>3. QED
    BY <2>1, <2>2
<1>6. RemoveAt(s, i) = w
  BY <1>r DEF w
<1>7. QED
  BY <1>4, <1>5, <1>6 DEF n

(* pop_from_queue removes the entry at position 1. *)
LEMMA PopIsRemove ==
    ASSUME NEW A, NEW E, NEW q \in [A -> Seq(E)], NEW a \in A, q[a] # <<>>
    PROVE  /\ pop_from_queue(q, a) = remove_next_from_queue(q, <<a, 1>>)
           /\ 1 \in DOMAIN q[a]
           /\ Head(q[a]) = EntryAt(q, <<a, 1>>)
<1>1. /\ Tail(q[a]) \in Seq(E) /\ Len(Tail(q[a])) = Len(q[a]) - 1
      /\ \A j \in 1 .. Len(q[a]) - 1 : Tail(q[a])[j] = q[a][j + 1]
      /\ Len(q[a]) \in Nat /\ 1 \in 1 .. Len(q[a])
      /\ DOMAIN q[a] = 1 .. Len(q[a])
  BY HeadTailProperties, EmptySeq, LenProperties
<1>2. Tail(q[a]) = RemoveAt(q[a], 1)
  <2>1. /\ RemoveAt(q[a], 1) \in Seq(E)
        /\ Len(RemoveAt(q[a], 1)) = Len(q[a]) - 1
        /\ \A j \in 1 .. Len(q[a]) - 1 : RemoveAt(q[a], 1)[j] = q[a][j + 1]
    <3>1. /\ RemoveAt(q[a], 1) \in Seq(E)
          /\ Len(RemoveAt(q[a], 1)) = Len(q[a]) - 1
          /\ \A j \in 1 .. Len(q[a]) - 1 :
                 RemoveAt(q[a], 1)[j] = IF j < 1 THEN q[a][j] ELSE q[a][j + 1]
      BY <1>1, RemoveAtProperties
    <3>2. \A j \in 1 .. Len(q[a]) - 1 : ~ (j < 1)
      BY <1>1
    <3>3. QED
      BY <3>1, <3>2
  <2>2. QED
    BY <1>1, <2>1, SeqEqual
<1>3. Head(q[a]) = q[a][1]
  BY <1>1
<1>4. QED
  BY <1>1, <1>2, <1>3 DEF pop_from_queue, remove_next_from_queue, EntryAt

(* A queue holds exactly the entries of its sequence. *)
LEMMA HoldsIn ==
    ASSUME NEW A, NEW E, NEW q \in [A -> Seq(E)], NEW a \in A
    PROVE  /\ Len(q[a]) \in Nat /\ DOMAIN q[a] = 1 .. Len(q[a])
           /\ \A i \in DOMAIN q[a] : q[a][i] \in E
           /\ \A t : Holds(q, a, t) <=> \E i \in 1 .. Len(q[a]) : q[a][i] = t
           /\ \A t : Holds(q, a, t) => t \in E
           /\ q[a] # <<>> => Holds(q, a, Head(q[a])) /\ Head(q[a]) = q[a][1]
<1>1. /\ Len(q[a]) \in Nat /\ DOMAIN q[a] = 1 .. Len(q[a])
      /\ \A i \in DOMAIN q[a] : q[a][i] \in E
  BY LenProperties, ElementOfSeq
<1>2. q[a] # <<>> => 1 \in DOMAIN q[a] /\ Head(q[a]) = q[a][1]
  BY PopIsRemove DEF EntryAt
<1>3. QED
  BY <1>1, <1>2 DEF Holds

(* The entry t of a is gone; the entry t is added to a. *)
Removed(q, r, A, E, a, t) ==
    /\ r \in [A -> Seq(E)]
    /\ OnePosition(r, A)
    /\ \A b \in A \ {a} : r[b] = q[b]
    /\ \A b \in A : \A u : Holds(r, b, u) <=> Holds(q, b, u) /\ u # t
Added(q, r, A, E, a, t) ==
    /\ r \in [A -> Seq(E)]
    /\ OnePosition(r, A)
    /\ \A b \in A \ {a} : r[b] = q[b]
    /\ \A b \in A : \A u : Holds(r, b, u) <=> Holds(q, b, u) \/ (b = a /\ u = t)

(* Removing an entry takes that entry, and no other, out of its queue. *)
LEMMA RemoveFacts ==
    ASSUME NEW A, NEW E, NEW q \in [A -> Seq(E)], OnePosition(q, A),
           NEW a \in A, NEW i \in DOMAIN q[a]
    PROVE  Removed(q, remove_next_from_queue(q, <<a, i>>), A, E, a, q[a][i])
<1> DEFINE r == remove_next_from_queue(q, <<a, i>>)
           n == Len(q[a])
           from(b, k) == IF b = a /\ k >= i THEN k + 1 ELSE k
<1>1. n \in Nat /\ i \in 1 .. n /\ DOMAIN q[a] = 1 .. n
  BY HoldsIn
<1>2. /\ RemoveAt(q[a], i) \in Seq(E)
      /\ Len(RemoveAt(q[a], i)) = n - 1
      /\ \A k \in 1 .. n - 1 :
             RemoveAt(q[a], i)[k] = IF k < i THEN q[a][k] ELSE q[a][k + 1]
  BY <1>1, RemoveAtProperties
<1>3. r = [q EXCEPT ![a] = RemoveAt(q[a], i)]
  BY DEF remove_next_from_queue
<1>4. r \in [A -> Seq(E)] /\ r[a] = RemoveAt(q[a], i) /\ \A b \in A \ {a} : r[b] = q[b]
  BY <1>2, <1>3
<1>5. DOMAIN r[a] = 1 .. n - 1
  BY <1>2, <1>4, HoldsIn
<1> HIDE DEF r, n
<1>6. ASSUME NEW b \in A, NEW k \in DOMAIN r[b]
      PROVE  /\ from(b, k) \in DOMAIN q[b] /\ r[b][k] = q[b][from(b, k)]
             /\ b = a => from(b, k) # i
             /\ k \in Nat
  <2>1. CASE b # a
    BY <1>4, <2>1, HoldsIn
  <2>2. CASE b = a
    BY <1>1, <1>2, <1>4, <1>5, <2>2
  <2>3. QED
    BY <2>1, <2>2
<1>7. ASSUME NEW b \in A, NEW j \in DOMAIN q[b], b # a \/ j # i
      PROVE  \E k \in DOMAIN r[b] : r[b][k] = q[b][j]
  <2>1. CASE b # a
    BY <1>4, <2>1
  <2>2. CASE b = a /\ j < i
    <3>1. j \in 1 .. n - 1
      BY <1>1, <2>2
    <3>2. QED
      BY <1>2, <1>4, <1>5, <2>2, <3>1
  <2>3. CASE b = a /\ j > i
    <3>1. j - 1 \in 1 .. n - 1 /\ ~ (j - 1 < i) /\ (j - 1) + 1 = j
      BY <1>1, <2>3
    <3>2. r[b][j - 1] = q[b][j]
      BY <1>2, <1>4, <2>3, <3>1
    <3>3. QED
      BY <1>5, <2>3, <3>1, <3>2
  <2>4. QED
    BY <1>1, <1>7, <2>1, <2>2, <2>3
<1>8. OnePosition(r, A)
  <2> SUFFICES ASSUME NEW b \in A, NEW c \in A, NEW k \in DOMAIN r[b], NEW l \in DOMAIN r[c],
                      r[b][k] = r[c][l]
               PROVE  b = c /\ k = l
    BY DEF OnePosition
  <2>1. b = c /\ from(b, k) = from(c, l)
    BY <1>6 DEF OnePosition
  <2>2. k \in Nat /\ l \in Nat /\ i \in Nat
    BY <1>1, <1>6
  <2>3. QED
    BY <2>1, <2>2
<1>9. ASSUME NEW b \in A, NEW t
      PROVE  Holds(r, b, t) <=> Holds(q, b, t) /\ t # q[a][i]
  <2>1. ASSUME Holds(r, b, t)
        PROVE  Holds(q, b, t) /\ t # q[a][i]
    <3>1. PICK k \in DOMAIN r[b] : r[b][k] = t
      BY <2>1 DEF Holds
    <3>2. from(b, k) \in DOMAIN q[b] /\ q[b][from(b, k)] = t /\ (b = a => from(b, k) # i)
      BY <1>6, <3>1
    <3> HIDE DEF from
    <3>3. QED
      BY <3>2 DEF Holds, OnePosition
  <2>2. ASSUME Holds(q, b, t), t # q[a][i]
        PROVE  Holds(r, b, t)
    BY <1>7, <2>2 DEF Holds
  <2>3. QED
    BY <2>1, <2>2
<1>10. QED
  BY <1>4, <1>8, <1>9 DEF r, Removed

(* Pushing or prepending an entry that no queue holds adds it to one. *)
LEMMA PushFacts ==
    ASSUME NEW A, NEW E, NEW q \in [A -> Seq(E)], OnePosition(q, A),
           NEW a \in A, NEW e \in E, \A b \in A : ~ Holds(q, b, e)
    PROVE  Added(q, push_to_queue(e, q, a), A, E, a, e)
<1> DEFINE r == push_to_queue(e, q, a)
           n == Len(q[a])
<1>1. n \in Nat /\ DOMAIN q[a] = 1 .. n
  BY HoldsIn
<1>2. /\ Append(q[a], e) \in Seq(E) /\ Len(Append(q[a], e)) = n + 1
      /\ \A k \in 1 .. n : Append(q[a], e)[k] = q[a][k]
      /\ Append(q[a], e)[n + 1] = e
  BY AppendProperties
<1>3. r \in [A -> Seq(E)] /\ r[a] = Append(q[a], e) /\ \A b \in A \ {a} : r[b] = q[b]
  BY <1>2 DEF push_to_queue
<1>4. DOMAIN r[a] = 1 .. n + 1
  BY <1>2, <1>3, HoldsIn
<1> HIDE DEF r, n
<1>5. ASSUME NEW b \in A, NEW k \in DOMAIN r[b]
      PROVE  \/ k \in DOMAIN q[b] /\ r[b][k] = q[b][k]
             \/ b = a /\ k = n + 1 /\ r[b][k] = e
  <2>1. CASE b # a
    BY <1>3, <2>1
  <2>2. CASE b = a
    BY <1>1, <1>2, <1>3, <1>4, <2>2
  <2>3. QED
    BY <2>1, <2>2
<1>6. ASSUME NEW b \in A, NEW k \in DOMAIN q[b]
      PROVE  k \in DOMAIN r[b] /\ r[b][k] = q[b][k]
  <2>1. CASE b # a
    BY <1>3, <2>1
  <2>2. CASE b = a
    BY <1>1, <1>2, <1>3, <1>4, <2>2
  <2>3. QED
    BY <2>1, <2>2
<1>7. n + 1 \in DOMAIN r[a] /\ r[a][n + 1] = e
  BY <1>1, <1>2, <1>3, <1>4
<1>8. OnePosition(r, A)
  BY <1>5 DEF OnePosition, Holds
<1>9. \A b \in A : \A t : Holds(r, b, t) <=> Holds(q, b, t) \/ (b = a /\ t = e)
  BY <1>5, <1>6, <1>7 DEF Holds
<1>10. QED
  BY <1>3, <1>8, <1>9 DEF r, Added

LEMMA PrependFacts ==
    ASSUME NEW A, NEW E, NEW q \in [A -> Seq(E)], OnePosition(q, A),
           NEW a \in A, NEW e \in E, \A b \in A : ~ Holds(q, b, e)
    PROVE  Added(q, prepend_to_queue(e, q, a), A, E, a, e)
<1> DEFINE r == prepend_to_queue(e, q, a)
           n == Len(q[a])
<1>1. n \in Nat /\ DOMAIN q[a] = 1 .. n
  BY HoldsIn
<1>2. /\ Cons(e, q[a]) \in Seq(E) /\ Len(Cons(e, q[a])) = n + 1
      /\ Cons(e, q[a])[1] = e
      /\ \A k \in 2 .. n + 1 : Cons(e, q[a])[k] = q[a][k - 1]
  <2>1. /\ <<e>> \o q[a] \in Seq(E)
        /\ Len(<<e>> \o q[a]) = 1 + n
        /\ \A k \in 1 .. 1 + n :
               (<<e>> \o q[a])[k] = IF k <= 1 THEN <<e>>[k] ELSE q[a][k - 1]
    BY ConcatProperties, <<e>> \in Seq(E), Len(<<e>>) = 1
  <2>2. QED
    BY <1>1, <2>1 DEF Cons
<1>3. r \in [A -> Seq(E)] /\ r[a] = Cons(e, q[a]) /\ \A b \in A \ {a} : r[b] = q[b]
  BY <1>2 DEF prepend_to_queue
<1>4. DOMAIN r[a] = 1 .. n + 1
  BY <1>2, <1>3, HoldsIn
<1> DEFINE from(b, k) == IF b = a THEN k - 1 ELSE k
<1> HIDE DEF r, n
<1>5. ASSUME NEW b \in A, NEW k \in DOMAIN r[b]
      PROVE  /\ k \in Nat
             /\ \/ from(b, k) \in DOMAIN q[b] /\ r[b][k] = q[b][from(b, k)]
                \/ b = a /\ k = 1 /\ r[b][k] = e
  <2>1. CASE b # a
    BY <1>3, <2>1, HoldsIn
  <2>2. CASE b = a
    BY <1>1, <1>2, <1>3, <1>4, <2>2
  <2>3. QED
    BY <2>1, <2>2
<1>6. ASSUME NEW b \in A, NEW j \in DOMAIN q[b]
      PROVE  \E k \in DOMAIN r[b] : r[b][k] = q[b][j]
  <2>1. CASE b # a
    BY <1>3, <2>1
  <2>2. CASE b = a
    <3>1. j + 1 \in 2 .. n + 1 /\ (j + 1) - 1 = j /\ j + 1 \in 1 .. n + 1
      BY <1>1, <2>2
    <3>2. r[b][j + 1] = q[b][j]
      BY <1>2, <1>3, <2>2, <3>1
    <3>3. QED
      BY <1>4, <2>2, <3>1, <3>2
  <2>3. QED
    BY <2>1, <2>2
<1>7. 1 \in DOMAIN r[a] /\ r[a][1] = e
  BY <1>1, <1>2, <1>3, <1>4
<1>8. OnePosition(r, A)
  <2> SUFFICES ASSUME NEW b \in A, NEW c \in A, NEW k \in DOMAIN r[b], NEW l \in DOMAIN r[c],
                      r[b][k] = r[c][l]
               PROVE  b = c /\ k = l
    BY DEF OnePosition
  <2>1. \/ r[b][k] = e /\ r[c][l] = e /\ b = a /\ k = 1 /\ c = a /\ l = 1
        \/ /\ from(b, k) \in DOMAIN q[b] /\ r[b][k] = q[b][from(b, k)]
           /\ from(c, l) \in DOMAIN q[c] /\ r[c][l] = q[c][from(c, l)]
    <3> HIDE DEF from
    <3>1. QED
      BY <1>5 DEF Holds
  <2>2. k \in Nat /\ l \in Nat
    BY <1>5
  <2>3. QED
    BY <2>1, <2>2 DEF OnePosition
<1>9. \A b \in A : \A t : Holds(r, b, t) <=> Holds(q, b, t) \/ (b = a /\ t = e)
  <2> HIDE DEF from
  <2>1. QED
    BY <1>5, <1>6, <1>7 DEF Holds
<1>10. QED
  BY <1>3, <1>8, <1>9 DEF r, Added
-----------------------------------------------------------------------------
(***************************************************************************)
(* The moves.  After a move the entry t is in the queue c and nowhere else,*)
(* and every other entry is where it was.                                  *)
(***************************************************************************)
Moved(q, r, A, E, t, c) ==
    /\ r \in [A -> Seq(E)]
    /\ OnePosition(r, A)
    /\ SomePosition(q, A, E) => SomePosition(r, A, E)
    /\ \A b \in A : \A u : Holds(r, b, u) <=> IF u = t THEN b = c ELSE Holds(q, b, u)

LEMMA MoveFromFacts ==
    ASSUME NEW A, NEW E, NEW q \in [A -> Seq(E)], OnePosition(q, A),
           NEW a \in A, NEW i \in DOMAIN q[a], NEW c \in A
    PROVE  /\ Moved(q, MoveFrom(q, <<a, i>>, c), A, E, q[a][i], c)
           /\ Holds(q, a, q[a][i]) /\ q[a][i] \in E
           /\ \A b \in A \ {a, c} : MoveFrom(q, <<a, i>>, c)[b] = q[b]
<1> DEFINE p == remove_next_from_queue(q, <<a, i>>)
           t == q[a][i]
           r == push_to_queue(t, p, c)
<1>1. t \in E /\ Holds(q, a, t)
  BY HoldsIn DEF Holds
<1>p. p = remove_next_from_queue(q, <<a, i>>) /\ t = q[a][i]
  OBVIOUS
<1> HIDE DEF p, t
<1>2. Removed(q, p, A, E, a, t)
  BY <1>p, RemoveFacts
<1>3. MoveFrom(q, <<a, i>>, c) = r
  BY <1>p DEF MoveFrom, EntryAt
<1>4. p \in [A -> Seq(E)] /\ OnePosition(p, A) /\ \A b \in A : ~ Holds(p, b, t)
  BY <1>2 DEF Removed
<1>5. Added(p, r, A, E, c, t)
  BY <1>1, <1>4, PushFacts
<1> HIDE DEF r
<1>6. Moved(q, r, A, E, t, c) /\ \A b \in A \ {a, c} : r[b] = q[b]
  BY <1>1, <1>2, <1>5 DEF Moved, SomePosition, Removed, Added
<1>7. QED
  BY <1>1, <1>2, <1>3, <1>5, <1>6 DEF t

LEMMA MoveHeadFacts ==
    ASSUME NEW A, NEW E, NEW q \in [A -> Seq(E)], OnePosition(q, A),
           NEW a \in A, q[a] # <<>>, NEW c \in A
    PROVE  /\ Moved(q, MoveHead(q, a, c), A, E, Head(q[a]), c)
           /\ Holds(q, a, Head(q[a])) /\ Head(q[a]) \in E
           /\ \A b \in A \ {a, c} : MoveHead(q, a, c)[b] = q[b]
<1>1. /\ pop_from_queue(q, a) = remove_next_from_queue(q, <<a, 1>>)
      /\ 1 \in DOMAIN q[a]
      /\ Head(q[a]) = EntryAt(q, <<a, 1>>)
  BY PopIsRemove
<1>2. MoveHead(q, a, c) = MoveFrom(q, <<a, 1>>, c) /\ Head(q[a]) = q[a][1]
  BY <1>1 DEF MoveHead, MoveFrom, EntryAt
<1>3. QED
  BY <1>1, <1>2, MoveFromFacts

LEMMA MoveHeadToFrontFacts ==
    ASSUME NEW A, NEW E, NEW q \in [A -> Seq(E)], OnePosition(q, A),
           NEW a \in A, q[a] # <<>>, NEW c \in A
    PROVE  /\ Moved(q, MoveHeadToFront(q, a, c), A, E, Head(q[a]), c)
           /\ \A b \in A \ {a, c} : MoveHeadToFront(q, a, c)[b] = q[b]
<1> DEFINE p == remove_next_from_queue(q, <<a, 1>>)
           t == q[a][1]
           r == prepend_to_queue(t, p, c)
<1>1. /\ pop_from_queue(q, a) = p
      /\ 1 \in DOMAIN q[a]
      /\ Head(q[a]) = t
  BY PopIsRemove DEF EntryAt
<1>p. p = remove_next_from_queue(q, <<a, 1>>) /\ t = q[a][1]
  OBVIOUS
<1> HIDE DEF p, t
<1>2. Removed(q, p, A, E, a, t)
  BY <1>1, <1>p, RemoveFacts
<1>3. MoveHeadToFront(q, a, c) = r /\ t \in E
  BY <1>1, <1>p, HoldsIn DEF MoveHeadToFront
<1>4. p \in [A -> Seq(E)] /\ OnePosition(p, A) /\ \A b \in A : ~ Holds(p, b, t)
  BY <1>2 DEF Removed
<1>5. Added(p, r, A, E, c, t)
  BY <1>3, <1>4, PrependFacts
<1> HIDE DEF r
<1>6. Moved(q, r, A, E, t, c) /\ \A b \in A \ {a, c} : r[b] = q[b]
  BY <1>2, <1>3, <1>5 DEF Moved, SomePosition, Removed, Added
<1>7. QED
  BY <1>1, <1>2, <1>3, <1>5, <1>6
-----------------------------------------------------------------------------
(***************************************************************************)
(* Order.  No operation lets an entry pass another one, but for the entry  *)
(* that it adds: at the end it stands behind all, at the front before all. *)
(***************************************************************************)
LEMMA AheadFacts ==
    ASSUME NEW A, NEW E, NEW q \in [A -> Seq(E)], OnePosition(q, A),
           NEW a \in A, NEW t, NEW u, AheadIn(q, a, t, u)
    PROVE  Holds(q, a, t) /\ Holds(q, a, u) /\ ~ AheadIn(q, a, u, t)
<1>1. DOMAIN q[a] \subseteq Nat
  BY HoldsIn
<1>2. PICK i, j \in DOMAIN q[a] : i < j /\ q[a][i] = t /\ q[a][j] = u
  BY DEF AheadIn
<1>3. ASSUME NEW k \in DOMAIN q[a], NEW l \in DOMAIN q[a], k < l, q[a][k] = u, q[a][l] = t
      PROVE  FALSE
  <2>1. k = j /\ l = i
    BY <1>2, <1>3 DEF OnePosition
  <2>2. QED
    BY <1>1, <1>2, <1>3, <2>1
<1>4. QED
  BY <1>2, <1>3 DEF AheadIn, Holds

LEMMA RemoveOrder ==
    ASSUME NEW A, NEW E, NEW q \in [A -> Seq(E)], NEW a \in A, NEW i \in DOMAIN q[a],
           NEW b \in A, NEW t, NEW u,
           AheadIn(remove_next_from_queue(q, <<a, i>>), b, t, u)
    PROVE  AheadIn(q, b, t, u)
<1> DEFINE r == remove_next_from_queue(q, <<a, i>>)
           n == Len(q[a])
           from(k) == IF k < i THEN k ELSE k + 1
<1>1. n \in Nat /\ DOMAIN q[a] = 1 .. n /\ q[a] \in Seq(E) /\ i \in 1 .. Len(q[a])
  BY HoldsIn
<1>2. /\ RemoveAt(q[a], i) \in Seq(E) /\ Len(RemoveAt(q[a], i)) = n - 1
      /\ \A k \in 1 .. n - 1 : RemoveAt(q[a], i)[k] = IF k < i THEN q[a][k] ELSE q[a][k + 1]
  <2> HIDE DEF n
  <2>1. /\ RemoveAt(q[a], i) \in Seq(E) /\ Len(RemoveAt(q[a], i)) = Len(q[a]) - 1
        /\ \A k \in 1 .. Len(q[a]) - 1 :
               RemoveAt(q[a], i)[k] = IF k < i THEN q[a][k] ELSE q[a][k + 1]
    BY <1>1, RemoveAtProperties
  <2>2. QED
    BY <2>1 DEF n
<1>3. /\ r[a] = RemoveAt(q[a], i) /\ \A c \in A \ {a} : r[c] = q[c]
      /\ DOMAIN RemoveAt(q[a], i) = 1 .. n - 1
  BY <1>2, LenProperties DEF remove_next_from_queue
<1> HIDE DEF r, n
<1>4. CASE b # a
  BY <1>3, <1>4 DEF AheadIn, r
<1>5. CASE b = a
  <2>1. PICK k, l \in DOMAIN r[a] : k < l /\ r[a][k] = t /\ r[a][l] = u
    BY <1>5 DEF AheadIn, r
  <2>2. /\ from(k) \in DOMAIN q[a] /\ from(l) \in DOMAIN q[a] /\ from(k) < from(l)
        /\ q[a][from(k)] = t /\ q[a][from(l)] = u
    BY <1>1, <1>2, <1>3, <2>1
  <2>3. QED
    BY <1>5, <2>2 DEF AheadIn
<1>6. QED
  BY <1>4, <1>5

LEMMA PushOrder ==
    ASSUME NEW A, NEW E, NEW q \in [A -> Seq(E)], NEW a \in A, NEW e \in E,
           NEW b \in A, NEW t, NEW u, AheadIn(push_to_queue(e, q, a), b, t, u)
    PROVE  AheadIn(q, b, t, u) \/ (b = a /\ u = e)
<1> DEFINE r == push_to_queue(e, q, a)
           n == Len(q[a])
<1>1. n \in Nat /\ DOMAIN q[a] = 1 .. n
  BY HoldsIn
<1>2. /\ Append(q[a], e) \in Seq(E) /\ Len(Append(q[a], e)) = n + 1
      /\ \A k \in 1 .. n : Append(q[a], e)[k] = q[a][k]
      /\ Append(q[a], e)[n + 1] = e
  BY AppendProperties
<1>3. /\ r[a] = Append(q[a], e) /\ \A c \in A \ {a} : r[c] = q[c]
      /\ DOMAIN Append(q[a], e) = 1 .. n + 1
  BY <1>2, LenProperties DEF push_to_queue
<1> HIDE DEF r, n
<1>4. CASE b # a
  BY <1>3, <1>4 DEF AheadIn, r
<1>5. CASE b = a
  <2>1. PICK k, l \in DOMAIN r[a] : k < l /\ r[a][k] = t /\ r[a][l] = u
    BY <1>5 DEF AheadIn, r
  <2>2. CASE l = n + 1
    BY <1>2, <1>3, <1>5, <2>1, <2>2
  <2>3. CASE l # n + 1
    <3>1. k \in 1 .. n /\ l \in 1 .. n
      <4>1. k \in 1 .. n + 1 /\ l \in 1 .. n + 1
        BY <1>3, <2>1
      <4>2. QED
        BY <1>1, <2>1, <2>3, <4>1
    <3>2. q[a][k] = t /\ q[a][l] = u
      BY <1>2, <1>3, <2>1, <3>1
    <3>3. QED
      BY <1>1, <1>5, <2>1, <3>1, <3>2 DEF AheadIn
  <2>4. QED
    BY <2>2, <2>3
<1>6. QED
  BY <1>4, <1>5

LEMMA PrependOrder ==
    ASSUME NEW A, NEW E, NEW q \in [A -> Seq(E)], NEW a \in A, NEW e \in E,
           NEW b \in A, NEW t, NEW u, AheadIn(prepend_to_queue(e, q, a), b, t, u)
    PROVE  AheadIn(q, b, t, u) \/ (b = a /\ t = e)
<1> DEFINE r == prepend_to_queue(e, q, a)
           n == Len(q[a])
<1>1. n \in Nat /\ DOMAIN q[a] = 1 .. n
  BY HoldsIn
<1>2. /\ <<e>> \o q[a] \in Seq(E)
      /\ Len(<<e>> \o q[a]) = 1 + n
      /\ \A k \in 1 .. 1 + n :
             (<<e>> \o q[a])[k] = IF k <= 1 THEN <<e>>[k] ELSE q[a][k - 1]
  BY ConcatProperties, <<e>> \in Seq(E), Len(<<e>>) = 1
<1>3. /\ r[a] = <<e>> \o q[a] /\ \A c \in A \ {a} : r[c] = q[c]
      /\ DOMAIN (<<e>> \o q[a]) = 1 .. 1 + n
  BY <1>2, LenProperties DEF prepend_to_queue, Cons
<1> HIDE DEF r, n
<1>4. CASE b # a
  BY <1>3, <1>4 DEF AheadIn, r
<1>5. CASE b = a
  <2>1. PICK k, l \in DOMAIN r[a] : k < l /\ r[a][k] = t /\ r[a][l] = u
    BY <1>5 DEF AheadIn, r
  <2>2. CASE k = 1
    <3>1. r[a][1] = e
      BY <1>1, <1>2, <1>3
    <3>2. QED
      BY <1>5, <2>1, <2>2, <3>1
  <2>3. CASE k # 1
    <3>1. k - 1 \in 1 .. n /\ l - 1 \in 1 .. n /\ k - 1 < l - 1
      BY <1>1, <1>3, <2>1, <2>3
    <3>2. q[a][k - 1] = t /\ q[a][l - 1] = u
      BY <1>1, <1>2, <1>3, <2>1, <2>3
    <3>3. QED
      BY <1>1, <1>5, <3>1, <3>2 DEF AheadIn
  <2>4. QED
    BY <2>2, <2>3
<1>6. QED
  BY <1>4, <1>5

LEMMA MoveFromOrder ==
    ASSUME NEW A, NEW E, NEW q \in [A -> Seq(E)], OnePosition(q, A),
           NEW a \in A, NEW i \in DOMAIN q[a], NEW c \in A,
           NEW b \in A, NEW t, NEW u, AheadIn(MoveFrom(q, <<a, i>>, c), b, t, u)
    PROVE  AheadIn(q, b, t, u) \/ (b = c /\ u = q[a][i])
<1> DEFINE p == remove_next_from_queue(q, <<a, i>>)
           e == q[a][i]
<1>1. MoveFrom(q, <<a, i>>, c) = push_to_queue(e, p, c)
  BY DEF MoveFrom, EntryAt
<1>2. p \in [A -> Seq(E)] /\ e \in E
  BY RemoveFacts, HoldsIn DEF Removed
<1> HIDE DEF p, e
<1>3. AheadIn(p, b, t, u) \/ (b = c /\ u = e)
  BY <1>1, <1>2, PushOrder
<1>4. QED
  BY <1>3, RemoveOrder DEF p, e

LEMMA MoveHeadOrder ==
    ASSUME NEW A, NEW E, NEW q \in [A -> Seq(E)], OnePosition(q, A),
           NEW a \in A, q[a] # <<>>, NEW c \in A,
           NEW b \in A, NEW t, NEW u, AheadIn(MoveHead(q, a, c), b, t, u)
    PROVE  AheadIn(q, b, t, u) \/ (b = c /\ u = Head(q[a]))
<1>1. /\ pop_from_queue(q, a) = remove_next_from_queue(q, <<a, 1>>)
      /\ 1 \in DOMAIN q[a]
      /\ Head(q[a]) = EntryAt(q, <<a, 1>>)
  BY PopIsRemove
<1>2. MoveHead(q, a, c) = MoveFrom(q, <<a, 1>>, c) /\ Head(q[a]) = q[a][1]
  BY <1>1 DEF MoveHead, MoveFrom, EntryAt
<1>3. QED
  BY <1>1, <1>2, MoveFromOrder

LEMMA MoveHeadToFrontOrder ==
    ASSUME NEW A, NEW E, NEW q \in [A -> Seq(E)], OnePosition(q, A),
           NEW a \in A, q[a] # <<>>, NEW c \in A,
           NEW b \in A, NEW t, NEW u, AheadIn(MoveHeadToFront(q, a, c), b, t, u)
    PROVE  AheadIn(q, b, t, u) \/ (b = c /\ t = Head(q[a]))
<1> DEFINE p == remove_next_from_queue(q, <<a, 1>>)
           e == q[a][1]
<1>1. /\ pop_from_queue(q, a) = p
      /\ 1 \in DOMAIN q[a]
      /\ Head(q[a]) = e
  BY PopIsRemove DEF EntryAt
<1>2. MoveHeadToFront(q, a, c) = prepend_to_queue(e, p, c)
  BY <1>1 DEF MoveHeadToFront
<1>3. p \in [A -> Seq(E)] /\ e \in E
  BY <1>1, RemoveFacts, HoldsIn DEF Removed
<1> HIDE DEF p, e
<1>4. AheadIn(p, b, t, u) \/ (b = c /\ t = e)
  BY <1>2, <1>3, PrependOrder
<1>5. QED
  BY <1>1, <1>4, RemoveOrder DEF p, e
=============================================================================
