----------------------- MODULE DistributedCacheProofs -----------------------
(***************************************************************************)
(* Proofs about the distributed cache: the pointer list of LRUCache, for   *)
(* any finite set of keys, any capacity and any lifetimes, and the hash    *)
(* ring and the replica sets of ClusterManager under the health monitor of *)
(* CacheCluster, for any nodes, points, keys and number of replicas.       *)
(***************************************************************************)
EXTENDS DistributedCache, SequenceTheorems, FunctionTheorems, FiniteSetTheorems,
        WellFoundedInduction, TLAPS

-----------------------------------------------------------------------------
(* A predicate on numbers that fails somewhere fails somewhere first.       *)
LEMMA FirstOf ==
  ASSUME NEW M, M \subseteq Nat, M # {}
  PROVE  \E x \in M : \A y \in M : x <= y
<1>1. PICK x \in M : \A y \in M : ~(<<y, x>> \in OpToRel(<, Nat))
  BY NatLessThanWellFounded, WFMin
<1>2. ASSUME NEW y \in M
      PROVE  x <= y
  <2>1. x \in Nat /\ y \in Nat
    OBVIOUS
  <2>2. ~(y < x)
    <3>1. <<y, x>> \in Nat \X Nat /\ <<y, x>>[1] = y /\ <<y, x>>[2] = x
      BY <2>1
    <3>2. QED
      BY <1>1, <3>1, Zenon DEF OpToRel
  <2>3. QED
    BY <2>1, <2>2
<1>3. QED
  BY <1>2

(* What is left of a sequence without the element at one place.            *)
LEMMA RemoveAtIs ==
  ASSUME NEW A, NEW s \in Seq(A), NEW p \in 1..Len(s)
  PROVE  RemoveAt(s, p) = [i \in 1..(Len(s) - 1) |-> IF i < p THEN s[i] ELSE s[i + 1]]
<1>1. Len(s) \in Nat /\ p \in Nat /\ p >= 1 /\ p <= Len(s) /\ \A i \in 1..Len(s) : s[i] \in A
  BY ElementOfSeq, LenProperties
<1>2. PICK a : a = SubSeq(s, 1, p - 1)
  OBVIOUS
<1>3. PICK b : b = SubSeq(s, p + 1, Len(s))
  OBVIOUS
<1>4. a \in Seq(A) /\ Len(a) = p - 1 /\ \A i \in 1..(p - 1) : a[i] = s[i]
  <2>1. \A i \in 1..(p - 1) : s[i] \in A
    BY <1>1
  <2>2. 1 \in Int /\ p - 1 \in Int
    BY <1>1
  <2>3. /\ a \in Seq(A) /\ Len(a) = IF 1 <= p - 1 THEN (p - 1) - 1 + 1 ELSE 0
        /\ \A i \in 1..((p - 1) - 1 + 1) : a[i] = s[1 + i - 1]
    BY <1>2, <2>1, <2>2, SubSeqProperties
  <2>4. QED
    BY <1>1, <2>3
<1>5. b \in Seq(A) /\ Len(b) = Len(s) - p /\ \A i \in 1..(Len(s) - p) : b[i] = s[p + i]
  <2>1. \A i \in (p + 1)..Len(s) : s[i] \in A
    BY <1>1
  <2>2. p + 1 \in Int /\ Len(s) \in Int
    BY <1>1
  <2>3. /\ b \in Seq(A) /\ Len(b) = IF p + 1 <= Len(s) THEN Len(s) - (p + 1) + 1 ELSE 0
        /\ \A i \in 1..(Len(s) - (p + 1) + 1) : b[i] = s[(p + 1) + i - 1]
    BY <1>3, <2>1, <2>2, SubSeqProperties
  <2>4. QED
    BY <1>1, <2>3
<1>6. PICK c : c = a \o b
  OBVIOUS
<1>7. /\ c \in Seq(A) /\ Len(c) = Len(a) + Len(b)
      /\ \A i \in 1..(Len(a) + Len(b)) : c[i] = IF i <= Len(a) THEN a[i] ELSE b[i - Len(a)]
  BY <1>4, <1>5, <1>6, ConcatProperties
<1>8. Len(c) = Len(s) - 1 /\ c = [i \in 1..(Len(s) - 1) |-> c[i]]
  BY <1>1, <1>4, <1>5, <1>7, LenProperties
<1>9. ASSUME NEW i \in 1..(Len(s) - 1)
      PROVE  c[i] = IF i < p THEN s[i] ELSE s[i + 1]
  <2>1. CASE i < p
    <3>1. i \in 1..(p - 1) /\ i \in 1..(Len(a) + Len(b)) /\ i <= Len(a)
      BY <1>1, <1>4, <1>5, <2>1
    <3>2. QED
      BY <1>4, <1>7, <2>1, <3>1
  <2>2. CASE ~(i < p)
    <3>1. /\ i - Len(a) \in 1..(Len(s) - p) /\ p + (i - Len(a)) = i + 1
          /\ i \in 1..(Len(a) + Len(b)) /\ ~(i <= Len(a))
      BY <1>1, <1>4, <1>5, <2>2
    <3>2. QED
      BY <1>5, <1>7, <2>2, <3>1
  <2>3. QED
    BY <2>1, <2>2
<1>10. c = RemoveAt(s, p)
  BY <1>2, <1>3, <1>6 DEF RemoveAt
<1>11. QED
  BY <1>8, <1>9, <1>10

-----------------------------------------------------------------------------
(* The LRU list.                                                            *)
Lists == [head : Link, tail : Link, next : [Key -> Link], prev : [Key -> Link]]

(* o names the n nodes of S from the head to the tail, and Null before the  *)
(* first and after the last; every pointer of l is then a neighbour in o.   *)
Enumerates(o, n, S) ==
    /\ n \in Nat /\ o \in [Nat -> Link]
    /\ \A i \in Nat : o[i] # Null <=> i \in 1..n
    /\ \A i, j \in 1..n : o[i] = o[j] => i = j
    /\ S = {o[i] : i \in 1..n}

Links(o, n, l) ==
    /\ l.head = o[1] /\ l.tail = o[n]
    /\ \A i \in 1..n : l.next[o[i]] = o[i + 1] /\ l.prev[o[i]] = o[i - 1]

Walk(o, n, S, l) == Enumerates(o, n, S) /\ Links(o, n, l)

IInv == TypeOK /\ \E o \in [Nat -> Link], n \in Nat : Walk(o, n, cache, list)

Dropped(o, p) == [i \in Nat |-> IF i < p THEN o[i] ELSE o[i + 1]]
Pushed(o, k) == [i \in Nat |-> IF i = 0 THEN Null ELSE IF i = 1 THEN k ELSE o[i - 1]]

-----------------------------------------------------------------------------
LEMMA EnumeratesKeys ==
  ASSUME NEW o, NEW n, NEW S, Enumerates(o, n, S)
  PROVE  /\ \A i \in 1..n : o[i] \in Key /\ o[i] \in S
         /\ o[0] = Null /\ \A i \in Nat : i > n => o[i] = Null
         /\ S \subseteq Key
BY CacheAssumption DEF Enumerates, Link

(* Removing the node at position p from a list leaves one that skips it.    *)
LEMMA DroppedEnumerates ==
  ASSUME NEW o, NEW n, NEW S, Enumerates(o, n, S), NEW p \in 1..n
  PROVE  Enumerates(Dropped(o, p), n - 1, S \ {o[p]})
<1> DEFINE d == Dropped(o, p)
<1>1. n \in Nat /\ n - 1 \in Nat /\ p \in Nat /\ p >= 1 /\ p <= n
  BY DEF Enumerates
<1>2. d \in [Nat -> Link] /\ \A i \in Nat : d[i] = IF i < p THEN o[i] ELSE o[i + 1]
  BY <1>1 DEF Dropped, Enumerates
<1>3. \A i \in Nat : d[i] # Null <=> i \in 1..(n - 1)
  BY <1>1, <1>2 DEF Enumerates
<1>4. \A i, j \in 1..(n - 1) : d[i] = d[j] => i = j
  <2> SUFFICES ASSUME NEW i \in 1..(n - 1), NEW j \in 1..(n - 1), d[i] = d[j]
               PROVE  i = j
    OBVIOUS
  <2> DEFINE at(x) == IF x < p THEN x ELSE x + 1
  <2>1. at(i) \in 1..n /\ at(j) \in 1..n /\ d[i] = o[at(i)] /\ d[j] = o[at(j)]
    BY <1>1, <1>2
  <2>2. at(i) = at(j)
    BY <2>1 DEF Enumerates
  <2>3. QED
    BY <2>2
<1>5. S \ {o[p]} = {d[i] : i \in 1..(n - 1)}
  <2>1. ASSUME NEW i \in 1..(n - 1)
        PROVE  d[i] \in S \ {o[p]}
    <3> DEFINE at == IF i < p THEN i ELSE i + 1
    <3>1. at \in 1..n /\ at # p /\ d[i] = o[at]
      BY <1>1, <1>2
    <3>2. QED
      BY <3>1 DEF Enumerates
  <2>2. ASSUME NEW k \in S, k # o[p]
        PROVE  \E i \in 1..(n - 1) : k = d[i]
    <3>1. PICK j \in 1..n : k = o[j]
      BY DEF Enumerates
    <3>2. CASE j < p
      BY <1>1, <1>2, <3>1, <3>2
    <3>3. CASE j >= p
      <4>1. j # p /\ j - 1 \in 1..(n - 1) /\ ~(j - 1 < p) /\ (j - 1) + 1 = j
        BY <1>1, <2>2, <3>1, <3>3
      <4>2. d[j - 1] = o[j]
        BY <1>2, <4>1
      <4>3. QED
        BY <3>1, <4>1, <4>2
    <3>4. QED
      BY <1>1, <3>2, <3>3
  <2>3. QED
    BY <2>1, <2>2
<1>6. QED
  BY <1>1, <1>2, <1>3, <1>4, <1>5 DEF Enumerates

LEMMA RemoveNodeWalk ==
  ASSUME NEW l \in Lists, NEW o, NEW n, NEW S, Walk(o, n, S, l), NEW p \in 1..n
  PROVE  /\ removeNode(l, o[p]) \in Lists
         /\ Walk(Dropped(o, p), n - 1, S \ {o[p]}, removeNode(l, o[p]))
<1> DEFINE d == Dropped(o, p)
           k == o[p]
           r == removeNode(l, k)
<1>1. /\ n \in Nat /\ n - 1 \in Nat /\ p \in Nat /\ p >= 1 /\ p <= n
      /\ o \in [Nat -> Link] /\ \A i \in Nat : o[i] # Null <=> i \in 1..n
      /\ \A i, j \in 1..n : o[i] = o[j] => i = j
  BY DEF Walk, Enumerates
<1>2. \A i \in Nat : d[i] = IF i < p THEN o[i] ELSE o[i + 1]
  BY <1>1 DEF Dropped
<1>3. /\ \A i \in 1..n : o[i] \in Key
      /\ o[0] = Null /\ \A i \in Nat : i > n => o[i] = Null
  BY EnumeratesKeys DEF Walk
<1>4. /\ l.head = o[1] /\ l.tail = o[n]
      /\ \A i \in 1..n : l.next[o[i]] = o[i + 1] /\ l.prev[o[i]] = o[i - 1]
  BY DEF Walk, Links
<1>5. l.next[k] = o[p + 1] /\ l.prev[k] = o[p - 1] /\ k \in Key
  BY <1>3, <1>4
<1>6. l.next \in [Key -> Link] /\ l.prev \in [Key -> Link] /\ l.head \in Link /\ l.tail \in Link
  BY DEF Lists
<1>7. /\ r.head = IF o[p - 1] = Null THEN o[p + 1] ELSE o[1]
      /\ r.tail = IF o[p + 1] = Null THEN o[p - 1] ELSE o[n]
      /\ r.next = [x \in Key |-> IF x = o[p - 1] THEN o[p + 1] ELSE l.next[x]]
      /\ r.prev = [x \in Key |-> IF x = o[p + 1] THEN o[p - 1] ELSE l.prev[x]]
      /\ r = [head |-> r.head, tail |-> r.tail, next |-> r.next, prev |-> r.prev]
  BY <1>4, <1>5 DEF removeNode, NewTail
<1>8. o[p - 1] \in Link /\ o[p + 1] \in Link /\ o[1] \in Link /\ o[n] \in Link
  BY <1>1
<1>9. r \in Lists
  <2>1. r.head \in Link /\ r.tail \in Link
    BY <1>7, <1>8
  <2>2. r.next \in [Key -> Link] /\ r.prev \in [Key -> Link]
    BY <1>6, <1>7, <1>8
  <2>3. QED
    BY <1>7, <2>1, <2>2 DEF Lists
<1>10. Enumerates(d, n - 1, S \ {k})
  BY DroppedEnumerates DEF Walk
<1>11. r.head = d[1]
  BY <1>1, <1>2, <1>7
<1>12. r.tail = d[n - 1]
  <2>1. CASE p = n
    <3>1. o[p + 1] = Null /\ n - 1 < p /\ n - 1 \in Nat
      BY <1>1, <1>3, <2>1
    <3>2. QED
      BY <1>2, <1>7, <2>1, <3>1
  <2>2. CASE p # n
    <3>1. o[p + 1] # Null /\ ~(n - 1 < p) /\ (n - 1) + 1 = n
      BY <1>1, <2>2
    <3>2. QED
      BY <1>1, <1>2, <1>7, <3>1
  <2>3. QED
    BY <2>1, <2>2
<1>13. ASSUME NEW i \in 1..(n - 1)
       PROVE  r.next[d[i]] = d[i + 1] /\ r.prev[d[i]] = d[i - 1]
  <2> DEFINE at == IF i < p THEN i ELSE i + 1
  <2>1. i \in Nat /\ i + 1 \in Nat /\ i - 1 \in Nat /\ at \in 1..n /\ at # p /\ d[i] = o[at]
    BY <1>1, <1>2
  <2>2. o[at] \in Key /\ l.next[o[at]] = o[at + 1] /\ l.prev[o[at]] = o[at - 1]
    BY <1>3, <1>4, <2>1
  <2>3. o[at] = o[p - 1] <=> at = p - 1
    <3>1. CASE p = 1
      BY <1>1, <1>3, <2>1, <2>2, <3>1, CacheAssumption
    <3>2. CASE p # 1
      <4>1. p - 1 \in 1..n
        BY <1>1, <3>2
      <4>2. QED
        BY <1>1, <2>1, <4>1
    <3>3. QED
      BY <3>1, <3>2
  <2>4. o[at] = o[p + 1] <=> at = p + 1
    <3>1. CASE p = n
      BY <1>1, <1>3, <2>1, <2>2, <3>1, CacheAssumption
    <3>2. CASE p # n
      <4>1. p + 1 \in 1..n
        BY <1>1, <3>2
      <4>2. QED
        BY <1>1, <2>1, <4>1
    <3>3. QED
      BY <3>1, <3>2
  <2>5. r.next[o[at]] = IF at = p - 1 THEN o[p + 1] ELSE o[at + 1]
    BY <1>7, <2>2, <2>3
  <2>6. r.prev[o[at]] = IF at = p + 1 THEN o[p - 1] ELSE o[at - 1]
    BY <1>7, <2>2, <2>4
  <2>7. d[i + 1] = IF at = p - 1 THEN o[p + 1] ELSE o[at + 1]
    <3>1. CASE i + 1 < p
      BY <1>1, <1>2, <2>1, <3>1
    <3>2. CASE i + 1 = p
      BY <1>1, <1>2, <2>1, <3>2
    <3>3. CASE i + 1 > p
      BY <1>1, <1>2, <2>1, <3>3
    <3>4. QED
      BY <1>1, <3>1, <3>2, <3>3
  <2>8. d[i - 1] = IF at = p + 1 THEN o[p - 1] ELSE o[at - 1]
    <3>1. CASE i < p
      BY <1>1, <1>2, <2>1, <3>1
    <3>2. CASE i = p
      BY <1>1, <1>2, <2>1, <3>2
    <3>3. CASE i > p
      <4>1. ~(i - 1 < p) /\ (i - 1) + 1 = i /\ at = i + 1 /\ at # p + 1 /\ at - 1 = i
        BY <1>1, <2>1, <3>3
      <4>2. QED
        BY <1>2, <2>1, <4>1
    <3>4. QED
      BY <1>1, <3>1, <3>2, <3>3
  <2>9. QED
    BY <2>1, <2>5, <2>6, <2>7, <2>8
<1>14. QED
  BY <1>9, <1>10, <1>11, <1>12, <1>13 DEF Walk, Links

LEMMA ForgetWalk ==
  ASSUME NEW l \in Lists, NEW o, NEW n, NEW S, Walk(o, n, S, l), NEW k \in Key, k \notin S
  PROVE  Forget(l, k) \in Lists /\ Walk(o, n, S, Forget(l, k))
<1> DEFINE f == Forget(l, k)
<1>1. l.next \in [Key -> Link] /\ l.prev \in [Key -> Link] /\ Null \in Link
  BY DEF Lists, Link
<1>2. /\ f.head = l.head /\ f.tail = l.tail
      /\ f.next = [l.next EXCEPT ![k] = Null] /\ f.prev = [l.prev EXCEPT ![k] = Null]
  BY DEF Forget, Lists
<1>3. f \in Lists
  BY <1>1, <1>2 DEF Forget, Lists
<1>4. \A i \in 1..n : o[i] \in Key /\ o[i] # k
  BY EnumeratesKeys DEF Walk
<1>5. \A i \in 1..n : f.next[o[i]] = l.next[o[i]] /\ f.prev[o[i]] = l.prev[o[i]]
  BY <1>1, <1>2, <1>4
<1>6. QED
  BY <1>2, <1>3, <1>5 DEF Walk, Links

(* A node added at the head comes first, and the others follow it.          *)
LEMMA PushedEnumerates ==
  ASSUME NEW o, NEW n, NEW S, Enumerates(o, n, S), NEW k \in Key, k \notin S
  PROVE  Enumerates(Pushed(o, k), n + 1, S \cup {k})
<1> DEFINE q == Pushed(o, k)
<1>1. n \in Nat /\ n + 1 \in Nat /\ k # Null /\ k \in Link
  BY CacheAssumption DEF Enumerates, Link
<1>2. /\ q \in [Nat -> Link] /\ q[0] = Null /\ q[1] = k
      /\ \A i \in Nat : i > 1 => q[i] = o[i - 1]
  BY <1>1 DEF Pushed, Enumerates, Link
<1>3. \A i \in 1..n : o[i] \in S /\ o[i] # k
  BY EnumeratesKeys
<1>4. \A i \in Nat : q[i] # Null <=> i \in 1..(n + 1)
  <2> TAKE i \in Nat
  <2>1. CASE i = 0 \/ i = 1
    BY <1>1, <1>2, <2>1
  <2>2. CASE i > 1
    <3>1. i - 1 \in Nat /\ (i - 1 \in 1..n <=> i \in 1..(n + 1))
      BY <1>1, <2>2
    <3>2. QED
      BY <1>2, <2>2, <3>1 DEF Enumerates
  <2>3. QED
    BY <2>1, <2>2
<1>5. \A i \in 2..(n + 1) : i - 1 \in 1..n /\ q[i] = o[i - 1]
  BY <1>1, <1>2
<1>6. \A i, j \in 1..(n + 1) : q[i] = q[j] => i = j
  <2> SUFFICES ASSUME NEW i \in 1..(n + 1), NEW j \in 1..(n + 1), q[i] = q[j]
               PROVE  i = j
    OBVIOUS
  <2>1. CASE i = 1 \/ j = 1
    <3>1. i = 1 \/ i \in 2..(n + 1)
      BY <1>1
    <3>2. j = 1 \/ j \in 2..(n + 1)
      BY <1>1
    <3>3. QED
      BY <1>2, <1>3, <1>5, <2>1, <3>1, <3>2
  <2>2. CASE i # 1 /\ j # 1
    <3>1. i \in 2..(n + 1) /\ j \in 2..(n + 1)
      BY <1>1, <2>2
    <3>2. i - 1 = j - 1
      BY <1>5, <3>1 DEF Enumerates
    <3>3. QED
      BY <1>1, <3>2
  <2>3. QED
    BY <2>1, <2>2
<1>7. S \cup {k} = {q[i] : i \in 1..(n + 1)}
  <2>1. ASSUME NEW i \in 1..(n + 1)
        PROVE  q[i] \in S \cup {k}
    <3>1. i = 1 \/ i \in 2..(n + 1)
      BY <1>1
    <3>2. QED
      BY <1>2, <1>3, <1>5, <3>1
  <2>2. ASSUME NEW x \in S
        PROVE  \E i \in 1..(n + 1) : x = q[i]
    <3>1. PICK j \in 1..n : x = o[j]
      BY DEF Enumerates
    <3>2. j + 1 \in 2..(n + 1) /\ j + 1 \in 1..(n + 1) /\ (j + 1) - 1 = j
      BY <1>1
    <3>3. QED
      BY <1>5, <3>1, <3>2
  <2>3. k = q[1] /\ 1 \in 1..(n + 1)
    BY <1>1, <1>2
  <2>4. QED
    BY <2>1, <2>2, <2>3
<1>8. QED
  BY <1>1, <1>2, <1>4, <1>6, <1>7 DEF Enumerates

LEMMA AddNodeWalk ==
  ASSUME NEW l \in Lists, NEW o, NEW n, NEW S, Walk(o, n, S, l), NEW k \in Key, k \notin S
  PROVE  /\ addNodeToHead(l, k) \in Lists
         /\ Walk(Pushed(o, k), n + 1, S \cup {k}, addNodeToHead(l, k))
<1> DEFINE q == Pushed(o, k)
           a == addNodeToHead(l, k)
<1>1. /\ n \in Nat /\ n + 1 \in Nat /\ o \in [Nat -> Link]
      /\ \A i \in Nat : o[i] # Null <=> i \in 1..n
      /\ \A i, j \in 1..n : o[i] = o[j] => i = j
  BY DEF Walk, Enumerates
<1>2. q[0] = Null /\ q[1] = k /\ \A i \in Nat : i > 1 => q[i] = o[i - 1]
  BY <1>1 DEF Pushed
<1>3. /\ \A i \in 1..n : o[i] \in Key /\ o[i] # k
      /\ o[0] = Null /\ \A i \in Nat : i > n => o[i] = Null
  BY EnumeratesKeys DEF Walk
<1>4. /\ l.head = o[1] /\ l.tail = o[n]
      /\ \A i \in 1..n : l.next[o[i]] = o[i + 1] /\ l.prev[o[i]] = o[i - 1]
  BY DEF Walk, Links
<1>5. /\ l.next \in [Key -> Link] /\ l.prev \in [Key -> Link]
      /\ l.head \in Link /\ l.tail \in Link /\ k \in Link /\ Null \in Link
  BY DEF Lists, Link
<1>6. /\ a.head = k /\ a.tail = IF o[n] = Null THEN k ELSE o[n]
      /\ a.next = [l.next EXCEPT ![k] = o[1]]
      /\ a.prev = [x \in Key |-> IF x = k THEN Null ELSE IF x = o[1] THEN k ELSE l.prev[x]]
      /\ a = [head |-> a.head, tail |-> a.tail, next |-> a.next, prev |-> a.prev]
  BY <1>4 DEF addNodeToHead
<1>7. a \in Lists
  <2>1. o[1] \in Link /\ o[n] \in Link
    BY <1>1
  <2>2. a.head \in Link /\ a.tail \in Link
    BY <1>5, <1>6, <2>1
  <2>3. a.next \in [Key -> Link]
    BY <1>5, <1>6, <2>1
  <2>4. a.prev \in [Key -> Link]
    BY <1>5, <1>6
  <2>5. QED
    BY <1>6, <2>2, <2>3, <2>4 DEF Lists
<1>8. Enumerates(q, n + 1, S \cup {k})
  BY PushedEnumerates DEF Walk
<1>9. a.tail = q[n + 1]
  <2>1. CASE n = 0
    BY <1>2, <1>3, <1>6, <2>1
  <2>2. CASE n # 0
    <3>1. o[n] # Null /\ n + 1 > 1 /\ (n + 1) - 1 = n
      BY <1>1, <2>2
    <3>2. QED
      BY <1>1, <1>2, <1>6, <3>1
  <2>3. QED
    BY <2>1, <2>2
<1>10. ASSUME NEW i \in 1..(n + 1)
       PROVE  a.next[q[i]] = q[i + 1] /\ a.prev[q[i]] = q[i - 1]
  <2>1. CASE i = 1
    <3>1. q[i] = k /\ q[i + 1] = o[1] /\ q[i - 1] = Null
      BY <1>2, <2>1
    <3>2. QED
      BY <1>5, <1>6, <3>1
  <2>2. CASE i # 1
    <3>1. i - 1 \in 1..n /\ q[i] = o[i - 1] /\ q[i + 1] = o[i]
      BY <1>1, <1>2, <2>2
    <3>2. o[i - 1] \in Key /\ o[i - 1] # k
      BY <1>3, <3>1
    <3>3. l.next[o[i - 1]] = o[i]
      <4>1. (i - 1) + 1 = i
        BY <1>1
      <4>2. QED
        BY <1>4, <3>1, <4>1
    <3>4. a.next[q[i]] = q[i + 1]
      BY <1>5, <1>6, <3>1, <3>2, <3>3
    <3>5. l.prev[o[i - 1]] = o[(i - 1) - 1]
      BY <1>4, <3>1
    <3>6. CASE i = 2
      BY <1>2, <1>6, <3>1, <3>2, <3>4, <3>6
    <3>7. CASE i # 2
      <4>1. /\ 1 \in 1..n /\ i - 1 # 1 /\ i - 1 \in Nat
            /\ i - 1 > 1
        BY <1>1, <2>2, <3>7
      <4>2. o[i - 1] # o[1]
        BY <1>1, <3>1, <4>1
      <4>3. q[i - 1] = o[(i - 1) - 1]
        BY <1>2, <4>1
      <4>4. QED
        BY <1>6, <3>1, <3>2, <3>4, <3>5, <4>2, <4>3
    <3>8. QED
      BY <3>6, <3>7
  <2>3. QED
    BY <2>1, <2>2
<1>11. a.head = q[1]
  BY <1>2, <1>6
<1>12. QED
  BY <1>7, <1>8, <1>9, <1>10, <1>11 DEF Walk, Links

(* moveToHead takes a node out and puts it in front.                        *)
LEMMA MoveToHeadWalk ==
  ASSUME NEW l \in Lists, NEW o, NEW n, NEW S, Walk(o, n, S, l), NEW p \in 1..n
  PROVE  /\ moveToHead(l, o[p]) \in Lists
         /\ Walk(Pushed(Dropped(o, p), o[p]), n, S, moveToHead(l, o[p]))
<1>1. n \in Nat /\ (n - 1) + 1 = n /\ o[p] \in Key /\ o[p] \in S
  <2>1. n \in Nat /\ (n - 1) + 1 = n
    BY DEF Walk, Enumerates
  <2>2. QED
    BY <2>1, EnumeratesKeys DEF Walk
<1>2. /\ removeNode(l, o[p]) \in Lists
      /\ Walk(Dropped(o, p), n - 1, S \ {o[p]}, removeNode(l, o[p]))
  BY RemoveNodeWalk
<1>3. /\ moveToHead(l, o[p]) \in Lists
      /\ Walk(Pushed(Dropped(o, p), o[p]), (n - 1) + 1, (S \ {o[p]}) \cup {o[p]},
              moveToHead(l, o[p]))
  BY <1>1, <1>2, AddNodeWalk DEF moveToHead
<1>4. (S \ {o[p]}) \cup {o[p]} = S
  BY <1>1
<1>5. QED
  BY <1>1, <1>3, <1>4

-----------------------------------------------------------------------------
(* Nth is the enumeration the pointers stand for: that one satisfies Nth's  *)
(* recursion, and no two functions do.                                      *)
LEMMA NthWalks ==
  ASSUME NEW o, NEW n, Walk(o, n, cache, list)
  PROVE  Nth = o
<1> DEFINE step(f) == [i \in Nat |-> IF i = 0 THEN Null
                                     ELSE IF i = 1 THEN list.head
                                     ELSE IF f[i - 1] \in Key THEN list.next[f[i - 1]]
                                     ELSE Null]
<1>1. /\ n \in Nat /\ o \in [Nat -> Link]
      /\ \A i \in Nat : o[i] # Null <=> i \in 1..n
      /\ list.head = o[1] /\ \A i \in 1..n : list.next[o[i]] = o[i + 1]
      /\ Null \notin Key
  BY CacheAssumption DEF Walk, Enumerates, Links
<1>2. \A i \in Nat : o[i] = IF i = 0 THEN Null
                            ELSE IF i = 1 THEN list.head
                            ELSE IF o[i - 1] \in Key THEN list.next[o[i - 1]] ELSE Null
  <2> TAKE i \in Nat
  <2>1. CASE i = 0 \/ i = 1
    BY <1>1, <2>1
  <2>2. CASE i > 1 /\ i - 1 \in 1..n
    <3>1. o[i - 1] \in Key /\ (i - 1) + 1 = i
      BY <1>1, <2>2 DEF Link
    <3>2. QED
      BY <1>1, <2>2, <3>1
  <2>3. CASE i > 1 /\ i - 1 \notin 1..n
    <3>1. o[i - 1] = Null /\ o[i] = Null
      BY <1>1, <2>3
    <3>2. QED
      BY <1>1, <2>3, <3>1
  <2>4. QED
    BY <2>1, <2>2, <2>3
<1>3. o = step(o)
  BY <1>1, <1>2
<1>4. Nth = step(Nth)
  BY <1>3, Zenon DEF Nth
<1>5. ASSUME Nth # o
      PROVE  FALSE
  <2> DEFINE M == {i \in Nat : Nth[i] # o[i]}
  <2>1. M # {}
    <3>1. Nth = [i \in Nat |-> Nth[i]] /\ o = [i \in Nat |-> o[i]]
      BY <1>1, <1>4
    <3>2. ASSUME \A i \in Nat : Nth[i] = o[i]
          PROVE  FALSE
      BY <1>5, <3>1, <3>2
    <3>3. QED
      BY <3>2
  <2>2. PICK x \in M : \A y \in M : x <= y
    BY <2>1, FirstOf
  <2>3. x \in Nat /\ Nth[x] # o[x]
    OBVIOUS
  <2>4. x # 0 => x - 1 \in Nat /\ x - 1 \notin M
    BY <2>2
  <2>5. x # 0 => Nth[x - 1] = o[x - 1]
    BY <2>4
  <2>6. Nth[x] = IF x = 0 THEN Null
                 ELSE IF x = 1 THEN list.head
                 ELSE IF Nth[x - 1] \in Key THEN list.next[Nth[x - 1]] ELSE Null
    BY <1>4, <2>3
  <2>7. QED
    BY <1>2, <2>3, <2>5, <2>6
<1>6. QED
  BY <1>5

LEMMA OrderWalks ==
  \A o, n : Walk(o, n, cache, list) =>
               Cardinality(cache) = n /\ Order = [i \in 1..n |-> o[i]]
<1> SUFFICES ASSUME NEW o, NEW n, Walk(o, n, cache, list)
             PROVE  Cardinality(cache) = n /\ Order = [i \in 1..n |-> o[i]]
  OBVIOUS
<1> DEFINE f == [i \in 1..n |-> o[i]]
<1>1. n \in Nat /\ cache = {o[i] : i \in 1..n} /\ \A i, j \in 1..n : o[i] = o[j] => i = j
  BY DEF Walk, Enumerates
<1>2. f \in Bijection(1..n, cache)
  <2>1. f \in [1..n -> cache] /\ \A k \in cache : \E i \in 1..n : f[i] = k
    BY <1>1
  <2>2. \A i, j \in 1..n : f[i] = f[j] => i = j
    BY <1>1
  <2>3. QED
    BY <2>1, <2>2, Fun_IsBij
<1>3. Cardinality(cache) = n
  BY <1>1, <1>2, FS_CountingElements DEF ExistsBijection
<1>4. Nth = o
  BY NthWalks
<1>5. QED
  BY <1>3, <1>4 DEF Order

-----------------------------------------------------------------------------
(* What each action that moves nodes does to the walk along the list.       *)
LEMMA NodeAt ==
  ASSUME NEW o, NEW n, Walk(o, n, cache, list), NEW k \in cache
  PROVE  \E p \in 1..n : k = o[p]
BY DEF Walk, Enumerates

LEMMA TypedList ==
  ASSUME TypeOK
  PROVE  list \in Lists
BY DEF TypeOK, Lists

LEMMA TouchWalks ==
  ASSUME TypeOK, NEW o, NEW n, Walk(o, n, cache, list), NEW p \in 1..n,
         list' = moveToHead(list, o[p]), cache' = cache
  PROVE  list' \in Lists /\ Walk(Pushed(Dropped(o, p), o[p]), n, cache', list')
<1>1. list \in Lists
  BY TypedList
<1>2. QED
  BY <1>1, MoveToHeadWalk

LEMMA ExpireWalks ==
  ASSUME TypeOK, NEW o, NEW n, Walk(o, n, cache, list), NEW p \in 1..n, Expire(o[p])
  PROVE  list' \in Lists /\ Walk(Dropped(o, p), n - 1, cache', list')
<1>1. list \in Lists
  BY TypedList
<1>2. /\ removeNode(list, o[p]) \in Lists
      /\ Walk(Dropped(o, p), n - 1, cache \ {o[p]}, removeNode(list, o[p]))
  BY <1>1, RemoveNodeWalk
<1>3. o[p] \in Key /\ o[p] \notin cache \ {o[p]}
  BY EnumeratesKeys DEF Walk
<1>4. QED
  BY <1>2, <1>3, ForgetWalk DEF Expire

LEMMA InsertWalks ==
  ASSUME TypeOK, NEW o, NEW n, Walk(o, n, cache, list),
         NEW k \in Key, NEW v \in Value, NEW ttl \in TTLs, Insert(k, v, ttl)
  PROVE  /\ list' \in Lists
         /\ n # 0 /\ n >= Capacity =>
               /\ Evicted = {o[n]} /\ n \in 1..n /\ k # o[n]
               /\ Walk(Pushed(Dropped(o, n), k), n, cache', list')
         /\ ~(n # 0 /\ n >= Capacity) =>
               /\ Evicted = {}
               /\ Walk(Pushed(o, k), n + 1, cache', list')
<1>1. list \in Lists
  BY TypedList
<1>2. Cardinality(cache) = n
  BY OrderWalks
<1>3. n \in Nat /\ list.tail = o[n] /\ (o[n] = Null <=> n = 0)
  BY DEF Walk, Enumerates, Links
<1>4. k \notin cache
  BY DEF Insert
<1>5. CASE n # 0 /\ n >= Capacity
  <2>1. Evicted = {o[n]} /\ n \in 1..n /\ list.tail = o[n]
    BY <1>2, <1>3, <1>5 DEF Evicted, Full
  <2>2. /\ removeNode(list, o[n]) \in Lists
        /\ Walk(Dropped(o, n), n - 1, cache \ {o[n]}, removeNode(list, o[n]))
    BY <1>1, <2>1, RemoveNodeWalk
  <2>3. o[n] \in Key /\ o[n] \in cache /\ o[n] \notin cache \ {o[n]}
    BY <2>1, EnumeratesKeys DEF Walk
  <2>4. /\ Forget(removeNode(list, o[n]), o[n]) \in Lists
        /\ Walk(Dropped(o, n), n - 1, cache \ {o[n]}, Forget(removeNode(list, o[n]), o[n]))
    BY <2>2, <2>3, ForgetWalk
  <2>5. list' = addNodeToHead(Forget(removeNode(list, o[n]), o[n]), k)
    BY <2>1 DEF Insert
  <2>6. cache' = (cache \ {o[n]}) \cup {k} /\ k \notin cache \ {o[n]}
    BY <1>4, <2>1 DEF Insert
  <2>7. list' \in Lists /\ Walk(Pushed(Dropped(o, n), k), (n - 1) + 1, cache', list')
    BY <2>4, <2>5, <2>6, AddNodeWalk
  <2>8. (n - 1) + 1 = n /\ k # o[n]
    BY <1>3, <1>4, <2>3
  <2>9. QED
    BY <1>5, <2>1, <2>7, <2>8
<1>6. CASE ~(n # 0 /\ n >= Capacity)
  <2>1. Evicted = {}
    BY <1>2, <1>3, <1>6 DEF Evicted, Full
  <2>2. list' = addNodeToHead(list, k) /\ cache' = cache \cup {k}
    BY <2>1 DEF Insert
  <2>3. list' \in Lists /\ Walk(Pushed(o, k), n + 1, cache', list')
    BY <1>1, <1>4, <2>2, AddNodeWalk
  <2>4. QED
    BY <1>6, <2>1, <2>3
<1>7. QED
  BY <1>5, <1>6

-----------------------------------------------------------------------------
LEMMA IInvInit ==
  ASSUME Init
  PROVE  IInv
<1>1. TypeOK
  BY DEF Init, TypeOK, Link
<1>2. Walk([i \in Nat |-> Null], 0, cache, list)
  <2>1. Enumerates([i \in Nat |-> Null], 0, cache)
    BY DEF Init, Enumerates, Link
  <2>2. QED
    BY <2>1 DEF Init, Walk, Links
<1>3. [i \in Nat |-> Null] \in [Nat -> Link]
  BY DEF Link
<1>4. QED
  BY <1>1, <1>2, <1>3 DEF IInv

LEMMA TypeOKNext ==
  ASSUME TypeOK, [Next]_vars, list' \in Lists
  PROVE  TypeOK'
<1>1. list' \in [head : Link, tail : Link, next : [Key -> Link], prev : [Key -> Link]]
  BY DEF Lists
<1>2. CASE UNCHANGED vars
  BY <1>1, <1>2 DEF TypeOK, vars
<1>3. CASE Tick
  <2>1. \A k \in Key : Aged(k) \in Nat \cup {-1}
    BY DEF TypeOK, Aged
  <2>2. QED
    BY <1>1, <1>3, <2>1 DEF TypeOK, Tick
<1>4. ASSUME NEW k \in Key
      PROVE  /\ Miss(k) => TypeOK'
             /\ Expire(k) => TypeOK'
             /\ Hit(k) => TypeOK'
  <2>1. Miss(k) => TypeOK'
    BY <1>1 DEF TypeOK, Miss
  <2>2. Expire(k) => TypeOK'
    BY <1>1 DEF TypeOK, Expire
  <2>3. Hit(k) => TypeOK'
    BY <1>1 DEF TypeOK, Hit
  <2>4. QED
    BY <2>1, <2>2, <2>3
<1>5. ASSUME NEW k \in Key, NEW v \in Value, NEW ttl \in TTLs
      PROVE  (Overwrite(k, v, ttl) => TypeOK') /\ (Insert(k, v, ttl) => TypeOK')
  <2>1. ttl \in Nat
    BY CacheAssumption
  <2>2. Overwrite(k, v, ttl) => TypeOK'
    BY <1>1, <2>1 DEF TypeOK, Overwrite
  <2>3. ASSUME Insert(k, v, ttl)
        PROVE  TypeOK'
    <3>1. cache' \subseteq Key /\ answer' \in Value \cup {Null}
      BY <2>3 DEF TypeOK, Insert
    <3>2. value' \in [Key -> Value \cup {Null}]
      BY <2>3 DEF TypeOK, Insert
    <3>3. left' \in [Key -> Nat \cup {-1}]
      BY <2>1, <2>3 DEF TypeOK, Insert
    <3>4. QED
      BY <1>1, <3>1, <3>2, <3>3 DEF TypeOK
  <2>4. QED
    BY <2>2, <2>3
<1>6. QED
  BY <1>2, <1>3, <1>4, <1>5 DEF Next

LEMMA IInvNext ==
  ASSUME IInv, [Next]_vars
  PROVE  IInv'
<1>1. TypeOK /\ list \in Lists
  BY TypedList DEF IInv
<1>2. PICK o \in [Nat -> Link], n \in Nat : Walk(o, n, cache, list)
  BY DEF IInv
<1>3. \E q, m : list' \in Lists /\ Walk(q, m, cache', list')
  <2>1. CASE UNCHANGED <<cache, list>>
    BY <1>1, <1>2, <2>1
  <2>2. ASSUME NEW k \in Key, Expire(k)
        PROVE  \E q, m : list' \in Lists /\ Walk(q, m, cache', list')
    <3>1. PICK p \in 1..n : k = o[p]
      BY <1>2, <2>2, NodeAt DEF Expire
    <3>2. QED
      BY <1>1, <1>2, <2>2, <3>1, ExpireWalks
  <2>3. ASSUME NEW k \in cache, list' = moveToHead(list, k), cache' = cache
        PROVE  \E q, m : list' \in Lists /\ Walk(q, m, cache', list')
    <3>1. PICK p \in 1..n : k = o[p]
      BY <1>2, NodeAt
    <3>2. QED
      BY <1>1, <1>2, <2>3, <3>1, TouchWalks
  <2>4. ASSUME NEW k \in Key, NEW v \in Value, NEW ttl \in TTLs, Insert(k, v, ttl)
        PROVE  \E q, m : list' \in Lists /\ Walk(q, m, cache', list')
    BY <1>1, <1>2, <2>4, InsertWalks
  <2>5. QED
    <3>1. UNCHANGED vars \/ Tick => UNCHANGED <<cache, list>>
      BY DEF vars, Tick
    <3>2. \A k \in Key : Miss(k) => UNCHANGED <<cache, list>>
      BY DEF Miss
    <3>3. \A k \in Key : Hit(k) => k \in cache /\ list' = moveToHead(list, k) /\ cache' = cache
      BY DEF Hit
    <3>4. \A k \in Key, v \in Value, ttl \in TTLs : Overwrite(k, v, ttl) =>
             k \in cache /\ list' = moveToHead(list, k) /\ cache' = cache
      BY DEF Overwrite
    <3>5. QED
      BY <2>1, <2>2, <2>3, <2>4, <3>1, <3>2, <3>3, <3>4 DEF Next
<1>4. TypeOK'
  BY <1>1, <1>3, TypeOKNext
<1>5. PICK q, m : Walk(q, m, cache', list')
  BY <1>3
<1>6. q \in [Nat -> Link] /\ m \in Nat
  BY <1>5 DEF Walk, Enumerates
<1>7. QED
  BY <1>4, <1>5, <1>6 DEF IInv

LEMMA IInvAlways == Spec => []IInv
<1>1. Init => IInv
  BY IInvInit
<1>2. IInv /\ [Next]_vars => IInv'
  BY IInvNext
<1>3. QED
  BY <1>1, <1>2, PTL DEF Spec

(* Map, links, values and times have their types in every reachable state.  *)
THEOREM TypeCorrect == Spec => []TypeOK
<1>1. IInv => TypeOK
  BY DEF IInv
<1>2. QED
  BY <1>1, IInvAlways, PTL

LEMMA IInvLinks ==
  ASSUME IInv
  PROVE  WellLinked
<1>1. PICK o \in [Nat -> Link], n \in Nat : Walk(o, n, cache, list)
  BY DEF IInv
<1>2. Order = [i \in 1..n |-> o[i]]
  BY <1>1, OrderWalks
<1>3. /\ \A i \in Nat : o[i] # Null <=> i \in 1..n
      /\ cache = {o[i] : i \in 1..n}
      /\ list.head = o[1] /\ list.tail = o[n]
      /\ \A i \in 1..n : list.next[o[i]] = o[i + 1] /\ list.prev[o[i]] = o[i - 1]
  BY <1>1 DEF Walk, Enumerates, Links
<1>4. Order \in Seq(Link) /\ Len(Order) = n /\ DOMAIN Order = 1..n
  BY <1>2
<1>5. cache = {Order[i] : i \in DOMAIN Order}
  BY <1>2, <1>3, <1>4
<1>6. (cache = {} <=> n = 0) /\ (list.head = Null <=> n = 0) /\ (list.tail = Null <=> n = 0)
  BY <1>3
<1>7. cache # {} =>
         /\ list.prev[list.head] = Null
         /\ Order[Len(Order)] = list.tail /\ list.next[list.tail] = Null
  <2>1. ASSUME n # 0
        PROVE  /\ list.prev[list.head] = Null
               /\ Order[Len(Order)] = list.tail /\ list.next[list.tail] = Null
    <3>1. 1 \in 1..n /\ n \in 1..n /\ o[0] = Null /\ o[n + 1] = Null
      BY <1>3, <2>1
    <3>2. QED
      BY <1>2, <1>3, <1>4, <3>1
  <2>2. QED
    BY <1>6, <2>1
<1>8. \A k \in cache : list.next[k] # Null => list.prev[list.next[k]] = k
  <2>1. ASSUME NEW i \in 1..n, list.next[o[i]] # Null
        PROVE  list.prev[list.next[o[i]]] = o[i]
    <3>1. i + 1 \in 1..n /\ (i + 1) - 1 = i
      BY <1>3, <2>1
    <3>2. QED
      BY <1>3, <3>1
  <2>2. QED
    BY <1>3, <2>1
<1>9. QED
  BY <1>5, <1>6, <1>7, <1>8 DEF WellLinked

(* The list holds exactly the nodes of the Map, once each, and is linked in *)
(* both directions, whatever the order of reads, writes, expiry, eviction.  *)
THEOREM WellLinkedHolds == Spec => []WellLinked
<1>1. IInv => WellLinked
  BY IInvLinks
<1>2. QED
  BY <1>1, IInvAlways, PTL

-----------------------------------------------------------------------------
(* What the abstract cache sees of a walk: the entries in its order.        *)
Entry(k, val, time) == [key |-> k, value |-> val[k], left |-> time[k]]
View(o, n, val, time) == [i \in 1..n |-> Entry(o[i], val, time)]

Entries == [i \in DOMAIN Order |->
              [key |-> Order[i], value |-> value[Order[i]], left |-> left[Order[i]]]]

Ahead(x, s) == <<x>> \o s

AnyEntry == {Entry(k, val, time) : k \in Key, val \in [Key -> Value \cup {Null}],
                                   time \in [Key -> Nat \cup {-1}]}

EntriesAreViews ==
  \A o, n : Walk(o, n, cache, list) => Entries = View(o, n, value, left)

LEMMA EntriesView == EntriesAreViews
<1> SUFFICES ASSUME NEW o, NEW n, Walk(o, n, cache, list)
             PROVE  Entries = View(o, n, value, left)
  BY DEF EntriesAreViews
<1>1. Order = [i \in 1..n |-> o[i]]
  BY OrderWalks
<1>2. QED
  BY <1>1 DEF Entries, View, Entry

LEMMA ViewIsSeq ==
  ASSUME TypeOK, NEW o, NEW n, NEW S, Enumerates(o, n, S)
  PROVE  /\ n \in Nat
         /\ View(o, n, value, left) \in Seq(AnyEntry)
         /\ Len(View(o, n, value, left)) = n
         /\ DOMAIN View(o, n, value, left) = 1..n
         /\ \A i \in 1..n : View(o, n, value, left)[i] = Entry(o[i], value, left)
<1>1. n \in Nat /\ \A i \in 1..n : o[i] \in Key
  <2>1. n \in Nat
    BY DEF Enumerates
  <2>2. QED
    BY <2>1, EnumeratesKeys
<1>2. \A i \in 1..n : Entry(o[i], value, left) \in AnyEntry
  BY <1>1 DEF AnyEntry, TypeOK
<1>3. QED
  BY <1>1, <1>2 DEF View

(* The last entry left out, and one put in front.                           *)
LEMMA FrontIs ==
  ASSUME NEW A, NEW s \in Seq(A), s # <<>>
  PROVE  Recency!Front(s) = [i \in 1..(Len(s) - 1) |-> s[i]]
<1>1. Len(s) \in Nat /\ Len(s) > 0
  BY EmptySeq
<1>2. QED
  BY <1>1 DEF Recency!Front

LEMMA InFront ==
  ASSUME NEW A, NEW s \in Seq(A), NEW x \in A
  PROVE  <<x>> \o s = [i \in 1..(Len(s) + 1) |-> IF i = 1 THEN x ELSE s[i - 1]]
<1>1. <<x>> \in Seq(A) /\ Len(<<x>>) = 1 /\ Len(s) \in Nat
  OBVIOUS
<1>2. QED
  BY <1>1

LEMMA ViewDropped ==
  ASSUME TypeOK, NEW o, NEW n, NEW S, Enumerates(o, n, S), NEW p \in 1..n
  PROVE  View(Dropped(o, p), n - 1, value, left)
            = Recency!RemoveAt(View(o, n, value, left), p)
<1> DEFINE s == View(o, n, value, left)
           d == Dropped(o, p)
<1>1. /\ n \in Nat /\ s \in Seq(AnyEntry) /\ Len(s) = n
      /\ \A i \in 1..n : s[i] = Entry(o[i], value, left)
  BY ViewIsSeq
<1>2. Recency!RemoveAt(s, p) = [i \in 1..(n - 1) |-> IF i < p THEN s[i] ELSE s[i + 1]]
  BY <1>1, RemoveAtIs DEF Recency!RemoveAt, RemoveAt
<1>3. ASSUME NEW i \in 1..(n - 1)
      PROVE  Entry(d[i], value, left) = IF i < p THEN s[i] ELSE s[i + 1]
  <2>1. i \in 1..n /\ i + 1 \in 1..n /\ i \in Nat
    BY <1>1
  <2>2. d[i] = IF i < p THEN o[i] ELSE o[i + 1]
    BY <2>1 DEF Dropped
  <2>3. QED
    BY <1>1, <2>1, <2>2
<1>4. View(d, n - 1, value, left) = [i \in 1..(n - 1) |-> Entry(d[i], value, left)]
  BY DEF View
<1>5. QED
  BY <1>2, <1>3, <1>4

(* A view depends only on the values and times of the nodes it shows.       *)
LEMMA SameView ==
  ASSUME NEW o, NEW n, NEW val, NEW time, NEW val2, NEW time2,
         \A i \in 1..n : val2[o[i]] = val[o[i]] /\ time2[o[i]] = time[o[i]]
  PROVE  View(o, n, val2, time2) = View(o, n, val, time)
BY DEF View, Entry

LEMMA ViewPushed ==
  ASSUME NEW A, NEW o, NEW n \in Nat, NEW k, NEW val, NEW time,
         View(o, n, val, time) \in Seq(A), Entry(k, val, time) \in A
  PROVE  View(Pushed(o, k), n + 1, val, time)
            = Ahead(Entry(k, val, time), View(o, n, val, time))
<1> DEFINE s == View(o, n, val, time)
           q == Pushed(o, k)
<1>1. Len(s) = n /\ \A i \in 1..n : s[i] = Entry(o[i], val, time)
  BY DEF View
<1>2. <<Entry(k, val, time)>> \o s
         = [i \in 1..(n + 1) |-> IF i = 1 THEN Entry(k, val, time) ELSE s[i - 1]]
  BY <1>1, InFront
<1>3. ASSUME NEW i \in 1..(n + 1)
      PROVE  Entry(q[i], val, time) = IF i = 1 THEN Entry(k, val, time) ELSE s[i - 1]
  <2>1. i \in Nat /\ i # 0 /\ (i # 1 => i - 1 \in 1..n)
    OBVIOUS
  <2>2. q[i] = IF i = 1 THEN k ELSE o[i - 1]
    BY <2>1 DEF Pushed
  <2>3. QED
    BY <1>1, <2>1, <2>2
<1>4. View(q, n + 1, val, time) = [i \in 1..(n + 1) |-> Entry(q[i], val, time)]
  BY DEF View
<1>5. QED
  BY <1>2, <1>3, <1>4 DEF Ahead

LEMMA EntriesAre ==
  ASSUME TypeOK, NEW o, NEW n, Walk(o, n, cache, list)
  PROVE  /\ Entries = View(o, n, value, left)
         /\ Entries \in Seq(AnyEntry) /\ Len(Entries) = n /\ n \in Nat
         /\ DOMAIN Entries = 1..n
         /\ \A i \in 1..n : Entries[i] = Entry(o[i], value, left)
         /\ \A k : Recency!PositionsOf(k) = {i \in 1..n : o[i] = k}
<1>1. Entries = View(o, n, value, left)
  BY EntriesView DEF EntriesAreViews
<1>2. /\ n \in Nat /\ Entries \in Seq(AnyEntry) /\ Len(Entries) = n /\ DOMAIN Entries = 1..n
      /\ \A i \in 1..n : Entries[i] = Entry(o[i], value, left)
  BY <1>1, ViewIsSeq DEF Walk
<1>3. \A k : Recency!PositionsOf(k) = {i \in DOMAIN Entries : Entries[i].key = k}
  BY DEF Recency!PositionsOf, Entries
<1>4. \A i \in 1..n : Entries[i].key = o[i]
  BY <1>2 DEF Entry
<1>5. QED
  BY <1>1, <1>2, <1>3, <1>4

LEMMA EntriesNext ==
  ASSUME NEW o, NEW n, Walk(o, n, cache', list')
  PROVE  Entries' = View(o, n, value', left')
<1>1. EntriesAreViews'
  BY EntriesView, PTL
<1>2. QED
  BY <1>1 DEF EntriesAreViews

LEMMA RefineInit ==
  ASSUME Init
  PROVE  Recency!Init
<1>1. PICK o \in [Nat -> Link], n \in Nat : Walk(o, n, cache, list)
  BY IInvInit DEF IInv
<1>2. n = 0
  BY <1>1 DEF Init, Walk, Enumerates, Links
<1>3. Entries = <<>>
  BY <1>1, <1>2, EntriesView DEF EntriesAreViews, View
<1>4. QED
  BY <1>3 DEF Init, Recency!Init, Entries

(* Nothing moves and no entry changes: the abstract cache stands still.     *)
LEMMA EntriesKept ==
  ASSUME TypeOK, NEW o, NEW n, Walk(o, n, cache, list),
         UNCHANGED <<cache, list, value, left>>
  PROVE  Entries' = Entries
BY EntriesNext, EntriesView DEF EntriesAreViews

LEMMA RefineTick ==
  ASSUME TypeOK, NEW o, NEW n, Walk(o, n, cache, list), Tick
  PROVE  Recency!Tick
<1>1. /\ Entries \in Seq(AnyEntry) /\ Len(Entries) = n /\ n \in Nat
      /\ \A i \in 1..n : Entries[i] = Entry(o[i], value, left)
  BY EntriesAre
<1>2. Entries' = View(o, n, value', left')
  BY EntriesNext DEF Tick
<1>3. \A i \in 1..n : o[i] \in Key
  BY EnumeratesKeys DEF Walk
<1>4. ASSUME NEW i \in 1..n
      PROVE  Entry(o[i], value', left')
                = [Entries[i] EXCEPT !.left = IF @ < 0 THEN @ ELSE @ - 1]
  BY <1>1, <1>3 DEF Tick, Aged, Entry
<1>5. Entries' = [i \in DOMAIN Entries |->
                    [Entries[i] EXCEPT !.left = IF @ < 0 THEN @ ELSE @ - 1]]
  <2>1. DOMAIN Entries = 1..n
    BY EntriesAre
  <2>2. Entries' = [i \in 1..n |-> Entry(o[i], value', left')]
    BY <1>2 DEF View
  <2>3. QED
    BY <1>4, <2>1, <2>2, Zenon
<1>6. QED
  BY <1>5 DEF Tick, Recency!Tick, Entries

LEMMA RefineMiss ==
  ASSUME TypeOK, NEW o, NEW n, Walk(o, n, cache, list), NEW k \in Key, Miss(k)
  PROVE  Recency!Get(k)
<1>1. Entries' = Entries
  BY EntriesKept DEF Miss
<1>2. Recency!PositionsOf(k) = {}
  <2>1. \A i \in 1..n : o[i] # k
    BY EnumeratesKeys DEF Walk, Miss
  <2>2. QED
    BY <2>1, EntriesAre
<1>3. answer' = Null
  BY DEF Miss
<1>4. QED
  BY <1>1, <1>2, <1>3 DEF Recency!Get, Entries

LEMMA RefineExpire ==
  ASSUME TypeOK, NEW o, NEW n, Walk(o, n, cache, list), NEW p \in 1..n, Expire(o[p])
  PROVE  Recency!Get(o[p])
<1>1. Walk(Dropped(o, p), n - 1, cache', list')
  BY ExpireWalks
<1>2. /\ Entries = View(o, n, value, left)
      /\ Entries[p] = Entry(o[p], value, left) /\ p \in Recency!PositionsOf(o[p])
  BY EntriesAre
<1>3. Entries' = View(Dropped(o, p), n - 1, value', left')
  BY <1>1, EntriesNext
<1>4. \A i \in 1..(n - 1) : /\ value'[Dropped(o, p)[i]] = value[Dropped(o, p)[i]]
                            /\ left'[Dropped(o, p)[i]] = left[Dropped(o, p)[i]]
  <2>1. cache' = cache \ {o[p]} /\ cache \subseteq Key
    BY DEF Expire, TypeOK
  <2>2. \A i \in 1..(n - 1) : Dropped(o, p)[i] \in cache'
    BY <1>1, EnumeratesKeys DEF Walk
  <2>3. QED
    BY <2>1, <2>2 DEF Expire, TypeOK
<1>5. Entries' = Recency!RemoveAt(Entries, p)
  <2>1. View(Dropped(o, p), n - 1, value, left) = Recency!RemoveAt(Entries, p)
    BY <1>2, ViewDropped DEF Walk
  <2>2. QED
    BY <1>3, <1>4, <2>1, SameView
<1>6. Entries[p].left < 0 /\ answer' = Null
  BY <1>2 DEF Expire, Expired, Entry
<1>7. QED
  BY <1>2, <1>5, <1>6 DEF Recency!Get, Entries

(* A node that moves to the head takes its entry to the front.              *)
LEMMA RefineTouch ==
  ASSUME TypeOK, NEW o, NEW n, Walk(o, n, cache, list), NEW p \in 1..n,
         list' = moveToHead(list, o[p]), cache' = cache,
         \A k \in Key : k # o[p] => value'[k] = value[k] /\ left'[k] = left[k],
         value'[o[p]] \in Value \cup {Null}, left'[o[p]] \in Nat \cup {-1}
  PROVE  Entries' = <<Entry(o[p], value', left')>> \o Recency!RemoveAt(Entries, p)
<1> DEFINE d == Dropped(o, p)
           rest == View(d, n - 1, value, left)
<1>1. Walk(Pushed(d, o[p]), n, cache', list')
  BY TouchWalks
<1>2. Entries' = View(Pushed(d, o[p]), n, value', left')
  BY <1>1, EntriesNext
<1>3. Enumerates(d, n - 1, cache \ {o[p]})
  BY DroppedEnumerates DEF Walk
<1>4. \A i \in 1..(n - 1) : d[i] \in Key /\ d[i] # o[p]
  BY <1>3, EnumeratesKeys
<1>5. View(d, n - 1, value', left') = rest
  BY <1>4, SameView
<1>6. rest = Recency!RemoveAt(Entries, p)
  BY EntriesAre, ViewDropped DEF Walk
<1>7. n - 1 \in Nat /\ (n - 1) + 1 = n /\ rest \in Seq(AnyEntry)
  <2>1. n - 1 \in Nat /\ rest \in Seq(AnyEntry)
    BY <1>3, ViewIsSeq
  <2>2. n \in Nat
    BY DEF Walk, Enumerates
  <2>3. QED
    BY <2>1, <2>2
<1>8. PICK A : A = AnyEntry \cup {Entry(o[p], value', left')}
  OBVIOUS
<1>9. rest \in Seq(A) /\ Entry(o[p], value', left') \in A
  <2>1. \A i \in 1..Len(rest) : rest[i] \in AnyEntry
    BY <1>7, ElementOfSeq
  <2>2. rest = [i \in 1..(n - 1) |-> rest[i]] /\ Len(rest) = n - 1
    BY <1>7 DEF View
  <2>3. QED
    BY <1>7, <1>8, <2>1, <2>2
<1>10. View(Pushed(d, o[p]), (n - 1) + 1, value', left')
         = Ahead(Entry(o[p], value', left'), View(d, n - 1, value', left'))
  <2>1. View(d, n - 1, value', left') \in Seq(A)
    BY <1>5, <1>9
  <2>2. QED
    BY <1>7, <1>9, <2>1, ViewPushed
<1>11. QED
  BY <1>2, <1>5, <1>6, <1>7, <1>10 DEF Ahead

LEMMA RefineHit ==
  ASSUME TypeOK, NEW o, NEW n, Walk(o, n, cache, list), NEW p \in 1..n, Hit(o[p])
  PROVE  Recency!Get(o[p])
<1>1. o[p] \in Key
  BY EnumeratesKeys DEF Walk
<1>2. Entries[p] = Entry(o[p], value, left) /\ p \in Recency!PositionsOf(o[p])
  BY EntriesAre
<1>3. value' = value /\ left' = left /\ cache' = cache /\ list' = moveToHead(list, o[p])
  BY DEF Hit
<1>4. value[o[p]] \in Value \cup {Null} /\ left[o[p]] \in Nat \cup {-1}
  BY <1>1 DEF TypeOK
<1>5. Entries' = <<Entry(o[p], value', left')>> \o Recency!RemoveAt(Entries, p)
  BY <1>3, <1>4, RefineTouch
<1>6. Entries' = <<Entries[p]>> \o Recency!RemoveAt(Entries, p)
  BY <1>2, <1>3, <1>5
<1>7. Entries[p].left >= 0 /\ answer' = Entries[p].value
  BY <1>2, <1>4 DEF Hit, Expired, Entry
<1>8. QED
  BY <1>2, <1>6, <1>7 DEF Recency!Get, Entries

LEMMA RefineOverwrite ==
  ASSUME TypeOK, NEW o, NEW n, Walk(o, n, cache, list), NEW p \in 1..n,
         NEW v \in Value, NEW ttl \in TTLs, Overwrite(o[p], v, ttl)
  PROVE  Recency!Set(o[p], v, ttl)
<1>1. o[p] \in Key /\ ttl \in Nat
  BY EnumeratesKeys, CacheAssumption DEF Walk
<1>2. p \in Recency!PositionsOf(o[p])
  BY EntriesAre
<1>3. /\ cache' = cache /\ list' = moveToHead(list, o[p]) /\ answer' = answer
      /\ value'[o[p]] = v /\ left'[o[p]] = ttl
      /\ \A k \in Key : k # o[p] => value'[k] = value[k] /\ left'[k] = left[k]
  BY <1>1 DEF Overwrite, TypeOK
<1>4. Entries' = <<Entry(o[p], value', left')>> \o Recency!RemoveAt(Entries, p)
  BY <1>1, <1>3, RefineTouch
<1>5. Entry(o[p], value', left') = [key |-> o[p], value |-> v, left |-> ttl]
  BY <1>3 DEF Entry
<1>6. Entries' = <<[key |-> o[p], value |-> v, left |-> ttl]>> \o Recency!RemoveAt(Entries, p)
  BY <1>4, <1>5
<1>7. QED
  BY <1>2, <1>3, <1>6 DEF Recency!Set, Entries

LEMMA RefineInsert ==
  ASSUME TypeOK, NEW o, NEW n, Walk(o, n, cache, list),
         NEW k \in Key, NEW v \in Value, NEW ttl \in TTLs, Insert(k, v, ttl)
  PROVE  Recency!Set(k, v, ttl)
<1> DEFINE new == [key |-> k, value |-> v, left |-> ttl]
<1>1. /\ Entries = View(o, n, value, left) /\ Entries \in Seq(AnyEntry)
      /\ Len(Entries) = n /\ n \in Nat
      /\ Recency!PositionsOf(k) = {i \in 1..n : o[i] = k}
  BY EntriesAre
<1>2. \A i \in 1..n : o[i] \in Key /\ o[i] \in cache /\ o[i] # k
  BY EnumeratesKeys DEF Walk, Insert
<1>3. Recency!PositionsOf(k) = {}
  BY <1>1, <1>2
<1>4. Entry(k, value', left') = new /\ new \in AnyEntry
  <2>1. value'[k] = v /\ left'[k] = ttl
    BY DEF Insert
  <2>2. PICK val, time : val = [j \in Key |-> v] /\ time = [j \in Key |-> ttl]
    OBVIOUS
  <2>3. val \in [Key -> Value \cup {Null}] /\ time \in [Key -> Nat \cup {-1}]
    BY <2>2, CacheAssumption
  <2>4. Entry(k, val, time) = new
    BY <2>2 DEF Entry
  <2>5. QED
    BY <2>1, <2>3, <2>4 DEF Entry, AnyEntry
<1>5. \A j \in Key : j # k /\ j \notin Evicted => value'[j] = value[j] /\ left'[j] = left[j]
  BY DEF Insert
<1>6. CASE n # 0 /\ n >= Capacity
  <2> DEFINE d == Dropped(o, n)
             rest == View(d, n - 1, value, left)
  <2>1. /\ Evicted = {o[n]} /\ n \in 1..n /\ (n - 1) + 1 = n
        /\ Walk(Pushed(d, k), n, cache', list')
    BY <1>1, <1>6, InsertWalks
  <2>2. Enumerates(d, n - 1, cache \ {o[n]})
    BY <2>1, DroppedEnumerates DEF Walk
  <2>3. \A i \in 1..(n - 1) : d[i] \in Key /\ d[i] # o[n] /\ d[i] # k
    <3>1. \A i \in 1..(n - 1) : d[i] \in Key /\ d[i] \in cache \ {o[n]}
      BY <2>2, EnumeratesKeys
    <3>2. QED
      BY <3>1 DEF Insert
  <2>4. View(d, n - 1, value', left') = rest
    BY <1>5, <2>1, <2>3, SameView
  <2>5. n - 1 \in Nat /\ rest \in Seq(AnyEntry)
    BY <2>2, ViewIsSeq
  <2>6. View(Pushed(d, k), (n - 1) + 1, value', left')
          = Ahead(Entry(k, value', left'), View(d, n - 1, value', left'))
    <3>1. View(d, n - 1, value', left') \in Seq(AnyEntry) /\ Entry(k, value', left') \in AnyEntry
      BY <1>4, <2>4, <2>5
    <3>2. QED
      BY <2>5, <3>1, ViewPushed
  <2>7. Entries' = View(Pushed(d, k), n, value', left')
    BY <2>1, EntriesNext
  <2>8. Entries' = <<new>> \o rest
    BY <1>4, <2>1, <2>4, <2>6, <2>7 DEF Ahead
  <2>9. rest = Recency!Front(Entries)
    <3>1. Entries # <<>>
      BY <1>1, <1>6
    <3>2. Recency!Front(Entries) = [i \in 1..(n - 1) |-> Entries[i]]
      BY <1>1, <3>1, FrontIs
    <3>3. \A i \in 1..(n - 1) : Entries[i] = Entry(d[i], value, left)
      <4>1. \A i \in 1..(n - 1) : i \in Nat /\ i < n /\ i \in 1..n
        BY <1>1
      <4>2. \A i \in 1..(n - 1) : d[i] = o[i]
        BY <4>1 DEF Dropped
      <4>3. QED
        BY <1>1, <4>1, <4>2 DEF View
    <3>4. QED
      BY <3>2, <3>3 DEF View
  <2>10. Entries # <<>> /\ Len(Entries) >= Capacity
    BY <1>1, <1>6
  <2>11. Entries' = <<new>> \o Recency!Remaining
    BY <2>8, <2>9, <2>10 DEF Recency!Remaining, Entries
  <2>12. QED
    BY <1>3, <2>11 DEF Recency!Set, Insert, Entries
<1>7. CASE ~(n # 0 /\ n >= Capacity)
  <2>1. Evicted = {} /\ Walk(Pushed(o, k), n + 1, cache', list')
    BY <1>7, InsertWalks
  <2>2. View(o, n, value', left') = Entries
    <3>1. \A i \in 1..n : value'[o[i]] = value[o[i]] /\ left'[o[i]] = left[o[i]]
      BY <1>2, <1>5, <2>1
    <3>2. QED
      BY <1>1, <3>1, SameView
  <2>3. View(Pushed(o, k), n + 1, value', left')
          = Ahead(Entry(k, value', left'), View(o, n, value', left'))
    <3>1. View(o, n, value', left') \in Seq(AnyEntry) /\ Entry(k, value', left') \in AnyEntry
      BY <1>1, <1>4, <2>2
    <3>2. QED
      BY <1>1, <3>1, ViewPushed
  <2>4. Entries' = View(Pushed(o, k), n + 1, value', left')
    BY <2>1, EntriesNext
  <2>5. Entries' = <<new>> \o Entries
    BY <1>4, <2>2, <2>3, <2>4 DEF Ahead
  <2>6. ~(Entries # <<>> /\ Len(Entries) >= Capacity)
    BY <1>1, <1>7
  <2>7. Entries' = <<new>> \o Recency!Remaining
    BY <2>5, <2>6 DEF Recency!Remaining, Entries
  <2>8. QED
    BY <1>3, <2>7 DEF Recency!Set, Insert, Entries
<1>8. QED
  BY <1>6, <1>7

LEMMA RefineNext ==
  ASSUME IInv, [Next]_vars
  PROVE  [Recency!Next]_Recency!vars
<1>1. TypeOK
  BY DEF IInv
<1>2. PICK o \in [Nat -> Link], n \in Nat : Walk(o, n, cache, list)
  BY DEF IInv
<1>3. CASE UNCHANGED vars
  <2>1. Entries' = Entries /\ answer' = answer
    BY <1>1, <1>2, <1>3, EntriesKept DEF vars
  <2>2. QED
    BY <2>1 DEF Recency!vars, Entries
<1>4. CASE Tick
  BY <1>1, <1>2, <1>4, RefineTick DEF Recency!Next
<1>5. ASSUME NEW k \in Key, Miss(k) \/ Expire(k) \/ Hit(k)
      PROVE  Recency!Get(k)
  <2>1. CASE Miss(k)
    BY <1>1, <1>2, <2>1, RefineMiss
  <2>2. CASE Expire(k) \/ Hit(k)
    <3>1. PICK p \in 1..n : k = o[p]
      BY <1>2, <2>2, NodeAt DEF Expire, Hit
    <3>2. QED
      BY <1>1, <1>2, <2>2, <3>1, RefineExpire, RefineHit
  <2>3. QED
    BY <1>5, <2>1, <2>2
<1>6. ASSUME NEW k \in Key, NEW v \in Value, NEW ttl \in TTLs,
             Overwrite(k, v, ttl) \/ Insert(k, v, ttl)
      PROVE  Recency!Set(k, v, ttl)
  <2>1. CASE Overwrite(k, v, ttl)
    <3>1. PICK p \in 1..n : k = o[p]
      BY <1>2, <2>1, NodeAt DEF Overwrite
    <3>2. QED
      BY <1>1, <1>2, <2>1, <3>1, RefineOverwrite
  <2>2. CASE Insert(k, v, ttl)
    BY <1>1, <1>2, <2>2, RefineInsert
  <2>3. QED
    BY <1>6, <2>1, <2>2
<1>7. QED
  BY <1>3, <1>4, <1>5, <1>6 DEF Next, Recency!Next

(* Every behaviour of the pointers is one of the recency order: what a read *)
(* answers, when an entry expires, and which one is evicted.                *)
THEOREM ImplementsRecencyCacheHolds == Spec => ImplementsRecencyCache
<1>1. Init => Recency!Init
  BY RefineInit
<1>2. IInv /\ [Next]_vars => [Recency!Next]_Recency!vars
  BY RefineNext
<1>3. QED
  BY <1>1, <1>2, IInvAlways, PTL DEF Spec, ImplementsRecencyCache, Recency!Spec

-----------------------------------------------------------------------------
(* The members of a finite set of numbers, from the least to the greatest.  *)
UpTo(S, i) == {j \in S : j <= i}
Rank(S, i) == Cardinality(UpTo(S, i))
Kth(S, k) == CHOOSE i \in S : Rank(S, i) = k

LEMMA RankGrows ==
  ASSUME NEW S, S \subseteq Nat, IsFiniteSet(S), NEW i \in S
  PROVE  /\ i \in Nat /\ Cardinality(S) \in Nat /\ Rank(S, i) \in Nat
         /\ Rank(S, i) \in 1..Cardinality(S) /\ \A j \in S : i < j => Rank(S, i) < Rank(S, j)
<1>1. ASSUME NEW j \in S
      PROVE  UpTo(S, j) \in SUBSET S /\ IsFiniteSet(UpTo(S, j))
             /\ Rank(S, j) \in Nat /\ Cardinality(S) \in Nat /\ Rank(S, j) <= Cardinality(S)
  <2>1. UpTo(S, j) \in SUBSET S
    BY DEF UpTo
  <2>2. QED
    BY <2>1, FS_Subset, FS_CardinalityType DEF Rank
<1>2. i \in UpTo(S, i)
  BY DEF UpTo
<1>3. Rank(S, i) # 0
  BY <1>1, <1>2, FS_EmptySet DEF Rank
<1>4. ASSUME NEW j \in S, i < j
      PROVE  Rank(S, i) < Rank(S, j)
  <2>1. i \in Nat /\ j \in Nat
    OBVIOUS
  <2>2. UpTo(S, i) \in SUBSET UpTo(S, j)
    <3>1. \A x \in S : x <= i => x <= j
      BY <1>4, <2>1
    <3>2. QED
      BY <3>1 DEF UpTo
  <2>3. j \in UpTo(S, j) /\ j \notin UpTo(S, i)
    BY <1>4, <2>1 DEF UpTo
  <2>4. Rank(S, i) <= Rank(S, j) /\ Rank(S, i) # Rank(S, j)
    BY <1>1, <2>2, <2>3, FS_Subset DEF Rank
  <2>5. QED
    BY <1>1, <2>4
<1>5. QED
  BY <1>1, <1>3, <1>4

LEMMA RankOrders ==
  ASSUME NEW S, S \subseteq Nat, IsFiniteSet(S), NEW i \in S, NEW j \in S,
         Rank(S, i) <= Rank(S, j)
  PROVE  i <= j
<1>1. i \in Nat /\ j \in Nat /\ Rank(S, i) \in Nat /\ Rank(S, j) \in Nat
  BY RankGrows
<1>2. j < i => Rank(S, j) < Rank(S, i)
  BY RankGrows
<1>3. ~(j < i)
  BY <1>1, <1>2
<1>4. QED
  BY <1>1, <1>3

LEMMA RankTells ==
  ASSUME NEW S, S \subseteq Nat, IsFiniteSet(S), NEW i \in S, NEW j \in S,
         Rank(S, i) = Rank(S, j)
  PROVE  i = j
<1>1. i \in Nat /\ j \in Nat /\ Rank(S, i) \in Nat /\ Rank(S, j) \in Nat
  BY RankGrows
<1>2. Rank(S, i) <= Rank(S, j) /\ Rank(S, j) <= Rank(S, i)
  BY <1>1
<1>3. i <= j /\ j <= i
  BY <1>2, RankOrders
<1>4. QED
  BY <1>1, <1>3

LEMMA EveryRankTaken ==
  ASSUME NEW S, S \subseteq Nat, IsFiniteSet(S), NEW k \in 1..Cardinality(S)
  PROVE  \E i \in S : Rank(S, i) = k
<1> DEFINE m == Cardinality(S)
           f == [i \in S |-> Rank(S, i)]
<1>1. m \in Nat
  BY FS_CardinalityType
<1>2. f \in [S -> 1..m]
  BY RankGrows
<1>3. \A i, j \in S : f[i] = f[j] => i = j
  BY RankTells
<1>4. f \in Injection(S, 1..m)
  BY <1>2, <1>3 DEF Injection, IsInjective
<1>5. IsFiniteSet(1..m) /\ Cardinality(1..m) = m
  BY <1>1, FS_Interval
<1>6. f \in Surjection(S, 1..m)
  BY <1>4, <1>5, FS_Injection
<1>7. \A t \in 1..m : \E i \in S : f[i] = t
  BY <1>6 DEF Surjection
<1>8. QED
  BY <1>7

LEMMA KthInOrder ==
  ASSUME NEW S, S \subseteq Nat, IsFiniteSet(S)
  PROVE  /\ Cardinality(S) \in Nat
         /\ \A k \in 1..Cardinality(S) : Kth(S, k) \in S /\ Rank(S, Kth(S, k)) = k
         /\ \A k, l \in 1..Cardinality(S) : k < l => Kth(S, k) < Kth(S, l)
         /\ \A i \in S : Rank(S, i) \in 1..Cardinality(S) /\ Kth(S, Rank(S, i)) = i
<1>1. \A k \in 1..Cardinality(S) : Kth(S, k) \in S /\ Rank(S, Kth(S, k)) = k
  BY EveryRankTaken DEF Kth
<1>2. ASSUME NEW k \in 1..Cardinality(S), NEW l \in 1..Cardinality(S), k < l
      PROVE  Kth(S, k) < Kth(S, l)
  <2>1. PICK i, j : i = Kth(S, k) /\ j = Kth(S, l)
    OBVIOUS
  <2>2. i \in S /\ Rank(S, i) = k /\ j \in S /\ Rank(S, j) = l
    BY <1>1, <2>1
  <2>3. i \in Nat /\ j \in Nat
    BY <2>2
  <2>4. k <= l /\ k # l
    BY <1>2
  <2>5. i <= j /\ i # j
    BY <2>2, <2>4, RankOrders
  <2>6. i < j
    BY <2>3, <2>5
  <2>7. QED
    BY <2>1, <2>6
<1>3. ASSUME NEW i \in S
      PROVE  Rank(S, i) \in 1..Cardinality(S) /\ Kth(S, Rank(S, i)) = i
  <2>1. Rank(S, i) \in 1..Cardinality(S)
    BY RankGrows
  <2>2. Kth(S, Rank(S, i)) \in S /\ Rank(S, Kth(S, Rank(S, i))) = Rank(S, i)
    BY <1>1, <2>1
  <2>3. QED
    BY <2>1, <2>2, RankTells
<1>4. QED
  BY <1>1, <1>2, <1>3, FS_CardinalityType

-----------------------------------------------------------------------------
(* What the ring's arrays hold after a sort and after a filter.             *)
Ascends(t) == \A i, j \in 1..Len(t) : i < j => t[i] < t[j]

LEMMA RingWords ==
  /\ \A s : Ring!Sorted(s) =
        [k \in DOMAIN s |->
            CHOOSE p \in Range(s) :
                /\ Cardinality({i \in DOMAIN s : s[i] < p}) < k
                /\ Cardinality({i \in DOMAIN s : s[i] <= p}) >= k]
  /\ \A s, places : Ring!Filtered(s, places) =
        [k \in 1..Cardinality(places) |->
            s[CHOOSE i \in places : Cardinality({j \in places : j <= i}) = k]]
  /\ \A f : Ring!Range(f) = Range(f)
<1>1. \A s : Ring!Sorted(s) =
        [k \in DOMAIN s |->
            CHOOSE p \in Range(s) :
                /\ Cardinality({i \in DOMAIN s : s[i] < p}) < k
                /\ Cardinality({i \in DOMAIN s : s[i] <= p}) >= k]
  BY Zenon DEF Ring!Sorted, Ring!Range, Range, Ring!Cardinality, Cardinality,
               Ring!IsFiniteSet, IsFiniteSet
<1>2. \A s, places : Ring!Filtered(s, places) =
        [k \in 1..Cardinality(places) |->
            s[CHOOSE i \in places : Cardinality({j \in places : j <= i}) = k]]
  BY Zenon DEF Ring!Filtered, Ring!Cardinality, Cardinality, Ring!IsFiniteSet, IsFiniteSet
<1>3. \A f : Ring!Range(f) = Range(f)
  BY DEF Ring!Range, Range
<1>4. QED
  BY <1>1, <1>2, <1>3

(* There are as many places as numbers at them, when no number is there     *)
(* twice.                                                                   *)
LEMMA PlacesCount ==
  ASSUME NEW A, NEW s \in Seq(A), IsInjective(s), NEW T, T \subseteq Range(s)
  PROVE  /\ IsFiniteSet(T) /\ Cardinality(T) \in Nat
         /\ Cardinality({i \in DOMAIN s : s[i] \in T}) = Cardinality(T)
<1> DEFINE P == {i \in DOMAIN s : s[i] \in T}
           g == [i \in P |-> s[i]]
<1>1. DOMAIN s = 1..Len(s) /\ Len(s) \in Nat
  BY LenProperties
<1>2. IsFiniteSet(P)
  <2>1. IsFiniteSet(1..Len(s)) /\ P \in SUBSET (1..Len(s))
    BY <1>1, FS_Interval
  <2>2. QED
    BY <2>1, FS_Subset
<1>3. g \in [P -> T] /\ \A p \in T : \E i \in P : g[i] = p
  BY DEF Range
<1>4. \A i, j \in P : g[i] = g[j] => i = j
  BY DEF IsInjective
<1>5. g \in Bijection(P, T)
  BY <1>3, <1>4, Fun_IsBij
<1>6. QED
  BY <1>2, <1>5, FS_Bijection, FS_CardinalityType DEF ExistsBijection

LEMMA SortedIs ==
  ASSUME NEW s \in Seq(Nat), IsInjective(s)
  PROVE  /\ Ring!Sorted(s) \in Seq(Nat) /\ Len(Ring!Sorted(s)) = Len(s)
         /\ Ascends(Ring!Sorted(s)) /\ Range(Ring!Sorted(s)) = Range(s)
<1> DEFINE S == Range(s)
           n == Len(s)
           fewer(p) == Cardinality({i \in DOMAIN s : s[i] < p})
           upTo(p) == Cardinality({i \in DOMAIN s : s[i] <= p})
<1>1. DOMAIN s = 1..n /\ n \in Nat /\ \A i \in 1..n : s[i] \in Nat
  BY LenProperties, ElementOfSeq
<1>2. S \subseteq Nat
  BY <1>1 DEF Range
<1>3. IsFiniteSet(S) /\ Cardinality(S) = n
  <2>1. {i \in DOMAIN s : s[i] \in S} = 1..n
    BY <1>1 DEF Range
  <2>2. IsFiniteSet(S) /\ Cardinality(S) = Cardinality(1..n)
    BY <2>1, PlacesCount
  <2>3. QED
    BY <1>1, <2>2, FS_Interval
<1>4. ASSUME NEW p \in S
      PROVE  upTo(p) = Rank(S, p) /\ fewer(p) + 1 = Rank(S, p) /\ fewer(p) \in Nat
  <2> DEFINE T == {q \in S : q < p}
  <2>1. {i \in DOMAIN s : s[i] <= p} = {i \in DOMAIN s : s[i] \in UpTo(S, p)}
    BY DEF Range, UpTo
  <2>2. {i \in DOMAIN s : s[i] < p} = {i \in DOMAIN s : s[i] \in T}
    BY DEF Range
  <2>3. UpTo(S, p) \subseteq Range(s) /\ T \subseteq Range(s)
    BY DEF UpTo
  <2>4. upTo(p) = Rank(S, p)
    BY <2>1, <2>3, PlacesCount DEF Rank
  <2>5. fewer(p) = Cardinality(T) /\ IsFiniteSet(T) /\ Cardinality(T) \in Nat
    BY <2>2, <2>3, PlacesCount
  <2>6. UpTo(S, p) = T \cup {p} /\ p \notin T
    <3>1. \A q \in S : q \in Nat
      BY <1>2
    <3>2. \A q \in S : q <= p <=> q < p \/ q = p
      BY <3>1
    <3>3. ~(p < p)
      BY <3>1
    <3>4. QED
      BY <3>2, <3>3 DEF UpTo
  <2>7. Cardinality(UpTo(S, p)) = Cardinality(T) + 1
    BY <2>5, <2>6, FS_AddElement
  <2>8. QED
    BY <2>4, <2>5, <2>7 DEF Rank
<1> HIDE DEF S, n, fewer, upTo
<1>5. ASSUME NEW k \in 1..n
      PROVE  (CHOOSE p \in S : fewer(p) < k /\ upTo(p) >= k) = Kth(S, k)
  <2>1. k \in Nat
    BY <1>1
  <2>2. ASSUME NEW p \in S
        PROVE  fewer(p) < k /\ upTo(p) >= k <=> Rank(S, p) = k
    <3>1. Rank(S, p) \in Nat
      BY <1>2, <1>3, RankGrows
    <3>2. PICK f, u, r : f = fewer(p) /\ u = upTo(p) /\ r = Rank(S, p)
      OBVIOUS
    <3>3. u = r /\ f + 1 = r /\ f \in Nat /\ r \in Nat
      BY <1>4, <3>1, <3>2
    <3>4. f < k /\ u >= k <=> r = k
      BY <2>1, <3>3
    <3>5. QED
      BY <3>2, <3>4
  <2>3. Kth(S, k) \in S /\ Rank(S, Kth(S, k)) = k
    BY <1>2, <1>3, KthInOrder
  <2>4. PICK q : q = CHOOSE p \in S : fewer(p) < k /\ upTo(p) >= k
    OBVIOUS
  <2>5. q \in S /\ fewer(q) < k /\ upTo(q) >= k
    BY <2>2, <2>3, <2>4
  <2>6. Rank(S, q) = k
    BY <2>2, <2>5
  <2>7. q = Kth(S, k)
    BY <1>2, <1>3, <2>3, <2>5, <2>6, RankTells
  <2>8. QED
    BY <2>4, <2>7
<1> DEFINE t == Ring!Sorted(s)
<1>6. t = [k \in 1..n |-> CHOOSE p \in S : fewer(p) < k /\ upTo(p) >= k]
  <2>1. t = [k \in DOMAIN s |->
               CHOOSE p \in S :
                  /\ Cardinality({i \in DOMAIN s : s[i] < p}) < k
                  /\ Cardinality({i \in DOMAIN s : s[i] <= p}) >= k]
    BY RingWords, Zenon DEF S
  <2>2. QED
    BY <1>1, <2>1, Zenon DEF fewer, upTo
<1>7. t = [k \in 1..n |-> Kth(S, k)]
  BY <1>5, <1>6, Zenon
<1> HIDE DEF t
<1>8. \A k \in 1..n : t[k] = Kth(S, k) /\ t[k] \in S
  BY <1>2, <1>3, <1>7, KthInOrder
<1>9. t \in Seq(Nat) /\ Len(t) = n /\ DOMAIN t = 1..n
  <2>1. \A k \in 1..n : t[k] \in Nat
    BY <1>2, <1>8
  <2>2. QED
    BY <1>1, <1>7, <2>1
<1>10. Ascends(t)
  <2>1. \A k, l \in 1..n : k < l => Kth(S, k) < Kth(S, l)
    BY <1>2, <1>3, KthInOrder
  <2>2. QED
    BY <1>8, <1>9, <2>1 DEF Ascends
<1>11. Range(t) = S
  <2>1. \A p \in S : \E k \in 1..n : t[k] = p
    <3>1. \A p \in S : Rank(S, p) \in 1..n /\ Kth(S, Rank(S, p)) = p
      BY <1>2, <1>3, KthInOrder
    <3>2. QED
      BY <1>8, <3>1
  <2>2. QED
    BY <1>8, <1>9, <2>1 DEF Range
<1>12. QED
  BY <1>9, <1>10, <1>11 DEF t, S, n

LEMMA FilteredIs ==
  ASSUME NEW t \in Seq(Nat), Ascends(t), NEW P, P \subseteq 1..Len(t)
  PROVE  /\ Ring!Filtered(t, P) \in Seq(Nat) /\ Ascends(Ring!Filtered(t, P))
         /\ Range(Ring!Filtered(t, P)) = {t[i] : i \in P}
<1> DEFINE m == Cardinality(P)
           u == Ring!Filtered(t, P)
<1>1. Len(t) \in Nat /\ \A i \in 1..Len(t) : t[i] \in Nat
  BY LenProperties, ElementOfSeq
<1>2. P \subseteq Nat /\ IsFiniteSet(P)
  <2>1. IsFiniteSet(1..Len(t)) /\ P \in SUBSET (1..Len(t))
    BY <1>1, FS_Interval
  <2>2. IsFiniteSet(P)
    BY <2>1, FS_Subset
  <2>3. P \subseteq Nat
    BY <1>1
  <2>4. QED
    BY <2>2, <2>3
<1>3. m \in Nat
  BY <1>2, FS_CardinalityType
<1>4. u = [k \in 1..m |-> t[Kth(P, k)]]
  <2>1. u = [k \in 1..m |-> t[CHOOSE i \in P : Cardinality({j \in P : j <= i}) = k]]
    BY RingWords, Zenon DEF m
  <2>2. QED
    BY <2>1, Zenon DEF Kth, Rank, UpTo
<1> HIDE DEF u, m
<1>5. \A k \in 1..m : Kth(P, k) \in P /\ u[k] = t[Kth(P, k)]
  BY <1>2, <1>4, KthInOrder DEF m
<1>6. u \in Seq(Nat) /\ Len(u) = m /\ DOMAIN u = 1..m
  <2>1. \A k \in 1..m : u[k] \in Nat
    BY <1>1, <1>5
  <2>2. QED
    BY <1>3, <1>4, <2>1
<1>7. Ascends(u)
  <2>1. ASSUME NEW k \in 1..m, NEW l \in 1..m, k < l
        PROVE  u[k] < u[l]
    <3>1. Kth(P, k) \in 1..Len(t) /\ Kth(P, l) \in 1..Len(t)
      BY <1>5
    <3>2. Kth(P, k) < Kth(P, l)
      BY <1>2, <2>1, KthInOrder DEF m
    <3>3. t[Kth(P, k)] < t[Kth(P, l)]
      BY <3>1, <3>2 DEF Ascends
    <3>4. QED
      BY <1>5, <3>3
  <2>2. QED
    BY <1>6, <2>1 DEF Ascends
<1>8. Range(u) = {t[i] : i \in P}
  <2>1. \A i \in P : \E k \in 1..m : u[k] = t[i]
    <3>1. \A i \in P : Rank(P, i) \in 1..m /\ Kth(P, Rank(P, i)) = i
      BY <1>2, KthInOrder DEF m
    <3>2. QED
      BY <1>5, <3>1
  <2>2. QED
    <3>1. \A x \in Range(u) : \E k \in 1..m : x = u[k]
      BY <1>6 DEF Range
    <3>2. \A k \in 1..m : u[k] \in Range(u)
      BY <1>6 DEF Range
    <3>3. \A x \in Range(u) : \E i \in P : x = t[i]
      BY <1>5, <3>1
    <3>4. \A i \in P : t[i] \in Range(u)
      BY <2>1, <3>2
    <3>5. QED
      BY <3>3, <3>4
<1>9. QED
  BY <1>6, <1>7, <1>8 DEF u

-----------------------------------------------------------------------------
(* The binary search between two ends stops at the first key that is not    *)
(* behind h, or just after the last.                                        *)
Stops(keys, h, l, r, m) ==
    /\ m \in l..(r + 1) /\ \A k \in l..(m - 1) : keys[k + 1] < h
    /\ m = r + 1 \/ keys[m + 1] >= h
Low(keys, h, l, r) == IF l > r THEN l ELSE CHOOSE m \in Nat : Stops(keys, h, l, r, m)
Window(keys, l, r) == l \in 0..Len(keys) /\ r \in (-1)..(Len(keys) - 1)

LEMMA KeysAre ==
  ASSUME NEW keys \in Seq(Nat)
  PROVE  Len(keys) \in Nat /\ \A k \in 0..(Len(keys) - 1) : keys[k + 1] \in Nat
<1>1. Len(keys) \in Nat /\ \A k \in 1..Len(keys) : keys[k] \in Nat
  BY LenProperties, ElementOfSeq
<1>2. \A k \in 0..(Len(keys) - 1) : k + 1 \in 1..Len(keys)
  BY <1>1
<1>3. QED
  BY <1>1, <1>2

LEMMA StopsOnce ==
  ASSUME NEW keys \in Seq(Nat), NEW h \in Nat, NEW l, NEW r, Window(keys, l, r),
         NEW m, NEW n, Stops(keys, h, l, r, m), Stops(keys, h, l, r, n)
  PROVE  m = n
<1>1. /\ Len(keys) \in Nat /\ l \in Nat /\ r \in Int /\ r < Len(keys)
      /\ m \in Nat /\ n \in Nat /\ m <= r + 1 /\ n <= r + 1 /\ l <= m /\ l <= n
  BY KeysAre DEF Window, Stops
<1>2. ASSUME NEW a \in Nat, NEW b \in Nat, Stops(keys, h, l, r, a), Stops(keys, h, l, r, b), a < b
      PROVE  FALSE
  <2>1. l <= a /\ b <= r + 1 /\ a # r + 1
    BY <1>1, <1>2 DEF Stops
  <2>2. a \in l..(b - 1) /\ a \in 0..(Len(keys) - 1)
    BY <1>1, <1>2, <2>1
  <2>3. keys[a + 1] < h /\ keys[a + 1] >= h /\ keys[a + 1] \in Nat
    BY <1>2, <2>1, <2>2, KeysAre DEF Stops
  <2>4. QED
    BY <2>3
<1>3. ~(m < n) /\ ~(n < m)
  BY <1>1, <1>2
<1>4. QED
  BY <1>1, <1>3

LEMMA LowStops ==
  ASSUME NEW keys \in Seq(Nat), NEW h \in Nat, NEW l, NEW r, Window(keys, l, r), l <= r + 1
  PROVE  Low(keys, h, l, r) \in Nat /\ Stops(keys, h, l, r, Low(keys, h, l, r))
<1>1. /\ Len(keys) \in Nat /\ l \in Nat /\ r \in Int /\ r < Len(keys) /\ l <= r + 1
      /\ r + 1 \in Nat
  BY KeysAre DEF Window
<1>2. CASE l > r
  <2>1. l = r + 1 /\ l \in l..(r + 1) /\ l..(l - 1) = {}
    BY <1>1, <1>2
  <2>2. QED
    BY <1>1, <1>2, <2>1 DEF Low, Stops
<1>3. CASE ~(l > r)
  <2> DEFINE M == {m \in l..(r + 1) : m = r + 1 \/ keys[m + 1] >= h}
  <2>1. M \subseteq Nat /\ r + 1 \in M
    BY <1>1
  <2>2. PICK m \in M : \A k \in M : m <= k
    BY <2>1, FirstOf
  <2>3. m \in Nat
    BY <2>1
  <2>4. ASSUME NEW k \in l..(m - 1)
        PROVE  keys[k + 1] < h
    <3>1. k \in Nat /\ k < m /\ k \in l..(r + 1) /\ k \in 0..(Len(keys) - 1)
      BY <1>1, <2>3
    <3>2. k \notin M
      BY <2>2, <2>3, <3>1
    <3>3. ~(keys[k + 1] >= h) /\ keys[k + 1] \in Nat
      BY <3>1, <3>2, KeysAre
    <3>4. QED
      BY <3>3
  <2>5. Stops(keys, h, l, r, m)
    BY <2>4 DEF Stops
  <2>6. QED
    BY <1>3, <2>3, <2>5 DEF Low
<1>4. QED
  BY <1>2, <1>3

(* Half the window is enough.                                               *)
LEMMA LowHalves ==
  ASSUME NEW keys \in Seq(Nat), Ascends(keys), NEW h \in Nat, NEW l, NEW r,
         Window(keys, l, r), l <= r, NEW mid, mid = (l + r) \div 2
  PROVE  /\ Window(keys, l, mid - 1) /\ Window(keys, mid + 1, r) /\ mid \in l..r
         /\ keys[mid + 1] >= h => Low(keys, h, l, r) = Low(keys, h, l, mid - 1)
         /\ ~(keys[mid + 1] >= h) => Low(keys, h, l, r) = Low(keys, h, mid + 1, r)
<1>1. Len(keys) \in Nat /\ l \in Nat /\ r \in Nat /\ l <= r /\ r < Len(keys)
  BY KeysAre DEF Window
<1>2. mid \in Nat /\ l <= mid /\ mid <= r
  BY <1>1
<1>3. Window(keys, l, mid - 1) /\ Window(keys, mid + 1, r) /\ mid \in l..r
  BY <1>1, <1>2 DEF Window
<1>4. l <= (mid - 1) + 1 /\ mid + 1 <= r + 1 /\ l <= r + 1 /\ mid \in 0..(Len(keys) - 1)
  BY <1>1, <1>2
<1>5. keys[mid + 1] \in Nat
  BY <1>4, KeysAre
<1>6. Stops(keys, h, l, r, Low(keys, h, l, r))
  BY <1>4, LowStops
<1>7. ASSUME keys[mid + 1] >= h
      PROVE  Low(keys, h, l, r) = Low(keys, h, l, mid - 1)
  <2>1. PICK m : m = Low(keys, h, l, mid - 1)
    OBVIOUS
  <2>2. m \in Nat /\ Stops(keys, h, l, mid - 1, m)
    BY <1>3, <1>4, <2>1, LowStops
  <2>3. (mid - 1) + 1 = mid /\ m \in l..(r + 1)
    BY <1>1, <1>2, <2>2 DEF Stops
  <2>4. Stops(keys, h, l, r, m)
    BY <1>7, <2>2, <2>3 DEF Stops
  <2>5. QED
    BY <1>6, <2>1, <2>4, StopsOnce
<1>8. ASSUME ~(keys[mid + 1] >= h)
      PROVE  Low(keys, h, l, r) = Low(keys, h, mid + 1, r)
  <2>1. PICK m : m = Low(keys, h, mid + 1, r)
    OBVIOUS
  <2>2. m \in Nat /\ Stops(keys, h, mid + 1, r, m)
    BY <1>3, <1>4, <2>1, LowStops
  <2>3. m \in l..(r + 1) /\ m <= r + 1
    BY <1>1, <1>2, <2>2 DEF Stops
  <2>4. ASSUME NEW k \in l..(m - 1)
        PROVE  keys[k + 1] < h
    <3>1. k \in Nat /\ k \in 0..(Len(keys) - 1)
      BY <1>1, <2>2, <2>3
    <3>2. CASE k \in (mid + 1)..(m - 1)
      BY <2>2, <3>2 DEF Stops
    <3>3. CASE k \notin (mid + 1)..(m - 1)
      <4>1. k <= mid
        BY <1>1, <1>2, <2>2, <3>1, <3>3
      <4>2. keys[k + 1] \in Nat
        BY <3>1, KeysAre
      <4>3. k = mid \/ keys[k + 1] < keys[mid + 1]
        <5>1. k # mid => k + 1 \in 1..Len(keys) /\ mid + 1 \in 1..Len(keys) /\ k + 1 < mid + 1
          BY <1>1, <1>2, <3>1, <4>1
        <5>2. QED
          BY <5>1 DEF Ascends
      <4>4. QED
        BY <1>5, <1>8, <4>2, <4>3
    <3>4. QED
      BY <3>2, <3>3
  <2>5. Stops(keys, h, l, r, m)
    BY <2>2, <2>3, <2>4 DEF Stops
  <2>6. QED
    BY <1>6, <2>1, <2>5, StopsOnce
<1>9. QED
  BY <1>3, <1>7, <1>8

(* The recursion on windows has one solution, so it computes where the      *)
(* search stops.                                                            *)
LEMMA SearchIs ==
  ASSUME NEW keys \in Seq(Nat), Ascends(keys), NEW h \in Nat
  PROVE  /\ Ring!Search(keys, h) \in Nat
         /\ Stops(keys, h, 0, Len(keys) - 1, Ring!Search(keys, h))
<1> DEFINE n == Len(keys)
           D == (0..n) \X ((-1)..(n - 1))
           half(e) == (e[1] + e[2]) \div 2
           step(f) == [e \in D |-> IF e[1] > e[2] THEN e[1]
                                   ELSE IF keys[half(e) + 1] >= h THEN f[<<e[1], half(e) - 1>>]
                                   ELSE f[<<half(e) + 1, e[2]>>]]
           G == [e \in D |-> Low(keys, h, e[1], e[2])]
           F == CHOOSE f : f = step(f)
<1>1. n \in Nat
  BY KeysAre
<1>2. \A e \in D : /\ e[1] \in 0..n /\ e[2] \in (-1)..(n - 1) /\ e = <<e[1], e[2]>>
                   /\ Window(keys, e[1], e[2])
  BY DEF Window
<1>3. ASSUME NEW e \in D, ~(e[1] > e[2])
      PROVE  /\ <<e[1], half(e) - 1>> \in D /\ <<half(e) + 1, e[2]>> \in D /\ half(e) \in e[1]..e[2]
             /\ keys[half(e) + 1] >= h => G[e] = G[<<e[1], half(e) - 1>>]
             /\ ~(keys[half(e) + 1] >= h) => G[e] = G[<<half(e) + 1, e[2]>>]
  <2>1. PICK l, r, mid : l = e[1] /\ r = e[2] /\ mid = half(e)
    OBVIOUS
  <2>2. Window(keys, l, r) /\ l <= r /\ mid = (l + r) \div 2
    BY <1>1, <1>2, <1>3, <2>1
  <2>3. /\ Window(keys, l, mid - 1) /\ Window(keys, mid + 1, r) /\ mid \in l..r
        /\ keys[mid + 1] >= h => Low(keys, h, l, r) = Low(keys, h, l, mid - 1)
        /\ ~(keys[mid + 1] >= h) => Low(keys, h, l, r) = Low(keys, h, mid + 1, r)
    BY <2>2, LowHalves
  <2>4. <<l, mid - 1>> \in D /\ <<mid + 1, r>> \in D
    BY <2>3 DEF Window
  <2>5. G[<<l, mid - 1>>] = Low(keys, h, l, mid - 1) /\ G[<<mid + 1, r>>] = Low(keys, h, mid + 1, r)
    BY <2>4
  <2>6. G[e] = Low(keys, h, l, r)
    BY <2>1
  <2> HIDE DEF G, D, half
  <2>7. QED
    BY <2>1, <2>3, <2>4, <2>5, <2>6
<1>4. \A e \in D : e[1] > e[2] => G[e] = e[1]
  BY DEF Low
<1>5. G = step(G)
  <2>1. \A e \in D : G[e] = IF e[1] > e[2] THEN e[1]
                            ELSE IF keys[half(e) + 1] >= h THEN G[<<e[1], half(e) - 1>>]
                            ELSE G[<<half(e) + 1, e[2]>>]
    <3> HIDE DEF G, D, half
    <3>1. QED
      BY <1>3, <1>4
  <2>2. G = [e \in D |-> G[e]]
    OBVIOUS
  <2> HIDE DEF G, D, half
  <2>3. QED
    BY <2>1, <2>2, Zenon
<1>6. F = step(F)
  <2> HIDE DEF G
  <2>1. \E f : f = step(f)
    BY <1>5, Zenon
  <2>2. QED
    BY <2>1, Zenon
<1>7. \A e \in D : F[e] = G[e]
  <2> DEFINE wide(e) == (e[2] - e[1]) + (n + 1)
             M == {d \in Nat : \E e \in D : d = wide(e) /\ F[e] # G[e]}
  <2> HIDE DEF F, G
  <2>1. \A e \in D : wide(e) \in Nat
    BY <1>1, <1>2
  <2>2. SUFFICES ASSUME NEW x \in D, F[x] # G[x]
                 PROVE  FALSE
    OBVIOUS
  <2>3. M \subseteq Nat /\ M # {}
    BY <2>1, <2>2
  <2>4. PICK d \in M : \A y \in M : d <= y
    BY <2>3, FirstOf
  <2>5. PICK e \in D : d = wide(e) /\ F[e] # G[e]
    OBVIOUS
  <2>6. ASSUME NEW a \in D, wide(a) < wide(e)
        PROVE  F[a] = G[a]
    <3>1. PICK w : w = wide(a)
      OBVIOUS
    <3>2. w \in Nat /\ d \in Nat /\ w < d
      BY <2>1, <2>5, <2>6, <3>1
    <3>3. ~(d <= w)
      BY <3>2
    <3>4. w \notin M
      BY <2>4, <3>3
    <3>5. QED
      BY <3>1, <3>2, <3>4
  <2> HIDE DEF M
  <2>7. F[e] = IF e[1] > e[2] THEN e[1]
               ELSE IF keys[half(e) + 1] >= h THEN F[<<e[1], half(e) - 1>>]
               ELSE F[<<half(e) + 1, e[2]>>]
    <3> HIDE DEF D, half
    <3>1. QED
      BY <1>6, Zenon
  <2>8. CASE e[1] > e[2]
    BY <1>4, <2>5, <2>7, <2>8
  <2>9. CASE ~(e[1] > e[2])
    <3>1. PICK l, r, mid : l = e[1] /\ r = e[2] /\ mid = half(e)
      OBVIOUS
    <3>2. l \in Int /\ r \in Int /\ mid \in l..r
      <4>1. e[1] \in Int /\ e[2] \in Int
        BY <1>1, <1>2
      <4> HIDE DEF D, half
      <4>2. QED
        BY <1>3, <2>9, <3>1, <4>1
    <3>3. <<l, mid - 1>> \in D /\ <<mid + 1, r>> \in D
      BY <1>3, <2>9, <3>1
    <3>4. wide(<<l, mid - 1>>) < wide(e) /\ wide(<<mid + 1, r>>) < wide(e)
      <4>1. /\ wide(<<l, mid - 1>>) = ((mid - 1) - l) + (n + 1)
            /\ wide(<<mid + 1, r>>) = (r - (mid + 1)) + (n + 1)
            /\ wide(e) = (r - l) + (n + 1)
        BY <3>1
      <4>2. /\ ((mid - 1) - l) + (n + 1) < (r - l) + (n + 1)
            /\ (r - (mid + 1)) + (n + 1) < (r - l) + (n + 1)
        BY <1>1, <3>2
      <4> HIDE DEF wide
      <4>3. QED
        BY <4>1, <4>2
    <3>5. F[<<l, mid - 1>>] = G[<<l, mid - 1>>] /\ F[<<mid + 1, r>>] = G[<<mid + 1, r>>]
      BY <2>6, <3>3, <3>4
    <3> HIDE DEF D, half
    <3>6. QED
      BY <1>3, <2>5, <2>7, <2>9, <3>1, <3>5
  <2>10. QED
    BY <2>8, <2>9
<1>8. Ring!Search(keys, h) = F[<<0, n - 1>>]
  BY Zenon DEF Ring!Search, Ring!AtOrAhead
<1>9. <<0, n - 1>> \in D /\ Window(keys, 0, n - 1) /\ 0 <= (n - 1) + 1
  BY <1>1 DEF Window
<1>10. Ring!Search(keys, h) = Low(keys, h, 0, n - 1)
  <2> HIDE DEF F
  <2>1. G[<<0, n - 1>>] = Low(keys, h, 0, n - 1)
    BY <1>9
  <2>2. QED
    BY <1>7, <1>8, <1>9, <2>1
<1>11. QED
  BY <1>9, <1>10, LowStops

(* A sequence of different elements loses just the one at the place.        *)
LEMMA RemovedFrom ==
  ASSUME NEW A, NEW s \in Seq(A), IsInjective(s), NEW p \in 1..Len(s)
  PROVE  /\ RemoveAt(s, p) \in Seq(A) /\ IsInjective(RemoveAt(s, p))
         /\ Range(RemoveAt(s, p)) = Range(s) \ {s[p]}
<1> DEFINE n == Len(s) - 1
           at(i) == IF i < p THEN i ELSE i + 1
<1>1. PICK r : r = RemoveAt(s, p)
  OBVIOUS
<1>2. r = [i \in 1..n |-> IF i < p THEN s[i] ELSE s[i + 1]]
  BY <1>1, RemoveAtIs
<1>3. Len(s) \in Nat /\ p \in Nat /\ n \in Nat /\ 1 <= p /\ p <= Len(s) /\ DOMAIN s = 1..Len(s)
  BY LenProperties
<1>4. \A i \in 1..n : at(i) \in 1..Len(s) /\ at(i) # p /\ r[i] = s[at(i)]
  BY <1>2, <1>3
<1>5. \A i \in 1..Len(s) : s[i] \in A
  BY ElementOfSeq
<1>6. r \in Seq(A) /\ DOMAIN r = 1..n
  <2>1. \A i \in 1..n : r[i] \in A
    BY <1>4, <1>5
  <2>2. QED
    BY <1>2, <1>3, <2>1
<1>7. IsInjective(r)
  <2>1. ASSUME NEW i \in 1..n, NEW j \in 1..n, r[i] = r[j]
        PROVE  i = j
    <3>1. at(i) = at(j)
      BY <1>3, <1>4, <2>1 DEF IsInjective
    <3>2. QED
      BY <1>3, <3>1
  <2>2. QED
    BY <1>6, <2>1 DEF IsInjective
<1>8. Range(r) = Range(s) \ {s[p]}
  <2>1. ASSUME NEW x \in Range(r)
        PROVE  x \in Range(s) \ {s[p]}
    <3>1. PICK i \in 1..n : x = r[i]
      BY <1>6 DEF Range
    <3>2. at(i) \in 1..Len(s) /\ at(i) # p /\ x = s[at(i)]
      BY <1>4, <3>1
    <3>3. QED
      BY <1>3, <3>2 DEF Range, IsInjective
  <2>2. ASSUME NEW x \in Range(s), x # s[p]
        PROVE  x \in Range(r)
    <3>1. PICK i \in 1..Len(s) : x = s[i]
      BY <1>3 DEF Range
    <3>2. \E j \in 1..n : at(j) = i
      <4>1. i # p
        BY <2>2, <3>1
      <4>2. CASE i < p
        BY <1>3, <4>1, <4>2
      <4>3. CASE i > p
        <5>1. i - 1 \in 1..n /\ ~(i - 1 < p) /\ (i - 1) + 1 = i
          BY <1>3, <4>3
        <5>2. QED
          BY <5>1
      <4>4. QED
        BY <1>3, <4>1, <4>2, <4>3
    <3>3. PICK j \in 1..n : at(j) = i
      BY <3>2
    <3>4. QED
      BY <1>4, <1>6, <3>1, <3>3 DEF Range
  <2>3. QED
    BY <2>1, <2>2
<1>9. QED
  BY <1>1, <1>6, <1>7, <1>8

-----------------------------------------------------------------------------
(* The ring lists exactly the points of the members, in ascending order,    *)
(* and knows the owner of each.                                             *)
Points(n) == Range(Hashes[n])
PointsOf(S) == UNION {Points(n) : n \in S}

RingInv ==
    /\ nodes \in Seq(Node) /\ IsInjective(nodes) /\ ring.nodes = Range(nodes)
    /\ ring.sortedKeys \in Seq(Nat) /\ Ascends(ring.sortedKeys)
    /\ Range(ring.sortedKeys) = PointsOf(Range(nodes))
    /\ DOMAIN ring.owner = PointsOf(Range(nodes))
    /\ \A n \in Range(nodes) : \A p \in Points(n) : ring.owner[p] = n

LEMMA PointsApart ==
  /\ \A n \in Node : /\ Hashes[n] \in Seq(Nat) /\ IsInjective(Hashes[n])
                     /\ Points(n) \subseteq Nat /\ Points(n) # {}
  /\ \A n, m \in Node : n # m => Points(n) \cap Points(m) = {}
<1>1. ASSUME NEW n \in Node
      PROVE  Hashes[n] \in Seq(Nat) /\ Hashes[n] # <<>>
  BY ClusterAssumption
<1>2. ASSUME NEW n \in Node
      PROVE  Points(n) \subseteq Nat /\ Points(n) # {}
  <2>1. PICK s : s = Hashes[n]
    OBVIOUS
  <2>2. s \in Seq(Nat) /\ s # <<>>
    BY <1>1, <2>1
  <2>3. Len(s) \in Nat /\ DOMAIN s = 1..Len(s) /\ Len(s) # 0
    BY <2>2, LenProperties, EmptySeq
  <2>4. 1 \in DOMAIN s
    BY <2>3
  <2>5. \A i \in DOMAIN s : s[i] \in Nat
    BY <2>2, <2>3, ElementOfSeq
  <2>6. QED
    BY <2>1, <2>4, <2>5 DEF Points, Range
<1>3. ASSUME NEW n \in Node, NEW m \in Node,
             NEW i \in DOMAIN Hashes[n], NEW j \in DOMAIN Hashes[m],
             Hashes[n][i] = Hashes[m][j]
      PROVE  n = m /\ i = j
  <2>1. <<n, i>> = <<m, j>>
    BY <1>3, ClusterAssumption
  <2>2. QED
    BY <2>1
<1>4. \A n \in Node : IsInjective(Hashes[n])
  BY <1>3 DEF IsInjective
<1>5. \A n, m \in Node : n # m => Points(n) \cap Points(m) = {}
  BY <1>3 DEF Points, Range
<1>6. QED
  BY <1>1, <1>2, <1>4, <1>5

LEMMA AscendsOnce ==
  ASSUME NEW t \in Seq(Nat), Ascends(t)
  PROVE  IsInjective(t) /\ \A i \in DOMAIN t : Ring!Deleted(t, i)
<1>1. Len(t) \in Nat /\ DOMAIN t = 1..Len(t) /\ \A i \in 1..Len(t) : t[i] \in Nat
  BY LenProperties, ElementOfSeq
<1>2. ASSUME NEW i \in 1..Len(t), NEW j \in 1..Len(t), i < j
      PROVE  t[i] # t[j]
  <2>1. t[i] < t[j] /\ t[i] \in Nat /\ t[j] \in Nat
    BY <1>1, <1>2 DEF Ascends
  <2>2. QED
    BY <2>1
<1>3. \A i, j \in 1..Len(t) : t[i] = t[j] => i = j
  <2> SUFFICES ASSUME NEW i \in 1..Len(t), NEW j \in 1..Len(t), i # j
               PROVE  t[i] # t[j]
    OBVIOUS
  <2>1. i < j \/ j < i
    BY <1>1
  <2>2. QED
    BY <1>2, <2>1
<1>4. ASSUME NEW i \in 1..Len(t), i # 1
      PROVE  t[i - 1] # t[i]
  <2>1. i - 1 \in 1..Len(t) /\ i - 1 < i
    BY <1>1, <1>4
  <2>2. QED
    BY <1>2, <2>1
<1>5. QED
  BY <1>1, <1>3, <1>4 DEF IsInjective, Ring!Deleted

LEMMA JoinedOnce ==
  ASSUME NEW A, NEW a \in Seq(A), NEW b \in Seq(A), IsInjective(a), IsInjective(b),
         Range(a) \cap Range(b) = {}
  PROVE  IsInjective(a \o b)
<1> DEFINE n == Len(a) + Len(b)
<1>1. PICK c : c = a \o b
  OBVIOUS
<1>2. /\ Len(a) \in Nat /\ Len(b) \in Nat /\ DOMAIN a = 1..Len(a) /\ DOMAIN b = 1..Len(b)
      /\ DOMAIN c = 1..n
      /\ \A i \in 1..n : c[i] = IF i <= Len(a) THEN a[i] ELSE b[i - Len(a)]
  BY <1>1, ConcatProperties, LenProperties
<1>3. ASSUME NEW i \in 1..n
      PROVE  \/ i \in DOMAIN a /\ c[i] = a[i] /\ c[i] \in Range(a)
             \/ i - Len(a) \in DOMAIN b /\ c[i] = b[i - Len(a)] /\ c[i] \in Range(b)
  <2>1. CASE i <= Len(a)
    BY <1>2, <2>1 DEF Range
  <2>2. CASE ~(i <= Len(a))
    <3>1. i - Len(a) \in 1..Len(b)
      BY <1>2, <2>2
    <3>2. QED
      BY <1>2, <2>2, <3>1 DEF Range
  <2>3. QED
    BY <2>1, <2>2
<1>4. ASSUME NEW i \in 1..n, NEW j \in 1..n, c[i] = c[j]
      PROVE  i = j
  <2>1. \/ i \in DOMAIN a /\ j \in DOMAIN a /\ a[i] = a[j]
        \/ i - Len(a) \in DOMAIN b /\ j - Len(a) \in DOMAIN b /\ b[i - Len(a)] = b[j - Len(a)]
    BY <1>3, <1>4
  <2>2. i = j \/ i - Len(a) = j - Len(a)
    BY <2>1 DEF IsInjective
  <2>3. QED
    BY <1>2, <2>2
<1>5. QED
  BY <1>1, <1>2, <1>4 DEF IsInjective

LEMMA AppendedOnce ==
  ASSUME NEW A, NEW s \in Seq(A), IsInjective(s), NEW x \in A, x \notin Range(s)
  PROVE  /\ Append(s, x) \in Seq(A) /\ IsInjective(Append(s, x))
         /\ Range(Append(s, x)) = Range(s) \cup {x}
<1>1. PICK t : t = Append(s, x)
  OBVIOUS
<1>2. /\ t \in Seq(A) /\ Len(s) \in Nat /\ DOMAIN s = 1..Len(s) /\ DOMAIN t = 1..(Len(s) + 1)
      /\ \A i \in 1..Len(s) : t[i] = s[i]
      /\ t[Len(s) + 1] = x
  BY <1>1, AppendProperties, LenProperties
<1>3. \A i \in DOMAIN t : i \in DOMAIN s \/ i = Len(s) + 1
  BY <1>2
<1>4. \A i \in DOMAIN s : t[i] = s[i] /\ t[i] # x /\ i \in DOMAIN t
  BY <1>2 DEF Range
<1>5. IsInjective(t)
  BY <1>2, <1>3, <1>4 DEF IsInjective
<1>6. Len(s) + 1 \in DOMAIN t
  BY <1>2
<1>7. Range(t) = Range(s) \cup {x}
  BY <1>2, <1>3, <1>4, <1>6 DEF Range
<1>8. QED
  BY <1>1, <1>2, <1>5, <1>7

LEMMA AddsRing ==
  ASSUME RingInv, NEW n \in Node, Adds(n)
  PROVE  RingInv'
<1> DEFINE s == ring.sortedKeys \o Hashes[n]
           old == PointsOf(Range(nodes))
<1>1. /\ Hashes[n] \in Seq(Nat) /\ ring.sortedKeys \in Seq(Nat) /\ nodes \in Seq(Node)
      /\ IsInjective(Hashes[n]) /\ IsInjective(ring.sortedKeys) /\ n \notin Range(nodes)
  BY PointsApart, AscendsOnce DEF RingInv, Adds
<1>2. Range(nodes) \subseteq Node
  BY <1>1, RangeOfSeq
<1>3. old \cap Points(n) = {}
  BY <1>1, <1>2, PointsApart DEF PointsOf
<1>4. Range(ring.sortedKeys) = old
  BY DEF RingInv
<1>5. s \in Seq(Nat) /\ Range(s) = old \cup Points(n)
  BY <1>1, <1>4, ConcatProperties, RangeConcatenation DEF Points
<1>6. IsInjective(s)
  <2>1. PICK a, b : a = ring.sortedKeys /\ b = Hashes[n]
    OBVIOUS
  <2>2. a \in Seq(Nat) /\ b \in Seq(Nat) /\ IsInjective(a) /\ IsInjective(b)
        /\ Range(a) \cap Range(b) = {}
    BY <1>1, <1>3, <1>4, <2>1 DEF Points
  <2>3. IsInjective(a \o b)
    BY <2>2, JoinedOnce
  <2>4. QED
    BY <2>1, <2>3
<1>7. ring' = [nodes |-> ring.nodes \cup {n},
               owner |-> [p \in DOMAIN ring.owner \cup Points(n) |->
                            IF p \in Points(n) THEN n ELSE ring.owner[p]],
               sortedKeys |-> Ring!Sorted(s)]
  BY RingWords, Zenon DEF Adds, Ring!addNode, Points
<1>8. /\ ring'.sortedKeys \in Seq(Nat) /\ Ascends(ring'.sortedKeys)
      /\ Range(ring'.sortedKeys) = old \cup Points(n)
  BY <1>5, <1>6, <1>7, SortedIs
<1>9. nodes' \in Seq(Node) /\ IsInjective(nodes') /\ Range(nodes') = Range(nodes) \cup {n}
  BY <1>1, AppendedOnce DEF Adds, RingInv
<1>10. PointsOf(Range(nodes')) = old \cup Points(n)
  BY <1>9 DEF PointsOf
<1>11. ring'.nodes = Range(nodes')
  BY <1>7, <1>9 DEF RingInv
<1>12. DOMAIN ring'.owner = old \cup Points(n)
  BY <1>7 DEF RingInv
<1>13. ASSUME NEW m \in Range(nodes'), NEW p \in Points(m)
       PROVE  ring'.owner[p] = m
  <2>1. p \in old \cup Points(n)
    BY <1>9, <1>10 DEF PointsOf
  <2>2. ring'.owner[p] = IF p \in Points(n) THEN n ELSE ring.owner[p]
    BY <1>7, <2>1 DEF RingInv
  <2>3. CASE m = n
    BY <2>2, <2>3
  <2>4. CASE m # n
    <3>1. m \in Range(nodes) /\ m \in Node
      BY <1>2, <1>9, <2>4
    <3>2. p \notin Points(n) /\ ring.owner[p] = m
      BY <2>4, <3>1, PointsApart DEF RingInv
    <3>3. QED
      BY <2>2, <3>2
  <2>5. QED
    BY <2>3, <2>4
<1>14. QED
  BY <1>8, <1>9, <1>10, <1>11, <1>12, <1>13 DEF RingInv, Ascends, PointsOf, Points

LEMMA RemovesRing ==
  ASSUME RingInv, NEW n \in Range(nodes),
         ring' = Ring!removeNode(ring, n),
         NEW i \in DOMAIN nodes, nodes[i] = n, nodes' = RemoveAt(nodes, i)
  PROVE  RingInv'
<1> DEFINE keys == ring.sortedKeys
           old == PointsOf(Range(nodes))
           mine == {p \in DOMAIN ring.owner : ring.owner[p] = n}
           P == {k \in DOMAIN keys : Ring!Deleted(keys, k) => keys[k] \notin mine}
<1>1. /\ keys \in Seq(Nat) /\ Ascends(keys) /\ Range(keys) = old /\ DOMAIN ring.owner = old
      /\ nodes \in Seq(Node) /\ IsInjective(nodes)
  BY DEF RingInv
<1>2. Range(nodes) \subseteq Node
  BY <1>1, RangeOfSeq
<1>3. mine = Points(n)
  <2>1. ASSUME NEW p \in old
        PROVE  ring.owner[p] = n <=> p \in Points(n)
    <3>1. PICK m \in Range(nodes) : p \in Points(m)
      BY DEF PointsOf
    <3>2. ring.owner[p] = m
      BY <3>1 DEF RingInv
    <3>3. QED
      BY <1>2, <3>1, <3>2, PointsApart
  <2>2. Points(n) \subseteq old
    BY DEF PointsOf
  <2>3. QED
    BY <1>1, <2>1, <2>2
<1>4. P \subseteq 1..Len(keys) /\ DOMAIN keys = 1..Len(keys)
  BY <1>1, LenProperties
<1>5. {keys[k] : k \in P} = old \ Points(n)
  <2>1. P = {k \in DOMAIN keys : keys[k] \notin Points(n)}
    BY <1>1, <1>3, AscendsOnce
  <2>2. old = {keys[k] : k \in DOMAIN keys}
    BY <1>1 DEF Range
  <2> HIDE DEF P, old, keys
  <2>3. QED
    BY <2>1, <2>2
<1>6. ring' = [nodes |-> ring.nodes \ {n},
               owner |-> [p \in DOMAIN ring.owner \ mine |-> ring.owner[p]],
               sortedKeys |-> Ring!Filtered(keys, P)]
  BY Zenon DEF Ring!removeNode
<1>7. /\ ring'.sortedKeys \in Seq(Nat) /\ Ascends(ring'.sortedKeys)
      /\ Range(ring'.sortedKeys) = old \ Points(n)
  <2>1. PICK t : t = Ring!Filtered(keys, P)
    OBVIOUS
  <2> HIDE DEF P, mine, old
  <2>2. t \in Seq(Nat) /\ Ascends(t) /\ Range(t) = {keys[k] : k \in P}
    BY <1>1, <1>4, <2>1, FilteredIs
  <2>3. ring'.sortedKeys = t
    BY <1>6, <2>1
  <2>4. QED
    BY <1>5, <2>2, <2>3
<1>8. nodes' \in Seq(Node) /\ IsInjective(nodes') /\ Range(nodes') = Range(nodes) \ {n}
  <2>1. i \in 1..Len(nodes)
    BY <1>1, LenProperties
  <2>2. QED
    BY <1>1, <2>1, RemovedFrom
<1>9. PointsOf(Range(nodes')) = old \ Points(n)
  BY <1>2, <1>8, PointsApart DEF PointsOf
<1>10. ring'.nodes = Range(nodes')
  BY <1>6, <1>8 DEF RingInv
<1>11. DOMAIN ring'.owner = old \ Points(n)
  BY <1>1, <1>3, <1>6
<1>12. ASSUME NEW m \in Range(nodes'), NEW p \in Points(m)
       PROVE  ring'.owner[p] = m
  <2>1. p \in old \ Points(n) /\ m \in Range(nodes)
    BY <1>8, <1>9 DEF PointsOf
  <2>2. ring'.owner[p] = ring.owner[p]
    BY <1>1, <1>3, <1>6, <2>1
  <2>3. QED
    BY <2>1, <2>2 DEF RingInv
<1>13. QED
  BY <1>7, <1>8, <1>9, <1>10, <1>11, <1>12 DEF RingInv, Ascends, PointsOf, Points

LEMMA NoRing ==
  ASSUME NoCluster
  PROVE  RingInv
<1>1. ring.nodes = {} /\ ring.owner = <<>> /\ ring.sortedKeys = <<>> /\ nodes = <<>>
  BY DEF NoCluster, Ring!EmptyRing
<1>2. PICK e : e = <<>>
  OBVIOUS
<1>3. e \in Seq(Nat) /\ e \in Seq(Node) /\ Len(e) = 0 /\ DOMAIN e = {}
  BY <1>2, EmptySeq, LenProperties
<1>4. Ascends(e) /\ IsInjective(e) /\ Range(e) = {} /\ PointsOf({}) = {}
  BY <1>3 DEF Ascends, IsInjective, Range, PointsOf
<1>5. QED
  BY <1>1, <1>2, <1>3, <1>4 DEF RingInv

LEMMA WrapsAround ==
  ASSUME NEW n \in Nat, n # 0
  PROVE  n % n = 0 /\ \A x \in Nat : x < n => x % n = x
OBVIOUS

LEMMA LeastIsMin ==
  ASSUME NEW S, S \subseteq Nat, NEW p \in S, \A x \in S : p <= x
  PROVE  (CHOOSE x \in S : \A y \in S : x <= y) = p
<1>1. PICK q : q = CHOOSE x \in S : \A y \in S : x <= y
  OBVIOUS
<1>2. q \in S /\ \A y \in S : q <= y
  BY <1>1
<1>3. q \in Nat /\ p \in Nat /\ q <= p /\ p <= q
  BY <1>2
<1>4. q = p
  BY <1>3
<1>5. QED
  BY <1>1, <1>4

LEMMA MembersOf ==
  ASSUME NEW A, NEW s \in Seq(A), s # <<>>
  PROVE  \E x \in A : x \in Range(s)
<1>1. Len(s) \in Nat /\ Len(s) # 0 /\ DOMAIN s = 1..Len(s)
  BY LenProperties, EmptySeq
<1>2. 1 \in DOMAIN s /\ s[1] \in A
  BY <1>1, ElementOfSeq
<1>3. QED
  BY <1>2 DEF Range

(* The point that a key goes to: the least at it or ahead, else the least.  *)
NextPoint(all, h, p) ==
    LET ahead == {x \in all : x >= h}
        places == IF ahead = {} THEN all ELSE ahead
    IN p \in places /\ \A x \in places : p <= x

LEMMA FoundIsNext ==
  ASSUME NEW keys \in Seq(Nat), Ascends(keys), keys # <<>>, NEW h \in Nat
  PROVE  NextPoint(Range(keys), h, keys[(Ring!Search(keys, h) % Len(keys)) + 1])
<1> DEFINE all == Range(keys)
           n == Len(keys)
           found == Ring!Search(keys, h)
           p == keys[(found % n) + 1]
           ahead == {x \in all : x >= h}
           places == IF ahead = {} THEN all ELSE ahead
<1>1. n \in Nat /\ DOMAIN keys = 1..n /\ \A k \in 1..n : keys[k] \in Nat /\ keys[k] \in all
  BY LenProperties, ElementOfSeq DEF Range
<1>2. n # 0
  BY EmptySeq
<1>3. found \in Nat /\ Stops(keys, h, 0, n - 1, found)
  BY SearchIs
<1>4. /\ found <= n /\ \A k \in 0..(found - 1) : keys[k + 1] < h
      /\ found = n \/ keys[found + 1] >= h
  BY <1>1, <1>3 DEF Stops
<1>5. ASSUME NEW x \in all
      PROVE  \E k \in 1..n : x = keys[k]
  BY <1>1 DEF Range
<1>6. ASSUME NEW k \in 1..n, NEW l \in 1..n, k <= l
      PROVE  keys[k] <= keys[l]
  <2>1. keys[k] \in Nat /\ keys[l] \in Nat
    BY <1>1
  <2>2. k = l \/ k < l
    BY <1>6
  <2>3. k = l \/ keys[k] < keys[l]
    BY <2>2 DEF Ascends
  <2>4. QED
    BY <2>1, <2>3
<1>7. ASSUME NEW k \in 1..n, k <= found
      PROVE  ~(keys[k] >= h)
  <2>1. k - 1 \in 0..(found - 1) /\ (k - 1) + 1 = k
    BY <1>1, <1>3, <1>7
  <2>2. keys[k] < h /\ keys[k] \in Nat
    BY <1>1, <1>4, <2>1
  <2>3. QED
    BY <2>2
<1>8. CASE found = n
  <2>1. found % n = 0
    BY <1>1, <1>2, <1>8, WrapsAround
  <2>2. p = keys[1] /\ 1 \in 1..n
    BY <1>1, <1>2, <2>1
  <2>3. \A k \in 1..n : keys[1] <= keys[k] /\ ~(keys[k] >= h)
    BY <1>1, <1>6, <1>7, <1>8, <2>2
  <2>4. ahead = {}
    BY <1>5, <2>3
  <2>5. p \in all /\ \A x \in all : p <= x
    BY <1>1, <1>5, <2>2, <2>3
  <2>6. QED
    BY <2>4, <2>5 DEF NextPoint
<1>9. CASE found # n
  <2>1. found < n /\ found + 1 \in 1..n
    BY <1>1, <1>3, <1>4, <1>9
  <2>2. found % n = found
    BY <1>1, <1>2, <1>3, <2>1, WrapsAround
  <2>3. p = keys[found + 1] /\ p \in ahead
    BY <1>1, <1>4, <1>9, <2>1, <2>2
  <2>4. ASSUME NEW x \in ahead
        PROVE  p <= x
    <3>1. PICK k \in 1..n : x = keys[k]
      BY <1>5
    <3>2. ~(k <= found)
      BY <1>7, <3>1
    <3>3. found + 1 <= k
      BY <1>1, <1>3, <3>2
    <3>4. QED
      BY <1>6, <2>1, <2>3, <3>1, <3>3
  <2>5. QED
    BY <2>3, <2>4 DEF NextPoint
<1>10. QED
  BY <1>8, <1>9

LEMMA ClockwiseIs ==
  ASSUME NEW S, S \subseteq Node, NEW h \in Nat, NEW m \in S, NEW p \in Points(m),
         NextPoint(PointsOf(S), h, p)
  PROVE  Ring!Clockwise(Hashes, S, h) = m
<1> DEFINE all == PointsOf(S)
           ahead == {x \in all : x >= h}
           places == IF ahead = {} THEN all ELSE ahead
<1>1. Ring!Clockwise(Hashes, S, h)
        = IF S = {} THEN NoNode ELSE CHOOSE x \in S : Ring!Min(places) \in Points(x)
  BY Zenon DEF Ring!Clockwise, PointsOf, Points, Ring!Range, Range
<1>2. p \in places /\ \A x \in places : p <= x
  BY DEF NextPoint
<1>3. \A x \in all : x \in Nat
  BY PointsApart DEF PointsOf
<1>4. \A x \in S : p \in Points(x) <=> x = m
  BY PointsApart
<1> HIDE DEF all
<1>5. places \subseteq Nat
  BY <1>3
<1> HIDE DEF places
<1>6. Ring!Min(places) = p
  BY <1>2, <1>5, LeastIsMin DEF Ring!Min
<1>7. QED
  BY <1>1, <1>4, <1>6

LEMMA RingFinds ==
  ASSUME RingInv, NEW h \in KeyHash
  PROVE  /\ nodes = <<>> => Primary(h) = NoNode
         /\ nodes # <<>> => \E m \in Range(nodes) : \E p \in Points(m) :
                               Primary(h) = m /\ NextPoint(PointsOf(Range(nodes)), h, p)
<1> DEFINE keys == ring.sortedKeys
           all == PointsOf(Range(nodes))
           p == keys[(Ring!Search(keys, h) % Len(keys)) + 1]
<1>1. /\ keys \in Seq(Nat) /\ Ascends(keys) /\ Range(keys) = all /\ DOMAIN ring.owner = all
      /\ nodes \in Seq(Node)
  BY DEF RingInv
<1>2. Range(nodes) \subseteq Node
  BY <1>1, RangeOfSeq
<1>3. h \in Nat
  BY ClusterAssumption
<1>4. Primary(h) = IF all = {} \/ p \notin all THEN NoNode ELSE ring.owner[p]
  BY <1>1, Zenon DEF Primary, Ring!getNode
<1>5. CASE nodes = <<>>
  <2>1. Range(nodes) = {}
    BY <1>5 DEF Range
  <2>2. all = {}
    BY <2>1 DEF PointsOf
  <2>3. QED
    BY <1>4, <1>5, <2>2
<1>6. CASE nodes # <<>>
  <2>1. \E n \in Node : n \in Range(nodes)
    BY <1>1, <1>2, <1>6, MembersOf
  <2>2. all # {}
    BY <2>1, PointsApart DEF PointsOf
  <2>3. keys # <<>>
    BY <1>1, <2>2 DEF Range
  <2>4. NextPoint(all, h, p)
    BY <1>1, <1>3, <2>3, FoundIsNext
  <2>5. p \in all
    BY <2>4 DEF NextPoint
  <2>6. PICK m \in Range(nodes) : p \in Points(m)
    BY <2>5 DEF PointsOf
  <2>7. ring.owner[p] = m
    BY <2>6 DEF RingInv
  <2> HIDE DEF p, all
  <2>8. Primary(h) = m
    BY <1>4, <2>2, <2>5, <2>7
  <2>9. QED
    BY <1>6, <2>4, <2>6, <2>8 DEF all
<1>7. QED
  BY <1>5, <1>6

LEMMA RingRoutes ==
  ASSUME RingInv
  PROVE  RoutesClockwise
<1>1. nodes \in Seq(Node) /\ Range(nodes) \subseteq Node
  BY RangeOfSeq DEF RingInv
<1>2. ASSUME NEW h \in KeyHash
      PROVE  Primary(h) = Ring!Clockwise(Hashes, Range(nodes), h)
  <2>1. CASE nodes = <<>>
    <3>1. Range(nodes) = {}
      BY <2>1 DEF Range
    <3>2. QED
      BY <2>1, <3>1, RingFinds DEF Ring!Clockwise
  <2>2. CASE nodes # <<>>
    <3>1. PICK m \in Range(nodes) : \E p \in Points(m) :
             Primary(h) = m /\ NextPoint(PointsOf(Range(nodes)), h, p)
      BY <2>2, RingFinds
    <3>2. QED
      BY <1>1, <3>1, ClockwiseIs, ClusterAssumption
  <2>3. QED
    BY <2>1, <2>2
<1>3. QED
  BY <1>2 DEF RoutesClockwise

-----------------------------------------------------------------------------
(* Of the elements S of a sequence w without repetition, the first k.       *)
Precedes(w, m, n) == \E i, j \in DOMAIN w : i < j /\ w[i] = m /\ w[j] = n
AheadOf(w, S, n) == {m \in S : Precedes(w, m, n)}
Leading(w, S, k) == {n \in S : Cardinality(AheadOf(w, S, n)) < k}

LEMMA RankedCount ==
  ASSUME NEW P, P \subseteq Nat, IsFiniteSet(P), NEW k \in Nat
  PROVE  /\ IsFiniteSet({i \in P : Rank(P, i) <= k})
         /\ Cardinality({i \in P : Rank(P, i) <= k})
              = IF k <= Cardinality(P) THEN k ELSE Cardinality(P)
<1> DEFINE c == Cardinality(P)
           m == IF k <= c THEN k ELSE c
           R == {i \in P : Rank(P, i) <= k}
           f == [r \in 1..m |-> Kth(P, r)]
<1>1. c \in Nat
  BY FS_CardinalityType
<1>2. m \in Nat /\ \A r \in 1..m : r \in 1..c /\ r <= k
  BY <1>1
<1>3. \A r \in 1..m : Kth(P, r) \in P /\ Rank(P, Kth(P, r)) = r
  BY <1>2, KthInOrder
<1>4. \A i \in R : Rank(P, i) \in 1..c /\ Rank(P, i) <= k /\ Kth(P, Rank(P, i)) = i
  BY KthInOrder
<1>5. \A i \in R : Rank(P, i) \in 1..m
  <2> TAKE i \in R
  <2>1. PICK r : r = Rank(P, i)
    OBVIOUS
  <2>2. r \in 1..c /\ r <= k
    BY <1>4, <2>1
  <2>3. r \in 1..m
    BY <1>1, <2>2
  <2>4. QED
    BY <2>1, <2>3
<1> HIDE DEF m
<1>6. f \in [1..m -> R] /\ \A i \in R : \E r \in 1..m : f[r] = i
  BY <1>2, <1>3, <1>4, <1>5
<1>7. \A r, t \in 1..m : f[r] = f[t] => r = t
  <2> SUFFICES ASSUME NEW r \in 1..m, NEW t \in 1..m, Kth(P, r) = Kth(P, t)
               PROVE  r = t
    OBVIOUS
  <2>1. QED
    BY <1>3
<1>8. f \in Bijection(1..m, R)
  BY <1>6, <1>7, Fun_IsBij
<1>9. IsFiniteSet(1..m) /\ Cardinality(1..m) = m
  BY <1>2, FS_Interval
<1>10. QED
  BY <1>8, <1>9, FS_Bijection DEF ExistsBijection, m

LEMMA LeadingCount ==
  ASSUME NEW A, NEW w \in Seq(A), IsInjective(w), NEW S, S \subseteq Range(w), NEW k \in Nat
  PROVE  /\ IsFiniteSet(S) /\ Cardinality(S) \in Nat
         /\ IsFiniteSet(Leading(w, S, k))
         /\ Cardinality(Leading(w, S, k)) = IF k <= Cardinality(S) THEN k ELSE Cardinality(S)
<1> DEFINE P == {i \in DOMAIN w : w[i] \in S}
           L == Leading(w, S, k)
<1>1. DOMAIN w = 1..Len(w) /\ Len(w) \in Nat
  BY LenProperties
<1>2. IsFiniteSet(S) /\ Cardinality(S) \in Nat /\ Cardinality(P) = Cardinality(S)
  BY PlacesCount
<1>3. P \subseteq Nat /\ IsFiniteSet(P)
  <2>1. IsFiniteSet(1..Len(w)) /\ P \in SUBSET (1..Len(w))
    BY <1>1, FS_Interval
  <2>2. IsFiniteSet(P)
    BY <2>1, FS_Subset
  <2>3. \A i \in P : i \in Nat
    BY <1>1
  <2>4. QED
    BY <2>2, <2>3
<1>4. ASSUME NEW i \in P
      PROVE  w[i] \in L <=> Rank(P, i) <= k
  <2> DEFINE T == AheadOf(w, S, w[i])
             Q == {j \in P : j < i}
  <2>1. \A m : Precedes(w, m, w[i]) <=> \E j \in DOMAIN w : j < i /\ w[j] = m
    BY DEF Precedes, IsInjective
  <2>2. {j \in DOMAIN w : w[j] \in T} = Q
    <3>1. \A j \in DOMAIN w : w[j] \in T <=> w[j] \in S /\ j < i
      BY <2>1 DEF AheadOf, IsInjective
    <3>2. QED
      BY <3>1
  <2>3. T \subseteq Range(w)
    BY DEF AheadOf
  <2>4. Cardinality(Q) = Cardinality(T) /\ Cardinality(T) \in Nat
    BY <2>2, <2>3, PlacesCount
  <2>5. Q \in SUBSET P /\ IsFiniteSet(Q)
    BY <1>3, FS_Subset
  <2>6. UpTo(P, i) = Q \cup {i} /\ i \notin Q
    <3>1. \A j \in P : j \in Nat /\ i \in Nat
      BY <1>3
    <3>2. \A j \in P : (j <= i <=> j < i \/ j = i) /\ ~(i < i)
      BY <3>1
    <3>3. QED
      BY <3>2 DEF UpTo
  <2>7. Rank(P, i) = Cardinality(T) + 1
    <3> HIDE DEF Q, T
    <3>1. Cardinality(Q \cup {i}) = Cardinality(Q) + 1
      BY <2>5, <2>6, FS_AddElement
    <3>2. QED
      BY <2>4, <2>6, <3>1 DEF Rank
  <2>8. w[i] \in L <=> Cardinality(T) < k
    BY DEF Leading
  <2> HIDE DEF T
  <2>9. Cardinality(T) < k <=> Rank(P, i) <= k
    <3>1. PICK t : t = Cardinality(T)
      OBVIOUS
    <3>2. t \in Nat /\ Rank(P, i) = t + 1
      BY <2>4, <2>7, <3>1
    <3>3. t < k <=> t + 1 <= k
      BY <3>2
    <3>4. QED
      BY <3>1, <3>2, <3>3
  <2>10. QED
    BY <2>8, <2>9
<1>5. {i \in DOMAIN w : w[i] \in L} = {i \in P : Rank(P, i) <= k}
  <2>1. \A i \in DOMAIN w : w[i] \in L => i \in P
    BY DEF Leading
  <2> HIDE DEF L
  <2>2. QED
    BY <1>4, <2>1
<1>6. L \subseteq Range(w)
  BY DEF Leading
<1>7. /\ IsFiniteSet(L)
      /\ Cardinality(L) = Cardinality({i \in P : Rank(P, i) <= k})
  <2> HIDE DEF L
  <2>1. QED
    BY <1>5, <1>6, PlacesCount
<1>8. Cardinality(L) = IF k <= Cardinality(P) THEN k ELSE Cardinality(P)
  BY <1>3, <1>7, RankedCount
<1>9. QED
  BY <1>2, <1>7, <1>8

LEMMA AheadOfFewer ==
  ASSUME NEW w, NEW S, NEW T, IsFiniteSet(T), S \subseteq T, NEW n
  PROVE  /\ Cardinality(AheadOf(w, S, n)) \in Nat /\ Cardinality(AheadOf(w, T, n)) \in Nat
         /\ Cardinality(AheadOf(w, S, n)) <= Cardinality(AheadOf(w, T, n))
<1>1. AheadOf(w, T, n) \in SUBSET T
  BY DEF AheadOf
<1>2. AheadOf(w, S, n) \in SUBSET AheadOf(w, T, n)
  BY DEF AheadOf
<1>3. IsFiniteSet(AheadOf(w, T, n))
  BY <1>1, FS_Subset
<1>4. QED
  BY <1>2, <1>3, FS_Subset, FS_CardinalityType

(* Who stays among the fewer stays among the first.                         *)
LEMMA LeadingOfFewer ==
  ASSUME NEW w, NEW S, NEW T, IsFiniteSet(T), S \subseteq T, NEW k \in Nat
  PROVE  Leading(w, T, k) \cap S \subseteq Leading(w, S, k)
<1> SUFFICES ASSUME NEW n \in S, n \in Leading(w, T, k)
             PROVE  n \in Leading(w, S, k)
  OBVIOUS
<1>1. Cardinality(AheadOf(w, T, n)) < k
  BY DEF Leading
<1>2. PICK a, b : a = Cardinality(AheadOf(w, S, n)) /\ b = Cardinality(AheadOf(w, T, n))
  OBVIOUS
<1>3. a \in Nat /\ b \in Nat /\ a <= b /\ b < k
  BY <1>1, <1>2, AheadOfFewer
<1>4. a < k
  BY <1>3
<1>5. QED
  BY <1>2, <1>4 DEF Leading

(* One that comes last changes nothing for the others.                      *)
LEMMA LeadingWithLast ==
  ASSUME NEW w, NEW S, NEW y, \A n \in S : ~Precedes(w, y, n), NEW k
  PROVE  Leading(w, S, k) \subseteq Leading(w, S \cup {y}, k)
<1>1. \A n \in S : AheadOf(w, S \cup {y}, n) = AheadOf(w, S, n)
  BY DEF AheadOf
<1>2. QED
  BY <1>1 DEF Leading

LEMMA LeadingKept ==
  ASSUME NEW w, NEW v, NEW S, \A m, n \in S : Precedes(v, m, n) <=> Precedes(w, m, n), NEW k
  PROVE  Leading(v, S, k) = Leading(w, S, k)
<1>1. \A n \in S : AheadOf(v, S, n) = AheadOf(w, S, n)
  BY DEF AheadOf
<1>2. QED
  BY <1>1 DEF Leading

LEMMA AppendPrecedes ==
  ASSUME NEW A, NEW w \in Seq(A), NEW y \in A, y \notin Range(w)
  PROVE  \A m, n \in Range(w) : /\ Precedes(Append(w, y), m, n) <=> Precedes(w, m, n)
                                /\ ~Precedes(Append(w, y), y, n)
<1>1. PICK v : v = Append(w, y)
  OBVIOUS
<1>2. /\ Len(w) \in Nat /\ DOMAIN w = 1..Len(w) /\ DOMAIN v = 1..(Len(w) + 1)
      /\ \A i \in 1..Len(w) : v[i] = w[i]
      /\ v[Len(w) + 1] = y
  BY <1>1, AppendProperties, LenProperties
<1>3. \A i \in DOMAIN v : v[i] \in Range(w) => i \in DOMAIN w /\ v[i] = w[i]
  <2> TAKE i \in DOMAIN v
  <2>1. i \in DOMAIN w \/ i = Len(w) + 1
    BY <1>2
  <2>2. QED
    BY <1>2, <2>1
<1>4. \A i \in DOMAIN w : i \in DOMAIN v /\ v[i] = w[i]
  BY <1>2
<1>5. \A m, n \in Range(w) : Precedes(v, m, n) <=> Precedes(w, m, n)
  BY <1>3, <1>4 DEF Precedes
<1>6. ASSUME NEW n \in Range(w), Precedes(v, y, n)
      PROVE  FALSE
  <2>1. PICK i, j \in DOMAIN v : i < j /\ v[i] = y /\ v[j] = n
    BY <1>6 DEF Precedes
  <2>2. j \in DOMAIN w
    BY <1>3, <2>1
  <2>3. i \in DOMAIN w
    BY <1>2, <2>1, <2>2
  <2>4. QED
    BY <1>4, <2>1, <2>3 DEF Range
<1>7. QED
  BY <1>1, <1>5, <1>6

LEMMA RemovePrecedes ==
  ASSUME NEW A, NEW w \in Seq(A), IsInjective(w), NEW p \in 1..Len(w)
  PROVE  \A m, n \in Range(w) \ {w[p]} :
            Precedes(RemoveAt(w, p), m, n) <=> Precedes(w, m, n)
<1> DEFINE n == Len(w) - 1
           at(i) == IF i < p THEN i ELSE i + 1
           to(i) == IF i < p THEN i ELSE i - 1
<1>1. PICK v : v = RemoveAt(w, p)
  OBVIOUS
<1>2. v = [i \in 1..n |-> IF i < p THEN w[i] ELSE w[i + 1]]
  BY <1>1, RemoveAtIs
<1>3. Len(w) \in Nat /\ p \in Nat /\ n \in Nat /\ 1 <= p /\ p <= Len(w) /\ DOMAIN w = 1..Len(w)
  BY LenProperties
<1>4. DOMAIN v = 1..n /\ \A i \in 1..n : at(i) \in DOMAIN w /\ v[i] = w[at(i)]
  BY <1>2, <1>3
<1>5. \A i, j \in 1..n : i < j => at(i) < at(j)
  BY <1>3
<1>6. \A i \in 1..Len(w) : i # p => to(i) \in 1..n /\ at(to(i)) = i
  <2> SUFFICES ASSUME NEW i \in 1..Len(w), i # p
               PROVE  to(i) \in 1..n /\ at(to(i)) = i
    OBVIOUS
  <2>1. CASE i < p
    BY <1>3, <2>1
  <2>2. CASE ~(i < p)
    <3>1. p < i
      BY <1>3, <2>2
    <3>2. i - 1 \in 1..n /\ ~(i - 1 < p) /\ (i - 1) + 1 = i
      BY <1>3, <3>1
    <3>3. QED
      BY <2>2, <3>2
  <2>3. QED
    BY <2>1, <2>2
<1>7. \A i, j \in 1..Len(w) : i # p /\ j # p /\ i < j => to(i) < to(j)
  BY <1>3
<1> HIDE DEF at, to
<1>8. ASSUME NEW a \in Range(w) \ {w[p]}, NEW b \in Range(w) \ {w[p]}, Precedes(v, a, b)
      PROVE  Precedes(w, a, b)
  <2>1. PICK i, j \in DOMAIN v : i < j /\ v[i] = a /\ v[j] = b
    BY <1>8 DEF Precedes
  <2>2. at(i) \in DOMAIN w /\ at(j) \in DOMAIN w /\ at(i) < at(j) /\ w[at(i)] = a /\ w[at(j)] = b
    BY <1>4, <1>5, <2>1
  <2>3. QED
    BY <2>2 DEF Precedes
<1>9. ASSUME NEW a \in Range(w) \ {w[p]}, NEW b \in Range(w) \ {w[p]}, Precedes(w, a, b)
      PROVE  Precedes(v, a, b)
  <2>1. PICK i, j \in DOMAIN w : i < j /\ w[i] = a /\ w[j] = b
    BY <1>9 DEF Precedes
  <2>2. i # p /\ j # p
    BY <2>1
  <2>3. /\ to(i) \in 1..n /\ to(j) \in 1..n /\ to(i) < to(j)
        /\ at(to(i)) = i /\ at(to(j)) = j
    BY <1>3, <1>6, <1>7, <2>1, <2>2
  <2>4. v[to(i)] = a /\ v[to(j)] = b
    BY <1>4, <2>1, <2>3
  <2>5. QED
    BY <1>4, <2>3, <2>4 DEF Precedes
<1>10. QED
  BY <1>1, <1>8, <1>9

-----------------------------------------------------------------------------
(* The replicas that primary p gets from the members in w, and what is left *)
(* of them when a node joins or leaves.                                     *)
Picked(w, p) == {p} \cup Leading(w, Range(w) \ {p}, Replicas - 1)

LEMMA FewReplicas ==
  Replicas \in Nat /\ Replicas # 0 /\ Replicas - 1 \in Nat /\ (Replicas - 1) + 1 = Replicas
<1>1. Replicas \in Nat /\ Replicas # 0
  BY ClusterAssumption
<1>2. QED
  BY <1>1

LEMMA AtMostOne ==
  ASSUME NEW X, NEW x, X \subseteq {x}
  PROVE  Cardinality(X) <= 1
<1>1. IsFiniteSet({x}) /\ Cardinality({x}) = 1 /\ X \in SUBSET {x}
  BY FS_Singleton
<1>2. Cardinality(X) <= Cardinality({x})
  BY <1>1, FS_Subset
<1>3. QED
  BY <1>1, <1>2

LEMMA PickedCount ==
  ASSUME NEW w \in Seq(Node), IsInjective(w), NEW p \in Range(w)
  PROVE  /\ IsFiniteSet(Range(w)) /\ Cardinality(Range(w)) = Len(w) /\ Len(w) \in Nat
         /\ IsFiniteSet(Picked(w, p)) /\ Cardinality(Picked(w, p)) \in Nat
         /\ Cardinality(Picked(w, p)) = IF Replicas <= Len(w) THEN Replicas ELSE Len(w)
<1> DEFINE S == Range(w) \ {p}
           k == Replicas - 1
<1>1. Len(w) \in Nat /\ DOMAIN w = 1..Len(w)
  BY LenProperties
<1>2. IsFiniteSet(Range(w)) /\ Cardinality(Range(w)) = Len(w)
  <2>1. {i \in DOMAIN w : w[i] \in Range(w)} = 1..Len(w)
    BY <1>1 DEF Range
  <2>2. IsFiniteSet(Range(w)) /\ Cardinality(Range(w)) = Cardinality(1..Len(w))
    BY <2>1, PlacesCount
  <2>3. QED
    BY <1>1, <2>2, FS_Interval
<1>3. Cardinality(S) = Len(w) - 1
  BY <1>2, FS_RemoveElement
<1>4. /\ IsFiniteSet(Leading(w, S, k))
      /\ Cardinality(Leading(w, S, k)) = IF k <= Cardinality(S) THEN k ELSE Cardinality(S)
      /\ Cardinality(S) \in Nat
  BY FewReplicas, LeadingCount
<1>5. p \notin Leading(w, S, k)
  BY DEF Leading
<1>6. IsFiniteSet(Picked(w, p)) /\ Cardinality(Picked(w, p)) = Cardinality(Leading(w, S, k)) + 1
  <2>1. PICK L : L = Leading(w, S, k)
    OBVIOUS
  <2>2. Picked(w, p) = L \cup {p} /\ IsFiniteSet(L) /\ p \notin L
    BY <1>4, <1>5, <2>1 DEF Picked
  <2>3. QED
    BY <2>1, <2>2, FS_AddElement
<1>7. PICK c, d, l : c = Cardinality(Picked(w, p)) /\ d = Cardinality(Leading(w, S, k)) /\ l = Len(w)
  OBVIOUS
<1>8. c = d + 1 /\ d = (IF Replicas - 1 <= l - 1 THEN Replicas - 1 ELSE l - 1) /\ l \in Nat
  BY <1>1, <1>3, <1>4, <1>6, <1>7
<1>9. c = IF Replicas <= l THEN Replicas ELSE l
  BY <1>8, FewReplicas
<1>10. c \in Nat
  BY <1>8, <1>9, FewReplicas
<1>11. QED
  BY <1>1, <1>2, <1>6, <1>7, <1>9, <1>10

(* A newcomer that takes the key over pushes out one replica at most.       *)
LEMMA PickedJoin ==
  ASSUME NEW w \in Seq(Node), IsInjective(w), NEW p \in Range(w),
         NEW n \in Node, n \notin Range(w), NEW q \in {p, n}
  PROVE  Cardinality(Picked(w, p) \ Picked(Append(w, n), q)) <= 1
<1> DEFINE k == Replicas - 1
           v == Append(w, n)
           N == Range(w)
<1>1. Range(v) = N \cup {n} /\ k \in Nat
  BY AppendedOnce, FewReplicas
<1>2. \A S : S \subseteq N => Leading(w, S, k) = Leading(v, S, k)
  BY AppendPrecedes, LeadingKept
<1>3. CASE q = p
  <2>1. Range(v) \ {p} = (N \ {p}) \cup {n}
    BY <1>1
  <2>2. \A m \in N \ {p} : ~Precedes(v, n, m)
    BY AppendPrecedes
  <2>3. Leading(v, N \ {p}, k) \subseteq Leading(v, (N \ {p}) \cup {n}, k)
    BY <2>2, LeadingWithLast
  <2>4. Picked(w, p) \subseteq Picked(v, q)
    BY <1>2, <1>3, <2>1, <2>3 DEF Picked
  <2>5. Picked(w, p) \ Picked(v, q) \subseteq {p}
    BY <2>4
  <2>6. QED
    BY <2>5, AtMostOne
<1>4. CASE q = n
  <2>1. Range(v) \ {n} = N
    BY <1>1
  <2>2. PICK X, H : X = Picked(w, p) /\ H = Leading(w, N, k)
    OBVIOUS
  <2>3. Picked(v, q) = {n} \cup H
    BY <1>2, <1>4, <2>1, <2>2 DEF Picked
  <2>4. IsFiniteSet(N) /\ Cardinality(N) = Len(w) /\ Len(w) \in Nat
        /\ IsFiniteSet(X) /\ Cardinality(X) \in Nat
        /\ Cardinality(X) = IF Replicas <= Len(w) THEN Replicas ELSE Len(w)
    BY <2>2, PickedCount
  <2>5. Cardinality(H) = IF k <= Cardinality(N) THEN k ELSE Cardinality(N)
    BY <1>1, <2>2, LeadingCount
  <2>6. H \subseteq X
    <3>1. H \cap (N \ {p}) \subseteq Leading(w, N \ {p}, k)
      BY <1>1, <2>2, <2>4, LeadingOfFewer
    <3>2. H \subseteq N
      BY <2>2 DEF Leading
    <3>3. QED
      BY <2>2, <3>1, <3>2 DEF Picked
  <2>7. X \cap H = H /\ IsFiniteSet(X \ H) /\ Cardinality(X \ H) = Cardinality(X) - Cardinality(H)
    <3>1. X \cap H = H
      BY <2>6
    <3>2. IsFiniteSet(X \ H) /\ Cardinality(X \ H) = Cardinality(X) - Cardinality(X \cap H)
      BY <2>4, FS_Difference
    <3>3. QED
      BY <3>1, <3>2
  <2>8. PICK x, y, l, d : x = Cardinality(X) /\ y = Cardinality(H) /\ l = Len(w) /\ d = Cardinality(X \ H)
    OBVIOUS
  <2>9. /\ l \in Nat /\ x = (IF Replicas <= l THEN Replicas ELSE l)
        /\ y = (IF Replicas - 1 <= l THEN Replicas - 1 ELSE l) /\ d = x - y
    BY <2>4, <2>5, <2>7, <2>8
  <2>10. d <= 1
    BY <2>9, FewReplicas
  <2>11. X \ Picked(v, q) \in SUBSET (X \ H)
    BY <2>3
  <2>12. PICK Y : Y = X \ Picked(v, q)
    OBVIOUS
  <2>13. Cardinality(Y) <= Cardinality(X \ H) /\ IsFiniteSet(Y)
    BY <2>7, <2>11, <2>12, FS_Subset
  <2>14. Cardinality(Y) \in Nat /\ d \in Nat
    BY <2>7, <2>8, <2>13, FS_CardinalityType
  <2>15. Cardinality(Y) <= 1
    BY <2>8, <2>10, <2>13, <2>14
  <2>16. QED
    BY <2>2, <2>12, <2>15
<1>5. QED
  BY <1>3, <1>4

(* Only the node that leaves is lost, whichever member takes the key over.  *)
LEMMA PickedLeave ==
  ASSUME NEW w \in Seq(Node), IsInjective(w), NEW p \in Range(w), NEW i \in 1..Len(w),
         NEW q \in Range(w) \ {w[i]}, p = w[i] \/ q = p
  PROVE  Cardinality(Picked(w, p) \ Picked(RemoveAt(w, i), q)) <= 1
<1> DEFINE k == Replicas - 1
           v == RemoveAt(w, i)
           n == w[i]
           N == Range(w)
<1>1. Range(v) = N \ {n} /\ k \in Nat
  BY RemovedFrom, FewReplicas
<1>2. \A S : S \subseteq N \ {n} => Leading(w, S, k) = Leading(v, S, k)
  BY RemovePrecedes, LeadingKept
<1>3. IsFiniteSet(N \ {p})
  BY PickedCount, FS_RemoveElement
<1>4. Picked(v, q) = {q} \cup Leading(w, (N \ {n}) \ {q}, k)
  BY <1>1, <1>2 DEF Picked
<1>5. (N \ {n}) \ {q} \subseteq N \ {p}
  OBVIOUS
<1>6. Leading(w, N \ {p}, k) \cap ((N \ {n}) \ {q}) \subseteq Leading(w, (N \ {n}) \ {q}, k)
  BY <1>1, <1>3, <1>5, LeadingOfFewer
<1>7. Leading(w, N \ {p}, k) \subseteq N \ {p}
  BY DEF Leading
<1>8. Picked(w, p) \ Picked(v, q) \subseteq {n}
  BY <1>4, <1>6, <1>7 DEF Picked
<1>9. QED
  BY <1>8, AtMostOne

-----------------------------------------------------------------------------
(* Among the members S, m has the point that a key goes to.                 *)
Owner(S, h, m) == m \in S /\ \E p \in Points(m) : NextPoint(PointsOf(S), h, p)

LEMMA OneOwner ==
  ASSUME NEW S, S \subseteq Node, NEW h, NEW m, NEW n, Owner(S, h, m), Owner(S, h, n)
  PROVE  m = n
<1>1. PICK p \in Points(m), q \in Points(n) : NextPoint(PointsOf(S), h, p) /\ NextPoint(PointsOf(S), h, q)
  BY DEF Owner
<1>2. p <= q /\ q <= p
  BY <1>1 DEF NextPoint
<1>3. m \in Node /\ n \in Node
  BY DEF Owner
<1>4. p \in Nat /\ q \in Nat
  BY <1>3, PointsApart
<1>5. p = q
  BY <1>2, <1>4
<1>6. QED
  BY <1>3, <1>5, PointsApart

LEMMA OwnerOfFewer ==
  ASSUME NEW S, NEW T, S \subseteq T, NEW h, NEW m \in S, Owner(T, h, m)
  PROVE  Owner(S, h, m)
<1>1. PICK p \in Points(m) : NextPoint(PointsOf(T), h, p)
  BY DEF Owner
<1>2. p \in PointsOf(S) /\ PointsOf(S) \subseteq PointsOf(T)
  BY DEF PointsOf
<1>3. NextPoint(PointsOf(S), h, p)
  BY <1>1, <1>2 DEF NextPoint
<1>4. QED
  BY <1>3 DEF Owner

PrimaryOwns == nodes # <<>> => \A h \in KeyHash : Owner(Range(nodes), h, Primary(h))

LEMMA RingOwns == RingInv => PrimaryOwns
<1> SUFFICES ASSUME RingInv, nodes # <<>>, NEW h \in KeyHash
             PROVE  Owner(Range(nodes), h, Primary(h))
  BY DEF PrimaryOwns
<1>1. QED
  BY RingFinds DEF Owner

(* Whom a key's place on the ring falls to after one change of membership.  *)
LEMMA PrimaryMoves ==
  ASSUME RingInv, RingInv', NEW n \in Node, Adds(n) \/ Removes(n),
         nodes' # nodes, nodes # <<>>, nodes' # <<>>, NEW h \in KeyHash
  PROVE  Primary(h)' = Primary(h) \/ Primary(h)' \notin Range(nodes) \/ Primary(h) \notin Range(nodes')
<1>1. PICK w, v, p, q : w = nodes /\ v = nodes' /\ p = Primary(h) /\ q = Primary(h)'
  OBVIOUS
<1>2. w \in Seq(Node) /\ IsInjective(w) /\ Range(w) \subseteq Node
  BY <1>1, RangeOfSeq DEF RingInv
<1>3. v \in Seq(Node) /\ Range(v) \subseteq Node
  BY <1>1, RangeOfSeq DEF RingInv
<1>4. Owner(Range(w), h, p)
  BY <1>1, RingOwns DEF PrimaryOwns
<1>5. Owner(Range(v), h, q)
  <2>1. PrimaryOwns'
    BY RingOwns, PTL
  <2>2. QED
    BY <1>1, <2>1 DEF PrimaryOwns, Owner, NextPoint, PointsOf, Points
<1>6. CASE Adds(n)
  <2>1. n \notin Range(w) /\ v = Append(w, n)
    BY <1>1, <1>6 DEF Adds
  <2>2. Range(w) \subseteq Range(v)
    BY <1>2, <2>1, AppendedOnce
  <2>3. ASSUME q \in Range(w)
        PROVE  q = p
    BY <1>2, <1>4, <1>5, <2>2, <2>3, OwnerOfFewer, OneOwner
  <2>4. QED
    BY <1>1, <2>3
<1>7. CASE Removes(n)
  <2>1. PICK i \in DOMAIN w : w[i] = n /\ v = RemoveAt(w, i)
    BY <1>1, <1>7 DEF Removes, cluster
  <2>2. Range(v) \subseteq Range(w)
    <3>1. i \in 1..Len(w)
      BY <1>2, <2>1, LenProperties
    <3>2. QED
      BY <1>2, <2>1, <3>1, RemovedFrom
  <2>3. ASSUME p \in Range(v)
        PROVE  q = p
    BY <1>3, <1>4, <1>5, <2>2, <2>3, OwnerOfFewer, OneOwner
  <2>4. QED
    BY <1>1, <2>3
<1>8. QED
  BY <1>6, <1>7

PickedReplicas == \A h \in KeyHash : ReplicaSet(h) = Picked(nodes, Primary(h))

LEMMA ReplicasPicked == PickedReplicas
BY DEF PickedReplicas, ReplicaSet, Others, First, Earlier, Picked, Leading, AheadOf, Precedes

LEMMA ReplicasKept ==
  ASSUME RingInv, RingInv', NEW n \in Node, Adds(n) \/ Removes(n),
         nodes' # nodes, nodes # <<>>, nodes' # <<>>, NEW h \in KeyHash
  PROVE  /\ Cardinality(ReplicaSet(h)) = Min({Replicas, Len(nodes)})
         /\ Cardinality(ReplicaSet(h) \ ReplicaSet(h)') <= 1
<1>1. PICK w, v, p, q : w = nodes /\ v = nodes' /\ p = Primary(h) /\ q = Primary(h)'
  OBVIOUS
<1>2. ReplicaSet(h) = Picked(w, p)
  BY <1>1, ReplicasPicked DEF PickedReplicas
<1>3. ReplicaSet(h)' = Picked(v, q)
  <2>1. PickedReplicas'
    BY ReplicasPicked, PTL
  <2>2. ReplicaSet(h)' = Picked(nodes', Primary(h)')
    BY <2>1 DEF PickedReplicas, Picked, Leading, AheadOf, Precedes
  <2>3. QED
    BY <1>1, <2>2
<1>4. w \in Seq(Node) /\ IsInjective(w) /\ Range(w) \subseteq Node
  BY <1>1, RangeOfSeq DEF RingInv
<1>5. v \in Seq(Node) /\ Range(v) \subseteq Node
  BY <1>1, RangeOfSeq DEF RingInv
<1>6. Owner(Range(w), h, p)
  BY <1>1, RingOwns DEF PrimaryOwns
<1>7. Owner(Range(v), h, q)
  <2>1. PrimaryOwns'
    BY RingOwns, PTL
  <2>2. QED
    BY <1>1, <2>1 DEF PrimaryOwns, Owner, NextPoint, PointsOf, Points
<1>8. p \in Range(w) /\ q \in Range(v)
  BY <1>6, <1>7 DEF Owner
<1>9. Cardinality(Picked(w, p)) = Min({Replicas, Len(w)})
  <2>1. Len(w) \in Nat /\ Cardinality(Picked(w, p)) = IF Replicas <= Len(w) THEN Replicas ELSE Len(w)
    BY <1>4, <1>8, PickedCount
  <2>2. PICK l, c : l = Len(w) /\ c = IF Replicas <= l THEN Replicas ELSE l
    OBVIOUS
  <2>3. c \in {Replicas, l} /\ {Replicas, l} \subseteq Nat /\ \A x \in {Replicas, l} : c <= x
    BY <2>1, <2>2, FewReplicas
  <2>4. Min({Replicas, l}) = c
    BY <2>3, LeastIsMin DEF Min
  <2>5. QED
    BY <2>1, <2>2, <2>4
<1>10. Cardinality(Picked(w, p) \ Picked(v, q)) <= 1
  <2>1. CASE Adds(n)
    <3>1. n \notin Range(w) /\ v = Append(w, n)
      BY <1>1, <2>1 DEF Adds
    <3>2. Range(v) = Range(w) \cup {n}
      BY <1>4, <3>1, AppendedOnce
    <3>3. q # n => q = p
      BY <1>1, <1>8, <3>2, PrimaryMoves
    <3>4. QED
      BY <1>4, <1>8, <3>1, <3>3, PickedJoin
  <2>2. CASE Removes(n)
    <3>1. PICK i \in DOMAIN w : w[i] = n /\ v = RemoveAt(w, i)
      BY <1>1, <2>2 DEF Removes, cluster
    <3>2. i \in 1..Len(w)
      BY <1>4, LenProperties
    <3>3. Range(v) = Range(w) \ {n}
      BY <1>4, <3>1, <3>2, RemovedFrom
    <3>4. p # n => q = p
      BY <1>1, <1>8, <3>3, PrimaryMoves
    <3>5. q \in Range(w) \ {w[i]} /\ (p = w[i] \/ q = p)
      BY <1>8, <3>1, <3>3, <3>4
    <3>6. QED
      BY <1>4, <1>8, <3>1, <3>2, <3>5, PickedLeave
  <2>3. QED
    BY <2>1, <2>2
<1>11. QED
  BY <1>1, <1>2, <1>3, <1>9, <1>10

-----------------------------------------------------------------------------
(* What the health monitor does to the cluster are joins and leaves.        *)
LEMMA SameRing ==
  /\ Monitor!NoCluster => NoCluster
  /\ \A n : Monitor!Adds(n) => Adds(n)
  /\ \A n : Monitor!Removes(n) => Removes(n)
<1>1. Monitor!NoCluster => NoCluster
  BY DEF Monitor!NoCluster, NoCluster, Monitor!Ring!EmptyRing, Ring!EmptyRing
<1>2. \A r, n, hs : Monitor!Ring!addNode(r, n, hs) = Ring!addNode(r, n, hs)
  <2>1. \A s : Monitor!Ring!Sorted(s) = Ring!Sorted(s)
    BY Zenon DEF Monitor!Ring!Sorted, Ring!Sorted, Monitor!Ring!Range, Ring!Range,
                 Monitor!Ring!Cardinality, Ring!Cardinality,
                 Monitor!Ring!IsFiniteSet, Ring!IsFiniteSet
  <2>2. QED
    BY <2>1, Zenon DEF Monitor!Ring!addNode, Ring!addNode, Monitor!Ring!Range, Ring!Range
<1>3. \A r, n : Monitor!Ring!removeNode(r, n) = Ring!removeNode(r, n)
  <2>1. \A s, places : Monitor!Ring!Filtered(s, places) = Ring!Filtered(s, places)
    BY Zenon DEF Monitor!Ring!Filtered, Ring!Filtered,
                 Monitor!Ring!Cardinality, Ring!Cardinality,
                 Monitor!Ring!IsFiniteSet, Ring!IsFiniteSet
  <2>2. QED
    BY <2>1, Zenon DEF Monitor!Ring!removeNode, Ring!removeNode,
                       Monitor!Ring!Deleted, Ring!Deleted
<1>4. \A n : Monitor!Adds(n) => Adds(n)
  BY <1>2 DEF Monitor!Adds, Adds, Monitor!Range, Range
<1>5. \A n : Monitor!Removes(n) => Removes(n)
  BY <1>3 DEF Monitor!Removes, Removes, Monitor!Range, Range, Monitor!RemoveAt, RemoveAt,
              Monitor!cluster, cluster
<1>6. QED
  BY <1>1, <1>4, <1>5

(* A step of the monitor adds a node, removes one or leaves the ring alone. *)
LEMMA MonitorSteps ==
  ASSUME [Monitor!Next]_Monitor!vars
  PROVE  UNCHANGED cluster \/ \E n \in Node : Adds(n) \/ Removes(n)
<1>1. UNCHANGED Monitor!vars => UNCHANGED cluster
  BY DEF Monitor!vars, Monitor!cluster, cluster
<1>2. ASSUME NEW n \in Node
      PROVE  /\ Monitor!AddNode(n) => Adds(n)
             /\ Monitor!RemoveNode(n) => Removes(n)
             /\ \A s : Monitor!Turns(n, s) => UNCHANGED cluster
  BY SameRing DEF Monitor!AddNode, Monitor!RemoveNode, Monitor!Turns, Monitor!cluster, cluster
<1>3. ASSUME NEW c \in Check
      PROVE  Monitor!StartCheck(c) => UNCHANGED cluster
  BY DEF Monitor!StartCheck, Monitor!cluster, cluster
<1>4. ASSUME NEW c \in Check, NEW n \in Node
      PROVE  Monitor!Ends(c, n) => UNCHANGED cluster \/ Removes(n)
  BY SameRing DEF Monitor!Ends, Monitor!Recovered, Monitor!Missed, Monitor!Hangs,
                  Monitor!cluster, cluster
<1>5. QED
  BY <1>1, <1>2, <1>3, <1>4 DEF Monitor!Next

LEMMA RingInvNext ==
  ASSUME RingInv, [Monitor!Next]_Monitor!vars
  PROVE  RingInv'
<1>1. CASE UNCHANGED cluster
  <2>1. ring' = ring /\ nodes' = nodes
    BY <1>1 DEF cluster
  <2>2. QED
    BY <2>1 DEF RingInv, Ascends, PointsOf, Points
<1>2. ASSUME NEW n \in Node, Adds(n)
      PROVE  RingInv'
  BY <1>2, AddsRing
<1>3. ASSUME NEW n \in Node, Removes(n), ~UNCHANGED cluster
      PROVE  RingInv'
  <2>1. PICK i \in DOMAIN nodes : nodes[i] = n /\ nodes' = RemoveAt(nodes, i)
    BY <1>3 DEF Removes
  <2>2. ring' = Ring!removeNode(ring, n) /\ n \in Range(nodes)
    BY <1>3, <2>1 DEF Removes, Range
  <2>3. QED
    BY <2>1, <2>2, RemovesRing
<1>4. QED
  BY <1>1, <1>2, <1>3, MonitorSteps

LEMMA RingInvAlways == Monitor!Spec => []RingInv
<1>1. Monitor!Init => RingInv
  BY NoRing, SameRing DEF Monitor!Init
<1>2. RingInv /\ [Monitor!Next]_Monitor!vars => RingInv'
  BY RingInvNext
<1>3. QED
  BY <1>1, <1>2, PTL DEF Monitor!Spec

(* A key is routed to its clockwise successor among exactly the members,    *)
(* whoever joined, left or was taken out by the monitor before.             *)
THEOREM RoutesClockwiseHolds == Monitor!Spec => []RoutesClockwise
<1>1. RingInv => RoutesClockwise
  BY RingRoutes
<1>2. QED
  BY <1>1, RingInvAlways, PTL

-----------------------------------------------------------------------------
MonitorTyped ==
    /\ failures \in [Node -> 0..(Threshold - 1)]
    /\ todo \in [Check -> Seq(Node)]
    /\ server \in Monitor!Servers

LEMMA MonitorTypedNext ==
  ASSUME Threshold \in Nat, Threshold # 0, RingInv, MonitorTyped, [Monitor!Next]_Monitor!vars
  PROVE  MonitorTyped'
<1>1. CASE UNCHANGED Monitor!vars
  BY <1>1 DEF MonitorTyped, Monitor!vars
<1>2. ASSUME NEW n \in Node, Monitor!AddNode(n) \/ Monitor!RemoveNode(n)
      PROVE  MonitorTyped'
  BY <1>2 DEF MonitorTyped, Monitor!AddNode, Monitor!RemoveNode
<1>3. ASSUME NEW n \in Node, NEW s \in Monitor!Condition(n), Monitor!Turns(n, s)
      PROVE  MonitorTyped'
  <2>1. server' \in Monitor!Servers
    <3>1. server \in [Node -> {"answers", "down", "closes"}] /\ s \in {"answers", "down", "closes"}
      BY DEF MonitorTyped, Monitor!Servers, Monitor!Condition
    <3>2. \A m \in Node : server[m] \in Monitor!Condition(m)
      BY DEF MonitorTyped, Monitor!Servers
    <3>3. server' = [server EXCEPT ![n] = s]
      BY <1>3 DEF Monitor!Turns
    <3>4. \A m \in Node : server'[m] \in Monitor!Condition(m)
      BY <3>1, <3>2, <3>3
    <3>5. QED
      BY <3>1, <3>3, <3>4 DEF Monitor!Servers
  <2>2. QED
    BY <1>3, <2>1 DEF MonitorTyped, Monitor!Turns
<1>4. ASSUME NEW c \in Check, Monitor!StartCheck(c)
      PROVE  MonitorTyped'
  BY <1>4 DEF MonitorTyped, Monitor!StartCheck, RingInv
<1>5. ASSUME NEW c \in Check, NEW n \in Node, Monitor!Hangs(c, n)
      PROVE  MonitorTyped'
  <2>1. <<>> \in Seq(Node)
    OBVIOUS
  <2>2. QED
    BY <1>5, <2>1 DEF MonitorTyped, Monitor!Hangs
<1>6. ASSUME NEW c \in Check, NEW n \in Node, Monitor!Recovered(c, n) \/ Monitor!Missed(c, n)
      PROVE  MonitorTyped'
  <2>1. Monitor!Moves(c, n)
    BY <1>6 DEF Monitor!Recovered, Monitor!Missed
  <2>2. todo' \in [Check -> Seq(Node)]
    <3>1. todo[c] \in Seq(Node) /\ todo[c] # <<>>
      BY <2>1 DEF MonitorTyped, Monitor!Moves, Monitor!Pings
    <3>2. Tail(todo[c]) \in Seq(Node)
      BY <3>1, HeadTailProperties
    <3>3. QED
      BY <2>1, <3>2 DEF MonitorTyped, Monitor!Moves
  <2>3. failures' \in [Node -> 0..(Threshold - 1)]
    <3>1. CASE Monitor!Recovered(c, n)
      <4>1. 0 \in 0..(Threshold - 1)
        OBVIOUS
      <4>2. QED
        BY <3>1, <4>1 DEF MonitorTyped, Monitor!Recovered
    <3>2. CASE Monitor!Missed(c, n)
      <4>1. failures[n] \in Nat
        BY DEF MonitorTyped
      <4>2. 0 \in 0..(Threshold - 1)
        OBVIOUS
      <4>3. failures[n] + 1 < Threshold => failures[n] + 1 \in 0..(Threshold - 1)
        BY <4>1
      <4>4. QED
        BY <3>2, <4>2, <4>3 DEF MonitorTyped, Monitor!Missed, Monitor!Failed, Monitor!Untracked
    <3>3. QED
      BY <1>6, <3>1, <3>2
  <2>4. QED
    BY <2>1, <2>2, <2>3 DEF MonitorTyped, Monitor!Moves
<1>7. QED
  BY <1>1, <1>2, <1>3, <1>4, <1>5, <1>6 DEF Monitor!Next, Monitor!Ends

LEMMA RingTyped ==
  ASSUME RingInv
  PROVE  Monitor!ClusterTyped
<1>1. Range(nodes) \subseteq Node
  BY RangeOfSeq DEF RingInv
<1>2. \A p \in DOMAIN ring.owner : ring.owner[p] \in Range(nodes)
  <2>1. \A p \in PointsOf(Range(nodes)) : \E n \in Range(nodes) : p \in Points(n)
    BY DEF PointsOf
  <2>2. QED
    BY <2>1 DEF RingInv
<1>3. /\ Monitor!Range(nodes) = Range(nodes) /\ Monitor!IsInjective(nodes) = IsInjective(nodes)
      /\ Monitor!Range(ring.owner) = Range(ring.owner)
      /\ Monitor!Range(ring.sortedKeys) = Range(ring.sortedKeys)
  BY DEF Monitor!Range, Range, Monitor!IsInjective, IsInjective
<1>4. Range(ring.owner) \subseteq Node
  BY <1>1, <1>2 DEF Range
<1>5. QED
  BY <1>1, <1>3, <1>4 DEF Monitor!ClusterTyped, RingInv

(* The cluster and the monitor have their types in every reachable state:   *)
(* no count of missed pings outlives the step in which it reaches the limit. *)
THEOREM ClusterTypeCorrect == Monitor!Spec => []Monitor!TypeOK
<1>0. Threshold \in Nat /\ Threshold # 0
  BY MonitorAssumption DEF Monitor!MonitorAssumption
<1>1. Monitor!Init => MonitorTyped
  <2>1. 0 \in 0..(Threshold - 1) /\ <<>> \in Seq(Node)
    BY <1>0
  <2>2. QED
    BY <2>1 DEF Monitor!Init, MonitorTyped
<1>2. RingInv /\ MonitorTyped /\ [Monitor!Next]_Monitor!vars => MonitorTyped'
  BY <1>0, MonitorTypedNext
<1>3. RingInv /\ MonitorTyped => Monitor!TypeOK
  BY RingTyped DEF MonitorTyped, Monitor!TypeOK
<1>4. QED
  BY <1>1, <1>2, <1>3, RingInvAlways, PTL DEF Monitor!Spec

LEMMA SurvivesNext ==
  ASSUME RingInv, RingInv', [Monitor!Next]_Monitor!vars
  PROVE  [nodes' # nodes /\ nodes # <<>> /\ nodes' # <<>> =>
            \A h \in KeyHash :
               LET before == ReplicaSet(h)
               IN /\ Cardinality(before) = Min({Replicas, Len(nodes)})
                  /\ Cardinality(before \ ReplicaSet(h)') <= 1]_cluster
<1> SUFFICES ASSUME nodes' # nodes, nodes # <<>>, nodes' # <<>>, NEW h \in KeyHash
             PROVE  /\ Cardinality(ReplicaSet(h)) = Min({Replicas, Len(nodes)})
                    /\ Cardinality(ReplicaSet(h) \ ReplicaSet(h)') <= 1
  OBVIOUS
<1>1. PICK n \in Node : Adds(n) \/ Removes(n)
  BY MonitorSteps DEF cluster
<1>2. QED
  BY <1>1, ReplicasKept

(* A change of membership costs a key one of its replicas at most, and it   *)
(* has as many as there are members for.                                    *)
THEOREM ReplicasSurviveHolds == Monitor!Spec => ReplicasSurvive
<1>1. RingInv /\ RingInv' /\ [Monitor!Next]_Monitor!vars =>
         [nodes' # nodes /\ nodes # <<>> /\ nodes' # <<>> =>
            \A h \in KeyHash :
               LET before == ReplicaSet(h)
               IN /\ Cardinality(before) = Min({Replicas, Len(nodes)})
                  /\ Cardinality(before \ ReplicaSet(h)') <= 1]_cluster
  BY SurvivesNext
<1>2. QED
  BY <1>1, RingInvAlways, PTL DEF Monitor!Spec, ReplicasSurvive

LEMMA MovesNext ==
  ASSUME RingInv, RingInv', [Monitor!Next]_Monitor!vars
  PROVE  [\A h \in KeyHash :
            Primary(h)' # Primary(h) =>
              Primary(h) \notin Range(nodes') \/ Primary(h)' \notin Range(nodes)]_cluster
<1> SUFFICES ASSUME ~UNCHANGED cluster, NEW h \in KeyHash, Primary(h)' # Primary(h)
             PROVE  Primary(h) \notin Range(nodes') \/ Primary(h)' \notin Range(nodes)
  OBVIOUS
<1>1. PICK n \in Node : Adds(n) \/ Removes(n)
  BY MonitorSteps
<1>2. CASE nodes = <<>>
  <2>1. Range(nodes) = {}
    BY <1>2 DEF Range
  <2>2. QED
    BY <2>1
<1>3. CASE nodes' = <<>>
  <2>1. Range(nodes') = {}
    BY <1>3 DEF Range
  <2>2. QED
    BY <2>1
<1>4. CASE nodes # <<>> /\ nodes' # <<>>
  <2>1. nodes' # nodes
    <3>1. nodes \in Seq(Node)
      BY DEF RingInv
    <3>2. CASE Adds(n)
      <4>1. nodes' = Append(nodes, n)
        BY <3>2 DEF Adds
      <4>2. QED
        BY <3>1, <4>1, AppendProperties
    <3>3. CASE Removes(n)
      <4>1. PICK i \in DOMAIN nodes : nodes' = RemoveAt(nodes, i)
        BY <3>3 DEF Removes
      <4>2. i \in 1..Len(nodes) /\ IsInjective(nodes)
        BY <3>1, <4>1, LenProperties DEF RingInv
      <4>3. Range(nodes') = Range(nodes) \ {nodes[i]}
        BY <3>1, <4>1, <4>2, RemovedFrom
      <4>4. nodes[i] \in Range(nodes)
        BY <4>1 DEF Range
      <4>5. QED
        BY <4>3, <4>4
    <3>4. QED
      BY <1>1, <3>2, <3>3
  <2>2. QED
    BY <1>1, <1>4, <2>1, PrimaryMoves
<1>5. QED
  BY <1>2, <1>3, <1>4

(* Consistent hashing moves no more than it must: for any nodes, points and *)
(* keys, a key changes its node only if that node left or a node joined     *)
(* that is nearer.                                                          *)
THEOREM OnlyItsKeysMoveHolds == Monitor!Spec => OnlyItsKeysMove
<1>1. RingInv /\ RingInv' /\ [Monitor!Next]_Monitor!vars =>
         [\A h \in KeyHash :
            Primary(h)' # Primary(h) =>
              Primary(h) \notin Range(nodes') \/ Primary(h)' \notin Range(nodes)]_cluster
  BY MovesNext
<1>2. QED
  BY <1>1, RingInvAlways, PTL DEF Monitor!Spec, OnlyItsKeysMove

=============================================================================
