---------------------------- MODULE WaitingProofs ----------------------------
(***************************************************************************)
(* What Insert, Erase and their likes do to a list of waiting threads, and *)
(* what holds of every object whose steps are those of module Waiting, for *)
(* any number of threads and with interruptions and timeouts: the types,   *)
(* the list of waiters and the ownership of the internal locks; without    *)
(* them, how an object that is freed passes to a waiter.                   *)
(***************************************************************************)
EXTENDS Waiting, FiniteSetTheorems, SequenceTheorems, TLAPS

-----------------------------------------------------------------------------
(* Lists: their type, their elements, and that nobody is listed twice. *)

\* No element occurs twice in q.
Distinct(q) == \A i, j \in DOMAIN q : q[i] = q[j] => i = j

\* The place where a list opens for a newcomer lies in or just behind it.
LEMMA InsertPlace ==
  ASSUME NEW S, NEW q \in Seq(S), NEW rank \in [S -> Nat], NEW t \in S
  PROVE  1 + Cardinality({i \in DOMAIN q : rank[q[i]] <= rank[t]})
           \in 1 .. Len(q) + 1
<1> DEFINE Before == {i \in DOMAIN q : rank[q[i]] <= rank[t]}
<1>1. DOMAIN q = 1 .. Len(q) /\ Len(q) \in Nat
  OBVIOUS
<1>2. IsFiniteSet(1 .. Len(q)) /\ Cardinality(1 .. Len(q)) = Len(q)
  <2>1. 1 \in Int /\ Len(q) \in Int
    BY <1>1
  <2>2. IsFiniteSet(1 .. Len(q))
    BY <2>1, FS_Interval, Zenon
  <2>3. Cardinality(1 .. Len(q)) = IF 1 > Len(q) THEN 0 ELSE Len(q) - 1 + 1
    BY <2>1, FS_Interval, Zenon
  <2> QED BY <1>1, <2>2, <2>3
<1>3. Before \subseteq 1 .. Len(q)
  BY <1>1
<1>4. IsFiniteSet(Before) /\ Cardinality(Before) <= Len(q)
  BY <1>2, <1>3, FS_Subset
<1>5. Cardinality(Before) \in Nat
  BY <1>4, FS_CardinalityType
<1> QED
  BY <1>1, <1>4, <1>5

\* A sequence opened at place k for t, index by index.
LEMMA InsertAtIndexed ==
  ASSUME NEW S, NEW q \in Seq(S), NEW t \in S, NEW k \in 1 .. Len(q) + 1
  PROVE  /\ InsertAt(q, k, t) \in Seq(S)
         /\ Len(InsertAt(q, k, t)) = Len(q) + 1
         /\ \A i \in 1 .. Len(q) + 1 :
              InsertAt(q, k, t)[i] =
                IF i < k THEN q[i] ELSE IF i = k THEN t ELSE q[i - 1]
<1> DEFINE front == SubSeq(q, 1, k - 1)
           back  == SubSeq(q, k, Len(q))
           begin == front \o <<t>>
<1>1. /\ front \in Seq(S) /\ Len(front) = k - 1
      /\ \A i \in 1 .. k - 1 : front[i] = q[i]
  OBVIOUS
<1>2. /\ back \in Seq(S) /\ Len(back) = Len(q) - k + 1
      /\ \A i \in 1 .. Len(q) - k + 1 : back[i] = q[k + i - 1]
  OBVIOUS
<1>3. <<t>> \in Seq(S) /\ Len(<<t>>) = 1 /\ <<t>>[1] = t
  OBVIOUS
<1>4. InsertAt(q, k, t) = begin \o back
  BY DEF InsertAt
<1> HIDE DEF front, back
<1>5. /\ begin \in Seq(S) /\ Len(begin) = k
      /\ \A i \in 1 .. k - 1 : begin[i] = q[i]
      /\ begin[k] = t
  BY <1>1, <1>3, ConcatProperties
<1> HIDE DEF begin
<1>6. /\ begin \o back \in Seq(S)
      /\ Len(begin \o back) = Len(q) + 1
      /\ \A i \in 1 .. Len(q) + 1 :
           (begin \o back)[i] = IF i <= k THEN begin[i] ELSE back[i - k]
  BY <1>2, <1>5, ConcatProperties
<1>7. \A i \in 1 .. Len(q) + 1 :
        (begin \o back)[i] =
          IF i < k THEN q[i] ELSE IF i = k THEN t ELSE q[i - 1]
  BY <1>2, <1>5, <1>6
<1> QED
  BY <1>4, <1>6, <1>7

\* insert() lists the newcomer and keeps the others.
LEMMA InsertList ==
  ASSUME NEW S, NEW q \in Seq(S), NEW rank \in [S -> Nat], NEW t \in S
  PROVE  /\ Insert(rank, q, t) \in Seq(S)
         /\ Insert(rank, q, t) # <<>>
         /\ ToSet(Insert(rank, q, t)) = ToSet(q) \cup {t}
         /\ t \notin ToSet(q) /\ Distinct(q) => Distinct(Insert(rank, q, t))
<1> DEFINE k == 1 + Cardinality({i \in DOMAIN q : rank[q[i]] <= rank[t]})
           r == Insert(rank, q, t)
<1>1. k \in 1 .. Len(q) + 1
  BY InsertPlace
<1>2. r = InsertAt(q, k, t)
  BY <1>1 DEF Insert
<1> HIDE DEF k, r
<1>3. /\ r \in Seq(S) /\ Len(r) = Len(q) + 1
      /\ \A i \in 1 .. Len(q) + 1 :
           r[i] = IF i < k THEN q[i] ELSE IF i = k THEN t ELSE q[i - 1]
  <2>1. PICK m \in 1 .. Len(q) + 1 : m = k
    BY <1>1
  <2>2. /\ InsertAt(q, m, t) \in Seq(S)
        /\ Len(InsertAt(q, m, t)) = Len(q) + 1
        /\ \A i \in 1 .. Len(q) + 1 :
             InsertAt(q, m, t)[i] =
               IF i < m THEN q[i] ELSE IF i = m THEN t ELSE q[i - 1]
    BY InsertAtIndexed
  <2> QED BY <1>2, <2>1, <2>2, Zenon
<1>4. Len(q) \in Nat /\ DOMAIN q = 1 .. Len(q) /\ DOMAIN r = 1 .. Len(q) + 1
  BY <1>3
<1>5. r # <<>>
  BY <1>3, <1>4
<1>6. ToSet(r) = ToSet(q) \cup {t}
  <2>1. ASSUME NEW x \in ToSet(r) PROVE x \in ToSet(q) \cup {t}
    <3>1. PICK i \in 1 .. Len(q) + 1 : x = r[i]
      BY <1>4, <2>1 DEF ToSet
    <3>2. CASE i < k
      <4>1. i \in DOMAIN q /\ x = q[i]
        BY <1>1, <1>3, <1>4, <3>1, <3>2
      <4> QED BY <4>1 DEF ToSet
    <3>3. CASE i = k
      BY <1>1, <1>3, <3>1, <3>3
    <3>4. CASE i > k
      <4>1. i - 1 \in DOMAIN q /\ x = q[i - 1]
        BY <1>1, <1>3, <1>4, <3>1, <3>4
      <4> QED BY <4>1 DEF ToSet
    <3> QED BY <1>1, <1>4, <3>1, <3>2, <3>3, <3>4
  <2>2. t \in ToSet(r)
    <3>1. k \in DOMAIN r /\ r[k] = t
      BY <1>1, <1>3, <1>4
    <3> QED BY <3>1 DEF ToSet
  <2>3. ASSUME NEW x \in ToSet(q) PROVE x \in ToSet(r)
    <3>1. PICK i \in 1 .. Len(q) : x = q[i]
      BY <1>4, <2>3 DEF ToSet
    <3>2. CASE i < k
      <4>1. i \in DOMAIN r /\ r[i] = q[i]
        BY <1>1, <1>3, <1>4, <3>1, <3>2, SMTT(30)
      <4> QED BY <3>1, <4>1 DEF ToSet
    <3>3. CASE i >= k
      <4>1. i + 1 \in DOMAIN r /\ r[i + 1] = q[i]
        BY <1>1, <1>3, <1>4, <3>1, <3>3
      <4> QED BY <3>1, <4>1 DEF ToSet
    <3> QED BY <1>1, <3>1, <3>2, <3>3
  <2> QED BY <2>1, <2>2, <2>3
<1>7. t \notin ToSet(q) /\ Distinct(q) => Distinct(r)
  <2>1. SUFFICES ASSUME t \notin ToSet(q), Distinct(q),
                        NEW i \in 1 .. Len(q) + 1, NEW j \in 1 .. Len(q) + 1,
                        r[i] = r[j]
                 PROVE  i = j
    BY <1>4 DEF Distinct
  <2>2. \A m \in 1 .. Len(q) : q[m] # t
    BY <1>4, <2>1 DEF ToSet
  <2>3. \A m, n \in 1 .. Len(q) : q[m] = q[n] => m = n
    BY <1>4, <2>1 DEF Distinct
  <2>4. \A n \in 1 .. Len(q) + 1 : n # k =>
           LET m == IF n < k THEN n ELSE n - 1
           IN  m \in 1 .. Len(q) /\ r[n] = q[m]
    BY <1>1, <1>3, <1>4
  <2>5. r[k] = t
    BY <1>1, <1>3, <1>4
  <2>6. \A n \in 1 .. Len(q) + 1 : n # k => r[n] # t
    BY <2>2, <2>4
  <2>7. CASE i = k \/ j = k
    BY <2>1, <2>5, <2>6, <2>7
  <2>8. CASE i # k /\ j # k
    <3> DEFINE place(n) == IF n < k THEN n ELSE n - 1
    <3>1. /\ place(i) \in 1 .. Len(q) /\ r[i] = q[place(i)]
          /\ place(j) \in 1 .. Len(q) /\ r[j] = q[place(j)]
      BY <2>4, <2>8
    <3>2. place(i) = place(j)
      BY <2>1, <2>3, <3>1
    <3> QED BY <1>1, <1>4, <2>8, <3>2
  <2> QED BY <2>7, <2>8
<1> QED
  BY <1>3, <1>5, <1>6, <1>7 DEF r

\* A list without the thread at place k has the others, each once.
LEMMA RemoveAtList ==
  ASSUME NEW S, NEW q \in Seq(S), NEW k \in 1 .. Len(q), Distinct(q)
  PROVE  /\ RemoveAt(q, k) \in Seq(S)
         /\ ToSet(RemoveAt(q, k)) = ToSet(q) \ {q[k]}
         /\ Distinct(RemoveAt(q, k))
<1> DEFINE r == RemoveAt(q, k)
           t == q[k]
<1>1. Len(q) \in Nat /\ DOMAIN q = 1 .. Len(q)
  OBVIOUS
<1>2. k \in 1 .. Len(q) /\ q[k] = t
  OBVIOUS
<1>5. r = RemoveAt(q, k)
  OBVIOUS
<1> HIDE DEF r, t
<1>6. /\ r \in Seq(S) /\ Len(r) = Len(q) - 1
      /\ \A i \in 1 .. Len(q) - 1 : r[i] = IF i < k THEN q[i] ELSE q[i + 1]
  <2> DEFINE front == SubSeq(q, 1, k - 1)
             back  == SubSeq(q, k + 1, Len(q))
  <2>1. /\ front \in Seq(S) /\ Len(front) = k - 1
        /\ \A i \in 1 .. k - 1 : front[i] = q[i]
    BY <1>1, <1>2
  <2>2. /\ back \in Seq(S) /\ Len(back) = Len(q) - k
        /\ \A i \in 1 .. Len(q) - k : back[i] = q[k + i]
    OBVIOUS
  <2>3. r = front \o back
    BY <1>5 DEF RemoveAt
  <2> HIDE DEF front, back
  <2>4. /\ r \in Seq(S) /\ Len(r) = Len(q) - 1
        /\ \A i \in 1 .. Len(q) - 1 :
             r[i] = IF i <= k - 1 THEN front[i] ELSE back[i - (k - 1)]
    <3>1. /\ front \o back \in Seq(S)
          /\ Len(front \o back) = Len(front) + Len(back)
          /\ \A i \in 1 .. Len(front) + Len(back) :
               (front \o back)[i] =
                 IF i <= Len(front) THEN front[i] ELSE back[i - Len(front)]
      BY <2>1, <2>2, ConcatProperties, Zenon
    <3> QED BY <1>1, <1>2, <2>1, <2>2, <2>3, <3>1
  <2> QED BY <1>1, <1>2, <2>1, <2>2, <2>4
<1>7. DOMAIN r = 1 .. Len(q) - 1
  BY <1>1, <1>6
<1>8. \A m, n \in 1 .. Len(q) : q[m] = q[n] => m = n
  BY <1>1 DEF Distinct
<1>9. ToSet(r) = ToSet(q) \ {t}
  <2>1. ASSUME NEW x \in ToSet(r) PROVE x \in ToSet(q) \ {t}
    <3>1. PICK i \in 1 .. Len(q) - 1 : x = r[i]
      BY <1>7, <2>1 DEF ToSet
    <3>2. \E m \in 1 .. Len(q) : m # k /\ x = q[m]
      BY <1>1, <1>2, <1>6, <3>1
    <3> QED BY <1>1, <1>2, <1>8, <3>2 DEF ToSet
  <2>2. ASSUME NEW x \in ToSet(q) \ {t} PROVE x \in ToSet(r)
    <3>1. PICK m \in 1 .. Len(q) : x = q[m] /\ m # k
      BY <1>1, <1>2, <2>2 DEF ToSet
    <3>2. \E i \in 1 .. Len(q) - 1 : x = r[i]
      <4>1. CASE m < k
        BY <1>1, <1>2, <1>6, <3>1, <4>1
      <4>2. CASE m > k
        <5>1. m - 1 \in 1 .. Len(q) - 1 /\ r[m - 1] = q[m]
          BY <1>1, <1>2, <1>6, <3>1, <4>2
        <5> QED BY <3>1, <5>1
      <4> QED BY <1>1, <1>2, <3>1, <4>1, <4>2
    <3> QED BY <1>7, <3>2 DEF ToSet
  <2> QED BY <2>1, <2>2
<1>10. Distinct(r)
  <2>1. SUFFICES ASSUME NEW i \in 1 .. Len(q) - 1, NEW j \in 1 .. Len(q) - 1,
                        r[i] = r[j]
                 PROVE  i = j
    BY <1>7 DEF Distinct
  <2> QED
    BY <1>1, <1>2, <1>6, <1>8, <2>1
<1> QED
  BY <1>2, <1>6, <1>9, <1>10 DEF r

\* erase() unlists the thread, which was listed once, and nobody else.
LEMMA EraseList ==
  ASSUME NEW S, NEW q \in Seq(S), NEW t \in ToSet(q), Distinct(q)
  PROVE  /\ Erase(q, t) \in Seq(S)
         /\ ToSet(Erase(q, t)) = ToSet(q) \ {t}
         /\ Distinct(Erase(q, t))
<1>1. Len(q) \in Nat /\ DOMAIN q = 1 .. Len(q)
  OBVIOUS
<1>2. PICK k \in 1 .. Len(q) : q[k] = t
  BY <1>1 DEF ToSet
<1>3. {i \in 1 .. Len(q) : q[i] = t} = {k}
  BY <1>1, <1>2 DEF Distinct
<1>4. SelectInSeq(q, LAMBDA v : v = t) = k
  BY <1>2, <1>3 DEF SelectInSeq, Min
<1>5. Erase(q, t) = RemoveAt(q, k)
  BY <1>2, <1>4 DEF Erase, RemoveFirst
<1> QED
  BY <1>2, <1>5, RemoveAtList

\* A thread that is no longer listed need not be erased.
LEMMA EraseOther ==
  ASSUME NEW S, NEW q \in Seq(S), NEW t, t \notin ToSet(q)
  PROVE  Erase(q, t) = q
<1>1. ~ \E i \in 1 .. Len(q) : q[i] = t
  BY DEF ToSet
<1> QED
  BY <1>1 DEF Erase, RemoveFirst

\* push_back() lists the newcomer behind the others.
LEMMA AppendList ==
  ASSUME NEW S, NEW q \in Seq(S), NEW t \in S
  PROVE  /\ Append(q, t) \in Seq(S)
         /\ ToSet(Append(q, t)) = ToSet(q) \cup {t}
         /\ t \notin ToSet(q) /\ Distinct(q) => Distinct(Append(q, t))
<1> DEFINE r == Append(q, t)
<1>1. /\ r \in Seq(S) /\ Len(q) \in Nat
      /\ DOMAIN q = 1 .. Len(q) /\ DOMAIN r = 1 .. Len(q) + 1
      /\ r[Len(q) + 1] = t /\ \A i \in 1 .. Len(q) : r[i] = q[i]
  OBVIOUS
<1> HIDE DEF r
<1>2. ToSet(r) = ToSet(q) \cup {t}
  <2>1. ASSUME NEW x \in ToSet(r) PROVE x \in ToSet(q) \cup {t}
    <3>1. PICK i \in 1 .. Len(q) + 1 : x = r[i]
      BY <1>1, <2>1 DEF ToSet
    <3>2. i \in 1 .. Len(q) \/ i = Len(q) + 1
      BY <1>1
    <3> QED BY <1>1, <3>1, <3>2 DEF ToSet
  <2>2. ASSUME NEW x \in ToSet(q) PROVE x \in ToSet(r)
    <3>1. PICK i \in 1 .. Len(q) : x = q[i]
      BY <1>1, <2>2 DEF ToSet
    <3>2. i \in DOMAIN r /\ r[i] = x
      BY <1>1, <3>1
    <3> QED BY <3>2 DEF ToSet
  <2>3. t \in ToSet(r)
    <3>1. Len(q) + 1 \in DOMAIN r
      BY <1>1
    <3> QED BY <1>1, <3>1 DEF ToSet
  <2> QED BY <2>1, <2>2, <2>3
<1>3. t \notin ToSet(q) /\ Distinct(q) => Distinct(r)
  <2>1. SUFFICES ASSUME t \notin ToSet(q), Distinct(q),
                        NEW i \in 1 .. Len(q) + 1, NEW j \in 1 .. Len(q) + 1,
                        r[i] = r[j]
                 PROVE  i = j
    BY <1>1 DEF Distinct
  <2>2. \A m \in 1 .. Len(q) : q[m] # t
    BY <1>1, <2>1 DEF ToSet
  <2>3. \A m, n \in 1 .. Len(q) : q[m] = q[n] => m = n
    BY <1>1, <2>1 DEF Distinct
  <2> QED
    BY <1>1, <2>1, <2>2, <2>3
<1> QED
  BY <1>1, <1>2, <1>3 DEF r

\* Sorting a list changes nothing but the order: no two threads get the same
\* place, and so every place gets a thread.
LEMMA SortedList ==
  ASSUME NEW S, NEW q \in Seq(S), NEW rank \in [S -> Nat]
  PROVE  /\ Sorted(rank, q) \in Seq(S)
         /\ ToSet(Sorted(rank, q)) = ToSet(q)
         /\ Distinct(q) => Distinct(Sorted(rank, q))
<1> DEFINE D == 1 .. Len(q)
           Before(j, i) == \/ rank[q[j]] < rank[q[i]]
                           \/ rank[q[j]] = rank[q[i]] /\ j <= i
           Upto(i) == {j \in D : Before(j, i)}
           place == [i \in D |-> Cardinality(Upto(i))]
           at(n) == CHOOSE i \in DOMAIN q : Place(rank, q, i) = n
<1>1. Len(q) \in Nat /\ DOMAIN q = D /\ \A i \in D : rank[q[i]] \in Nat
  OBVIOUS
<1>2. IsFiniteSet(D) /\ Cardinality(D) = Len(q)
  <2>1. 1 \in Int /\ Len(q) \in Int
    BY <1>1
  <2>2. IsFiniteSet(1 .. Len(q))
    BY <2>1, FS_Interval, Zenon
  <2>3. Cardinality(1 .. Len(q)) = IF 1 > Len(q) THEN 0 ELSE Len(q) - 1 + 1
    BY <2>1, FS_Interval, Zenon
  <2> QED BY <1>1, <2>2, <2>3
<1>3. \A i \in D : place[i] \in D
  <2> TAKE i \in D
  <2> DEFINE U == Upto(i)
  <2>1. U \in SUBSET D /\ i \in U
    BY <1>1
  <2> HIDE DEF U
  <2>2. IsFiniteSet(U) /\ Cardinality(U) <= Len(q) /\ Cardinality(U) \in Nat
    BY <1>2, <2>1, FS_Subset, FS_CardinalityType
  <2>3. Cardinality(U) # 0
    BY <2>1, <2>2, FS_EmptySet
  <2> QED BY <1>1, <2>2, <2>3 DEF U
<1>4. \A i, j \in D : i # j => place[i] # place[j]
  <2>1. ASSUME NEW i \in D, NEW j \in D, i # j, Before(i, j) PROVE place[i] # place[j]
    <3> DEFINE U == Upto(i)
               V == Upto(j)
    <3>1. U \in SUBSET V /\ V \in SUBSET D /\ j \in V /\ j \notin U
      BY <1>1, <2>1
    <3> HIDE DEF U, V
    <3>2. IsFiniteSet(V)
      BY <1>2, <3>1, FS_Subset
    <3>3. Cardinality(V) = Cardinality(U) => V = U
      BY <3>1, <3>2, FS_Subset
    <3> QED BY <3>1, <3>3 DEF U, V
  <2>2. \A i, j \in D : Before(i, j) \/ Before(j, i)
    BY <1>1
  <2> HIDE DEF Before, place
  <2> QED BY <2>1, <2>2
<1> HIDE DEF Upto, place
<1>5. \A n \in D : \E i \in D : place[i] = n
  <2>1. SUFFICES ASSUME NEW n \in D, \A i \in D : place[i] # n PROVE FALSE
    OBVIOUS
  <2>2. place \in [D -> D \ {n}]
    BY <1>3, <2>1 DEF place
  <2>3. IsFiniteSet(D \ {n}) /\ Cardinality(D \ {n}) = Len(q) - 1
    BY <1>2, FS_RemoveElement
  <2>4. Cardinality(D \ {n}) < Cardinality(D)
    BY <1>1, <1>2, <2>3
  <2>5. \E i, j \in D : i # j /\ place[i] = place[j]
    BY <1>2, <2>2, <2>3, <2>4, FS_PigeonHole
  <2> QED BY <1>4, <2>5
<1>6. \A n \in D : at(n) \in D /\ place[at(n)] = n
  <2>1. \A i \in D : place[i] = Place(rank, q, i)
    BY <1>1 DEF Place, place, Upto
  <2> QED BY <1>1, <1>5, <2>1
<1> DEFINE r == Sorted(rank, q)
<1>7. DOMAIN r = D /\ \A n \in D : r[n] = q[at(n)]
  BY <1>1 DEF Sorted
<1> HIDE DEF at
<1>8. r \in Seq(S) /\ Len(r) = Len(q)
  <2>1. r = [n \in 1 .. Len(q) |-> r[n]]
    BY <1>1 DEF Sorted
  <2>2. \A n \in 1 .. Len(q) : r[n] \in S
    <3> TAKE n \in 1 .. Len(q)
    <3>1. r[n] = q[at(n)] /\ at(n) \in 1 .. Len(q)
      BY <1>6, <1>7
    <3> HIDE DEF r
    <3> QED BY <3>1
  <2> HIDE DEF r
  <2> QED BY <1>1, <2>1, <2>2
<1> HIDE DEF r
<1>9. ToSet(r) = ToSet(q)
  <2>1. \A n \in D : \E i \in D : r[n] = q[i]
    BY <1>6, <1>7
  <2>2. \A i \in D : \E n \in D : r[n] = q[i]
    <3> TAKE i \in D
    <3>1. at(place[i]) = i
      BY <1>3, <1>4, <1>6
    <3> QED BY <1>3, <1>7, <3>1
  <2> HIDE DEF D
  <2> QED BY <1>1, <1>7, <2>1, <2>2 DEF ToSet
<1>10. Distinct(q) => Distinct(r)
  <2>1. SUFFICES ASSUME Distinct(q), NEW m \in D, NEW n \in D, r[m] = r[n]
                 PROVE  m = n
    BY <1>7 DEF Distinct
  <2>2. at(m) = at(n)
    BY <1>1, <1>6, <1>7, <2>1 DEF Distinct
  <2> QED BY <1>6, <2>2
<1> QED
  BY <1>8, <1>9, <1>10 DEF r

-----------------------------------------------------------------------------
(* The Status operators. *)

\* next() reports a state, and no operation makes up a flag.
LEMMA StatusTypes ==
  ASSUME NEW p \in SUBSET Flags
  PROVE  /\ NextState(p, ANYTHING) \in States
         /\ AfterNext(p, ANYTHING) \in SUBSET Flags
         /\ AfterNotify(p, ANYTHING) \in SUBSET Flags
         /\ AfterInterrupt(p, ANYTHING) \in SUBSET Flags
         /\ AfterIsInterrupted(p) \in SUBSET Flags
         /\ p \cup {TIMEDOUT} \in SUBSET Flags
<1>1. NextState(p, ANYTHING) \in States
  BY DEF NextState, States
<1>2. AfterNext(p, ANYTHING) \in SUBSET Flags
  BY DEF AfterNext
<1>3. AfterNotify(p, ANYTHING) \in SUBSET Flags
  BY DEF AfterNotify, Flags
<1>4. AfterInterrupt(p, ANYTHING) \in SUBSET Flags
  BY DEF AfterInterrupt, Flags
<1>5. AfterIsInterrupted(p) \in SUBSET Flags /\ p \cup {TIMEDOUT} \in SUBSET Flags
  BY DEF AfterIsInterrupted, Flags
<1> QED
  BY <1>1, <1>2, <1>3, <1>4, <1>5

-----------------------------------------------------------------------------
(* The invariant.  The types need the list: that erase() leaves a list of   *)
(* threads is known of a thread listed once.                                *)

WaitInv(Outside) == WaitTypeOK(Outside) /\ WaitersInside /\ LocksHeld

\* Outside are locations of an object's own.
Apart(Outside) == Outside \cap ({"idle"} \cup Inside \cup Searching) = {}

\* The steps by which nobody enters or leaves a wait.
Quiet(t, Outside) ==
  \/ \E l \in Outside :
       \/ \E k \in Kinds : CallToWait(t, k, l)
       \/ Call(t, l) \/ Return(t, l) \/ StartScan(t, l)
  \/ Wait(t) \/ ScanOn(t) \/ Retry(t) \/ ScanNotify(t, waiters)
  \/ Outsiders(t)

LEMMA WaitInitially ==
  ASSUME WaitingAssumption, WaitInit, NEW Outside
  PROVE  WaitInv(Outside)
<1>1. WaitTypeOK(Outside)
  BY DEF WaitInit, WaitTypeOK, States
<1>2. ToSet(<<>>) = {} /\ DOMAIN <<>> = {}
  BY DEF ToSet
<1>3. WaitersInside
  BY <1>2 DEF WaitInit, WaitersInside, Inside
<1>4. LocksHeld
  BY DEF WaitInit, LocksHeld, WaitingAssumption
<1> QED
  BY <1>1, <1>3, <1>4 DEF WaitInv

LEMMA WaitStutters ==
  ASSUME NEW Outside, WaitInv(Outside), UNCHANGED waitVars
  PROVE  WaitInv(Outside)'
  BY DEF WaitInv, waitVars, monitors, locals, WaitTypeOK, WaitersInside, LocksHeld

LEMMA QuietTypes ==
  ASSUME WaitingAssumption, NEW Outside, WaitTypeOK(Outside),
         NEW t \in Threads, Quiet(t, Outside)
  PROVE  WaitTypeOK(Outside)'
<1> USE DEF WaitTypeOK, monitors, locals
<1> DEFINE Labels == {"idle"} \cup Inside \cup Searching \cup Outside
<1>0. Inside \subseteq Labels /\ Searching \subseteq Labels
  OBVIOUS
<1>1. ASSUME NEW l \in Outside, NEW k \in Kinds, CallToWait(t, k, l)
      PROVE  WaitTypeOK(Outside)'
  BY <1>1 DEF CallToWait, Goto, Kinds
<1>2. ASSUME NEW l \in Outside, Call(t, l) PROVE WaitTypeOK(Outside)'
  BY <1>2 DEF Call, Goto
<1>3. ASSUME NEW l \in Outside, Return(t, l) PROVE WaitTypeOK(Outside)'
  BY <1>3 DEF Return, Forget, Goto, States
<1>4. ASSUME NEW l, StartScan(t, l) PROVE WaitTypeOK(Outside)'
  BY <1>4 DEF StartScan, Goto, Searching
<1>5. ASSUME Wait(t) PROVE WaitTypeOK(Outside)'
  <2>1. CASE EnterMonitor(t)
    BY <2>1 DEF EnterMonitor, Lock, Goto, Inside
  <2>2. CASE WaitSkip(t)
    BY <2>2, StatusTypes DEF WaitSkip, Goto, Inside
  <2>3. CASE WaitSleep(t)
    BY <2>3 DEF WaitSleep, Unlock, Goto, Inside
  <2>4. ASSUME NEW p \in SUBSET Flags, EndSleep(t, p) PROVE WaitTypeOK(Outside)'
    BY <2>4, StatusTypes DEF EndSleep, Goto, Inside
  <2>5. pending[t] \in SUBSET Flags /\ pending[t] \cup {TIMEDOUT} \in SUBSET Flags
    BY StatusTypes
  <2>6. CASE WaitReturn(t)
    BY <2>6 DEF WaitReturn, Lock, Goto, Inside
  <2> QED
    BY <1>5, <2>1, <2>2, <2>3, <2>4, <2>5, <2>6
    DEF Wait, WaitForLock, WaitRun, Wake, Expire
<1>6. ASSUME ScanOn(t) PROVE WaitTypeOK(Outside)'
  <2>1. CASE ScanSkip(t)
    BY <2>1 DEF ScanSkip
  <2>2. CASE ScanDone(t)
    BY <2>2 DEF ScanDone, EndScan, Goto
  <2>3. CASE Backoff(t)
    BY <2>3 DEF Backoff, Goto, Searching
  <2> QED BY <1>6, <2>1, <2>2, <2>3 DEF ScanOn
<1>7. ASSUME ScanNotify(t, waiters) PROVE WaitTypeOK(Outside)'
  <2>1. waiters[cursor] \in Threads
    BY <1>7 DEF ScanNotify, Scanning
  <2>2. AfterNotify(pending[waiters[cursor]], ANYTHING) \in SUBSET Flags
    BY <2>1, StatusTypes
  <2> QED BY <1>7, <2>1, <2>2 DEF ScanNotify, EndScan, Goto
<1>8. ASSUME Outsiders(t) PROVE WaitTypeOK(Outside)'
  <2>1. /\ AfterInterrupt(pending[t], ANYTHING) \in SUBSET Flags
        /\ AfterIsInterrupted(pending[t]) \in SUBSET Flags
    BY StatusTypes
  <2>2. CASE Interrupt(t)
    BY <2>1, <2>2 DEF Interrupt
  <2>3. CASE Interrupted(t)
    BY <2>1, <2>3 DEF Interrupted
  <2>4. ASSUME NEW x \in Observers, Observe(x, t) PROVE WaitTypeOK(Outside)'
    BY <2>4 DEF Observe, Lock
  <2>5. ASSUME NEW x \in Observers, Observed(x, t) PROVE WaitTypeOK(Outside)'
    BY <2>5 DEF Observed, Unlock
  <2> QED BY <1>8, <2>2, <2>3, <2>4, <2>5 DEF Outsiders
<1> HIDE DEF WaitTypeOK
<1> QED
  BY <1>1, <1>2, <1>3, <1>4, <1>5, <1>6, <1>7, <1>8 DEF Quiet, Retry

\* Nobody is listed or unlisted, and nobody enters or leaves a wait.
LEMMA QuietInside ==
  ASSUME NEW Outside, Apart(Outside), WaitTypeOK(Outside),
         NEW t \in Threads, Quiet(t, Outside)
  PROVE  /\ UNCHANGED waiters
         /\ \A u \in Threads : pc'[u] \in Inside <=> pc[u] \in Inside
<1> USE DEF WaitTypeOK, monitors, locals
<1> DEFINE Same == /\ UNCHANGED waiters
                   /\ \A u \in Threads : pc'[u] \in Inside <=> pc[u] \in Inside
<1>0. {"idle"} \cap Inside = {} /\ Searching \cap Inside = {} /\ Outside \cap Inside = {}
  BY DEF Inside, Searching, Apart
<1>2. ASSUME NEW l, Goto(t, l), UNCHANGED waiters,
             pc[t] \in Inside <=> l \in Inside
      PROVE  Same
  BY <1>2 DEF Goto
<1>3. ASSUME NEW l \in Outside, NEW k \in Kinds, CallToWait(t, k, l)
      PROVE  Same
  BY <1>0, <1>2, <1>3 DEF CallToWait
<1>4. ASSUME NEW l \in Outside, Call(t, l) PROVE Same
  BY <1>0, <1>2, <1>4 DEF Call
<1>5. ASSUME NEW l \in Outside, Return(t, l) PROVE Same
  BY <1>0, <1>2, <1>5 DEF Return, Forget
<1>6. ASSUME NEW l \in Outside \cup Searching, StartScan(t, l) PROVE Same
  BY <1>0, <1>2, <1>6 DEF StartScan, Searching
<1>7. ASSUME Wait(t) PROVE Same
  BY <1>2, <1>7 DEF Wait, WaitForLock, WaitRun, EnterMonitor, WaitSkip,
                    WaitSleep, Wake, Expire, EndSleep, WaitReturn, Inside
<1>8. ASSUME ScanOn(t) \/ ScanNotify(t, waiters) PROVE Same
  <2>1. CASE ScanSkip(t)
    BY <2>1 DEF ScanSkip
  <2>2. CASE ScanDone(t) \/ Backoff(t) \/ ScanNotify(t, waiters)
    BY <1>2, <2>2 DEF ScanDone, Backoff, ScanNotify, Scanning, Scanned, EndScan,
                      Inside
  <2> QED BY <1>8, <2>1, <2>2 DEF ScanOn
<1>9. ASSUME Outsiders(t) PROVE Same
  BY <1>9 DEF Outsiders, Interrupt, Interrupted, Observe, Observed
<1>10. "r_backoff" \in Searching
  BY DEF Searching
<1> HIDE DEF WaitTypeOK
<1> QED
  BY <1>3, <1>4, <1>5, <1>6, <1>7, <1>8, <1>9, <1>10 DEF Quiet, Retry

LEMMA QuietList ==
  ASSUME NEW Outside, Apart(Outside), WaitTypeOK(Outside), WaitersInside,
         NEW t \in Threads, Quiet(t, Outside)
  PROVE  WaitersInside'
<1>1. UNCHANGED waiters /\ \A u \in Threads : pc'[u] \in Inside <=> pc[u] \in Inside
  BY QuietInside
<1>2. {u \in Threads : pc'[u] \in Inside} = {u \in Threads : pc[u] \in Inside}
  BY <1>1
<1> QED
  BY <1>1, <1>2 DEF WaitersInside

LEMMA QuietLocks ==
  ASSUME WaitingAssumption, NEW Outside, Apart(Outside), WaitTypeOK(Outside),
         LocksHeld, NEW t \in Threads, Quiet(t, Outside)
  PROVE  LocksHeld'
<1> USE DEF WaitTypeOK, monitors, locals
<1>0. /\ None \notin Threads /\ None \notin Observers
      /\ Threads \cap Observers = {}
      /\ Outside \cap {"w_monitor", "w_wait", "w_relock", "r_scan"} = {}
  BY DEF WaitingAssumption, Apart, Inside, Searching
<1>1. ASSUME NEW l \in Outside, NEW k \in Kinds, CallToWait(t, k, l)
      PROVE  LocksHeld'
  BY <1>0, <1>1 DEF CallToWait, Goto, LocksHeld
<1>2. ASSUME NEW l \in Outside, Call(t, l) PROVE LocksHeld'
  BY <1>0, <1>2 DEF Call, Goto, LocksHeld
<1>3. ASSUME NEW l \in Outside, Return(t, l) PROVE LocksHeld'
  BY <1>0, <1>3 DEF Return, Forget, Goto, LocksHeld
<1>4. ASSUME NEW l \in Outside \cup {"r_backoff"}, StartScan(t, l) PROVE LocksHeld'
  BY <1>0, <1>4 DEF StartScan, Goto, LocksHeld
<1>5. ASSUME Wait(t) PROVE LocksHeld'
  <2>1. CASE EnterMonitor(t)
    BY <1>0, <2>1 DEF EnterMonitor, Lock, Goto, LocksHeld
  <2>2. CASE WaitSkip(t)
    BY <2>2 DEF WaitSkip, Goto, LocksHeld
  <2>3. CASE WaitSleep(t)
    BY <1>0, <2>3 DEF WaitSleep, Unlock, Goto, LocksHeld
  <2>4. ASSUME NEW p, EndSleep(t, p) PROVE LocksHeld'
    BY <2>4 DEF EndSleep, Goto, LocksHeld
  <2>5. CASE WaitReturn(t)
    BY <1>0, <2>5 DEF WaitReturn, Lock, Goto, LocksHeld
  <2> QED
    BY <1>5, <2>1, <2>2, <2>3, <2>4, <2>5
    DEF Wait, WaitForLock, WaitRun, Wake, Expire
<1>6. ASSUME ScanOn(t) \/ ScanNotify(t, waiters) PROVE LocksHeld'
  <2>1. CASE ScanSkip(t)
    BY <2>1 DEF ScanSkip, LocksHeld
  <2>2. CASE ScanNotify(t, waiters)
    BY <1>0, <2>2 DEF ScanNotify, Scanning, EndScan, Goto, LocksHeld
  <2>3. CASE ScanDone(t)
    BY <1>0, <2>3 DEF ScanDone, Scanned, EndScan, Goto, LocksHeld
  <2>4. CASE Backoff(t)
    BY <1>0, <2>4 DEF Backoff, Scanned, Goto, LocksHeld
  <2> QED BY <1>6, <2>1, <2>2, <2>3, <2>4 DEF ScanOn
<1>7. ASSUME Outsiders(t) PROVE LocksHeld'
  <2>1. CASE Interrupt(t) \/ Interrupted(t)
    BY <2>1 DEF Interrupt, Interrupted, LocksHeld
  <2>2. ASSUME NEW x \in Observers, Observe(x, t) PROVE LocksHeld'
    BY <1>0, <2>2 DEF Observe, Lock, LocksHeld
  <2>3. ASSUME NEW x \in Observers, Observed(x, t) PROVE LocksHeld'
    BY <1>0, <2>3 DEF Observed, Unlock, LocksHeld
  <2> QED BY <1>7, <2>1, <2>2, <2>3 DEF Outsiders
<1> HIDE DEF WaitTypeOK
<1> QED
  BY <1>1, <1>2, <1>3, <1>4, <1>5, <1>6, <1>7 DEF Quiet, Retry

LEMMA QuietStep ==
  ASSUME WaitingAssumption, NEW Outside, Apart(Outside), WaitInv(Outside),
         NEW t \in Threads, Quiet(t, Outside)
  PROVE  WaitInv(Outside)'
<1>1. WaitTypeOK(Outside) /\ WaitersInside /\ LocksHeld
  BY DEF WaitInv
<1> QED
  BY <1>1, QuietTypes, QuietList, QuietLocks DEF WaitInv

\* A thread enters the list.
LEMMA EnlistStep ==
  ASSUME WaitingAssumption, NEW Outside, Apart(Outside), WaitInv(Outside),
         NEW t \in Threads, NEW l \in Outside, NEW rank \in [Threads -> Nat],
         Enlist(t, l, Insert(rank, waiters, t))
  PROVE  WaitInv(Outside)' /\ waiters' # <<>>
<1> USE DEF WaitTypeOK, WaitInv, monitors, locals
<1>0. /\ l \notin Inside /\ l \notin {"w_monitor", "w_wait", "w_relock", "r_scan"}
      /\ None \notin Threads
  BY DEF Apart, Inside, Searching, WaitingAssumption
<1>1. t \notin ToSet(waiters) /\ Distinct(waiters)
  BY <1>0 DEF Enlist, WaitersInside, Distinct
<1>2. /\ waiters' \in Seq(Threads) /\ waiters' # <<>>
      /\ ToSet(waiters') = ToSet(waiters) \cup {t}
      /\ Distinct(waiters')
  <2>1. /\ waiters \in Seq(Threads)
        /\ waiters' = Insert(rank, waiters, t)
    BY DEF Enlist
  <2>2. /\ Insert(rank, waiters, t) \in Seq(Threads)
        /\ Insert(rank, waiters, t) # <<>>
        /\ ToSet(Insert(rank, waiters, t)) = ToSet(waiters) \cup {t}
        /\ t \notin ToSet(waiters) /\ Distinct(waiters)
             => Distinct(Insert(rank, waiters, t))
    BY <2>1, InsertList
  <2> QED BY <1>1, <2>1, <2>2, Zenon
<1>3. WaitTypeOK(Outside)'
  BY <1>2 DEF Enlist, Goto, Inside
<1>4. WaitersInside'
  <2>1. {u \in Threads : pc'[u] \in Inside}
          = {u \in Threads : pc[u] \in Inside} \cup {t}
    BY DEF Enlist, Goto, Inside
  <2> QED BY <1>2, <2>1 DEF WaitersInside, Distinct
<1>5. LocksHeld'
  BY <1>0 DEF Enlist, Goto, LocksHeld
<1> QED
  BY <1>2, <1>3, <1>4, <1>5

\* A thread leaves the list and returns.
LEMMA LeaveStep ==
  ASSUME WaitingAssumption, NEW Outside, WaitInv(Outside),
         NEW t \in Threads, Leave(t), Forget(t)
  PROVE  WaitInv(Outside)'
<1> USE DEF WaitTypeOK, WaitInv
<1>1. t \in ToSet(waiters) /\ Distinct(waiters)
  BY DEF Leave, WaitersInside, Inside, Distinct
<1>2. /\ waiters' \in Seq(Threads)
      /\ ToSet(waiters') = ToSet(waiters) \ {t} /\ Distinct(waiters')
  BY <1>1, EraseList DEF Leave
<1>3. WaitTypeOK(Outside)'
  BY <1>2 DEF Leave, Unlock, Forget, Goto, States
<1>4. WaitersInside'
  <2>1. {u \in Threads : pc'[u] \in Inside}
          = {u \in Threads : pc[u] \in Inside} \ {t}
    BY DEF Leave, Forget, Goto, Inside
  <2> QED BY <1>2, <2>1 DEF WaitersInside, Distinct
<1>5. LocksHeld'
  BY DEF Leave, Unlock, Forget, Goto, LocksHeld, WaitingAssumption
<1> QED
  BY <1>3, <1>4, <1>5

-----------------------------------------------------------------------------
(* A semaphore and a condition take the waiters that the scan examines off  *)
(* the list: a waiter is inside its wait with or without being listed.      *)

MonitorsHeld ==
  \A t \in Threads : pc[t] \in {"w_wait", "w_relock"} => mlock[t] = t

\* Until it gives up its Monitor's lock to sleep nobody takes a waiter off.
StillListed ==
  \A t \in Threads : pc[t] \in {"w_monitor", "w_wait"} => t \in ToSet(waiters)

DropInv(Outside) ==
  WaitTypeOK(Outside) /\ LocksHeld /\ MonitorsHeld /\ StillListed /\ UnlistedWakes

\* The waiter at the cursor is taken off the list, with something to wake up for.
Dropped(t) ==
  /\ Scanning(t) /\ mlock[waiters[cursor]] = None
  /\ waiters' = RemoveAt(waiters, cursor)
  /\ pending' \in [Threads -> SUBSET Flags]
  /\ \A u \in Threads : pending[u] \subseteq pending'[u]
  /\ Pending(pending'[waiters[cursor]], ANYTHING, ANYTHING)
  /\ EndScan(t) \/ UNCHANGED <<flock, cursor, pc>>
  /\ UNCHANGED <<locals, mlock>>

\* What notify() leaves pending wakes the waiter, also when it is refused.
LEMMA NotifyPends ==
  ASSUME NEW p \in SUBSET Flags
  PROVE  /\ Pending(AfterNotify(p, ANYTHING), ANYTHING, ANYTHING)
         /\ ~Notifiable(p, ANYTHING) => Pending(p, ANYTHING, ANYTHING)
         /\ p \subseteq AfterNotify(p, ANYTHING)
         /\ p \subseteq AfterInterrupt(p, ANYTHING)
<1>1. SIGNALED \in ANYTHING /\ INTERRUPTED \in ANYTHING
  BY DEF ANYTHING, Flags, SIGNALED, INTERRUPTED, CANCELED, TIMEDOUT
<1> QED
  BY <1>1 DEF AfterNotify, AfterInterrupt, Notifiable, Pending

LEMMA DropInitially ==
  ASSUME WaitingAssumption, WaitInit, NEW Outside
  PROVE  DropInv(Outside)
<1>1. WaitInv(Outside)
  BY WaitInitially
<1>2. ToSet(<<>>) = {} /\ DOMAIN <<>> = {}
  BY DEF ToSet
<1>3. MonitorsHeld /\ StillListed /\ UnlistedWakes
  BY <1>2 DEF WaitInit, MonitorsHeld, StillListed, UnlistedWakes
<1> QED
  BY <1>1, <1>3 DEF WaitInv, DropInv

LEMMA DropStutters ==
  ASSUME NEW Outside, DropInv(Outside), UNCHANGED waitVars
  PROVE  DropInv(Outside)'
  BY DEF DropInv, waitVars, monitors, locals, WaitTypeOK, LocksHeld, MonitorsHeld,
         StillListed, UnlistedWakes

LEMMA DropQuiet ==
  ASSUME WaitingAssumption, NEW Outside, Apart(Outside), DropInv(Outside),
         NEW t \in Threads, Quiet(t, Outside)
  PROVE  DropInv(Outside)'
<1> USE DEF monitors, locals
<1> DEFINE Rest == MonitorsHeld /\ StillListed /\ UnlistedWakes
           Old == {"idle"} \cup Searching \cup Outside
<1>1. WaitTypeOK(Outside)' /\ LocksHeld'
  BY QuietTypes, QuietLocks DEF DropInv
<1>2. /\ WaitTypeOK(Outside) /\ LocksHeld /\ Rest
      /\ Threads \cap Observers = {} /\ None \notin Threads
      /\ Old \cap Inside = {}
  BY DEF DropInv, WaitingAssumption, Apart, Inside, Searching
\* A step of a thread outside its wait, which leaves the list and the locks alone.
<1>3. ASSUME NEW l \in Old, Goto(t, l), pc[t] \in Old,
             UNCHANGED <<waiters, mlock, pending>>
      PROVE  Rest'
  BY <1>2, <1>3 DEF Goto, WaitTypeOK, MonitorsHeld, StillListed, UnlistedWakes, Inside
<1>4. ASSUME NEW l \in Outside, NEW k \in Kinds, CallToWait(t, k, l) PROVE Rest'
  BY <1>3, <1>4 DEF CallToWait
<1>5. ASSUME NEW l \in Outside, Call(t, l) \/ Return(t, l) \/ StartScan(t, l)
      PROVE  Rest'
  BY <1>3, <1>5 DEF Call, Return, Forget, StartScan, Searching
<1>6. ASSUME Wait(t) PROVE Rest'
  <2>1. CASE EnterMonitor(t)
    BY <1>2, <2>1 DEF EnterMonitor, Lock, Goto, WaitTypeOK, MonitorsHeld, StillListed,
                      UnlistedWakes, Inside
  <2>2. CASE WaitSkip(t)
    BY <1>2, <2>2 DEF WaitSkip, Goto, WaitTypeOK, MonitorsHeld, StillListed,
                      UnlistedWakes, Inside
  <2>3. CASE WaitSleep(t)
    BY <1>2, <2>3 DEF WaitSleep, Unlock, Goto, WaitTypeOK, MonitorsHeld, StillListed,
                      UnlistedWakes, Inside
  <2>4. ASSUME NEW p, EndSleep(t, p) PROVE Rest'
    BY <1>2, <2>4 DEF EndSleep, Goto, WaitTypeOK, MonitorsHeld, StillListed,
                      UnlistedWakes, Inside
  <2>5. CASE WaitReturn(t)
    BY <1>2, <2>5 DEF WaitReturn, Lock, Goto, WaitTypeOK, MonitorsHeld, StillListed,
                      UnlistedWakes, Inside
  <2> QED
    BY <1>6, <2>1, <2>2, <2>3, <2>4, <2>5
    DEF Wait, WaitForLock, WaitRun, Wake, Expire
<1>7. ASSUME ScanOn(t) \/ Retry(t) PROVE Rest'
  <2>1. CASE ScanSkip(t)
    BY <1>2, <2>1 DEF ScanSkip, MonitorsHeld, StillListed, UnlistedWakes
  <2>2. CASE ScanDone(t) \/ Backoff(t) \/ Retry(t)
    BY <1>3, <2>2 DEF ScanDone, Backoff, Retry, StartScan, Scanned, EndScan, Searching
  <2> QED BY <1>7, <2>1, <2>2 DEF ScanOn
<1>8. ASSUME ScanNotify(t, waiters) PROVE Rest'
  <2> DEFINE w == waiters[cursor]
  <2>1. w \in Threads /\ pc[t] = "r_scan"
    BY <1>2, <1>8 DEF ScanNotify, Scanning, WaitTypeOK
  <2>2. \A u \in Threads : pending[u] \subseteq pending'[u]
    BY <1>2, <1>8, <2>1, NotifyPends DEF ScanNotify, WaitTypeOK
  <2>3. Goto(t, "idle") /\ UNCHANGED <<waiters, mlock>>
    BY <1>8 DEF ScanNotify, EndScan
  <2> QED
    BY <1>2, <2>1, <2>2, <2>3
    DEF Goto, WaitTypeOK, MonitorsHeld, StillListed, UnlistedWakes, Inside, Pending
<1>9. ASSUME Outsiders(t) PROVE Rest'
  <2>1. CASE Interrupt(t)
    <3>1. \A u \in Threads : pending[u] \subseteq pending'[u]
      BY <1>2, <2>1, NotifyPends DEF Interrupt, WaitTypeOK
    <3> QED
      BY <1>2, <2>1, <3>1
      DEF Interrupt, MonitorsHeld, StillListed, UnlistedWakes, Pending
  <2>2. CASE Interrupted(t)
    BY <1>2, <2>2
    DEF Interrupted, WaitTypeOK, MonitorsHeld, StillListed, UnlistedWakes
  <2>3. ASSUME NEW x \in Observers, Observe(x, t) \/ Observed(x, t) PROVE Rest'
    BY <1>2, <2>3 DEF Observe, Observed, Lock, Unlock, WaitTypeOK, MonitorsHeld,
                      StillListed, UnlistedWakes
  <2> QED BY <1>9, <2>1, <2>2, <2>3 DEF Outsiders
<1> QED
  BY <1>1, <1>4, <1>5, <1>6, <1>7, <1>8, <1>9 DEF Quiet, DropInv

\* A thread enters the list, at whatever place.
LEMMA DropEnlist ==
  ASSUME WaitingAssumption, NEW Outside, Apart(Outside), DropInv(Outside),
         NEW t \in Threads, NEW l \in Outside, NEW q \in Seq(Threads),
         ToSet(q) = ToSet(waiters) \cup {t},
         t \notin ToSet(waiters) /\ Distinct(waiters) => Distinct(q),
         Enlist(t, l, q)
  PROVE  DropInv(Outside)'
<1> USE DEF DropInv, monitors, locals
<1>0. /\ l \notin Inside /\ l \notin {"w_monitor", "w_wait", "w_relock", "r_scan"}
      /\ None \notin Threads
  BY DEF Apart, Inside, Searching, WaitingAssumption
<1>1. t \notin ToSet(waiters) /\ Distinct(waiters)
  BY <1>0 DEF Enlist, UnlistedWakes, Distinct
<1>2. WaitTypeOK(Outside)'
  BY DEF Enlist, Goto, WaitTypeOK, Inside
<1>3. LocksHeld'
  BY <1>0 DEF Enlist, Goto, WaitTypeOK, LocksHeld
<1>4. MonitorsHeld' /\ StillListed'
  BY <1>0 DEF Enlist, Goto, WaitTypeOK, MonitorsHeld, StillListed
<1>5. UnlistedWakes'
  BY <1>0, <1>1 DEF Enlist, Goto, WaitTypeOK, UnlistedWakes, Distinct, Inside
<1> QED
  BY <1>2, <1>3, <1>4, <1>5

\* A thread leaves its wait, listed or not, with whatever it remembers of it.
LEMMA DropLeave ==
  ASSUME WaitingAssumption, NEW Outside, Apart(Outside), DropInv(Outside),
         NEW t \in Threads, NEW l \in Outside \cup {"idle"}, Leave(t), Goto(t, l),
         state' \in [Threads -> States],
         kind' \in [Threads -> {"forever", "now", "timed"}]
  PROVE  DropInv(Outside)'
<1> USE DEF DropInv
<1>0. l \notin Inside /\ l # "r_scan" /\ None \notin Threads
  BY DEF Apart, Inside, Searching, WaitingAssumption
<1>1. Distinct(waiters) /\ waiters \in Seq(Threads)
  BY DEF UnlistedWakes, Distinct, WaitTypeOK
<1>2. /\ waiters' \in Seq(Threads) /\ Distinct(waiters')
      /\ ToSet(waiters') = ToSet(waiters) \ {t}
  <2>1. CASE t \in ToSet(waiters)
    BY <1>1, <2>1, EraseList DEF Leave
  <2>2. CASE t \notin ToSet(waiters)
    <3>1. waiters' = waiters
      BY <1>1, <2>2, EraseOther DEF Leave
    <3> QED BY <1>1, <2>2, <3>1
  <2> QED BY <2>1, <2>2
<1>3. WaitTypeOK(Outside)'
  BY <1>2 DEF Leave, Unlock, Goto, WaitTypeOK
<1>4. LocksHeld'
  BY <1>0 DEF Leave, Unlock, Goto, WaitTypeOK, LocksHeld, Inside
<1>5. MonitorsHeld' /\ StillListed'
  BY <1>0, <1>2 DEF Leave, Unlock, Goto, WaitTypeOK, MonitorsHeld, StillListed, Inside
<1>6. UnlistedWakes'
  BY <1>0, <1>2 DEF Leave, Goto, WaitTypeOK, UnlistedWakes, Distinct, Inside
<1> QED
  BY <1>3, <1>4, <1>5, <1>6

\* The scan takes a waiter off the list: it is asleep or on its way from there.
LEMMA DropStep ==
  ASSUME WaitingAssumption, NEW Outside, DropInv(Outside), NEW t \in Threads,
         Dropped(t)
  PROVE  DropInv(Outside)'
<1> USE DEF DropInv, monitors, locals
<1> DEFINE w == waiters[cursor]
<1>0. None \notin Threads
  BY DEF WaitingAssumption
<1>1. /\ waiters \in Seq(Threads) /\ Distinct(waiters)
      /\ cursor \in 1 .. Len(waiters) /\ w \in Threads /\ w \in ToSet(waiters)
  BY DEF Dropped, Scanning, UnlistedWakes, Distinct, WaitTypeOK, ToSet
<1>2. /\ waiters' \in Seq(Threads) /\ Distinct(waiters')
      /\ ToSet(waiters') = ToSet(waiters) \ {w}
  BY <1>1, RemoveAtList DEF Dropped
<1>3. pc[w] \notin {"w_monitor", "w_wait"} /\ w # t
  <2>1. flock = t /\ pc[t] = "r_scan"
    BY DEF Dropped, Scanning, LocksHeld
  <2>2. pc[w] # "w_monitor"
    BY <1>1, <2>1 DEF LocksHeld
  <2>3. pc[w] # "w_wait"
    BY <1>0, <1>1 DEF Dropped, MonitorsHeld
  <2>4. pc[w] \in Inside
    BY <1>1 DEF UnlistedWakes
  <2> QED BY <2>1, <2>2, <2>3, <2>4 DEF Inside
<1> HIDE DEF w
<1>4. CASE UNCHANGED <<flock, cursor, pc>>
  <2>1. WaitTypeOK(Outside)' /\ LocksHeld' /\ MonitorsHeld'
    BY <1>2, <1>4 DEF Dropped, WaitTypeOK, LocksHeld, MonitorsHeld
  <2>2. StillListed'
    BY <1>2, <1>3, <1>4 DEF Dropped, StillListed
  <2>3. UnlistedWakes'
    BY <1>2, <1>4 DEF Dropped, UnlistedWakes, Distinct, Pending, w
  <2> QED BY <2>1, <2>2, <2>3
<1>5. CASE EndScan(t)
  <2>1. WaitTypeOK(Outside)'
    BY <1>2, <1>5 DEF Dropped, WaitTypeOK, EndScan, Goto
  <2>2. LocksHeld' /\ MonitorsHeld'
    BY <1>0, <1>5
    DEF Dropped, Scanning, WaitTypeOK, EndScan, Goto, LocksHeld, MonitorsHeld
  <2>3. StillListed'
    BY <1>2, <1>3, <1>5 DEF Dropped, WaitTypeOK, EndScan, Goto, StillListed
  <2>4. UnlistedWakes'
    <3>1. \A u \in Threads : pc'[u] = "w_sleep" => pc[u] = "w_sleep"
      BY <1>5 DEF WaitTypeOK, EndScan, Goto
    <3>2. \A u \in Threads : pc[u] \in Inside => pc'[u] \in Inside
      BY <1>5 DEF Dropped, Scanning, WaitTypeOK, EndScan, Goto, Inside
    <3>3. \A u \in ToSet(waiters') : pc'[u] \in Inside
      <4>1. ToSet(waiters) \subseteq Threads
        BY <1>1 DEF ToSet
      <4> QED BY <1>2, <3>2, <4>1 DEF UnlistedWakes
    <3>4. \A u \in Threads : pc'[u] = "w_sleep" /\ u \notin ToSet(waiters')
                             => Pending(pending'[u], ANYTHING, ANYTHING)
      BY <1>2, <3>1 DEF Dropped, UnlistedWakes, Pending, w
    <3> QED BY <1>2, <3>3, <3>4 DEF UnlistedWakes, Distinct
  <2> QED BY <2>1, <2>2, <2>3, <2>4
<1> QED
  BY <1>4, <1>5 DEF Dropped

-----------------------------------------------------------------------------
(* How a freed object passes to a waiter while no thread is interrupted    *)
(* and none waits with a timeout: by a grant.  It is first the thread that *)
(* looks for a waiter, then the SIGNALED pending in the Monitor of the     *)
(* waiter it found, then that waiter on its way back to _lock.  The steps  *)
(* of module Waiting never make a second grant out of one, and drop it     *)
(* only where nobody waits.  With interruptions or timeouts this fails:    *)
(* see the run that finds it violated.                                     *)

Calm == WaitingAssumption /\ ~Interrupts /\ ~Timeouts

\* t is where the right to have the object next is.
Granting(t) ==
  pending[t] # {} \/ pc[t] \in {"w_woken", "w_relock", "r_scan", "r_backoff"}

\* A signal is pending only in the Monitor of a sleeping waiter, and what woke
\* a waiter was a signal.
SignalsExact ==
  \A t \in Threads :
    /\ kind[t] # "timed"
    /\ pending[t] \subseteq {SIGNALED}
    /\ pending[t] # {} => pc[t] = "w_sleep"
    /\ state[t] = SIGNALED <=> pc[t] \in {"w_woken", "w_relock"}
    /\ pc[t] \in {"w_wait", "w_relock"} => mlock[t] = t

OneGrant ==
  /\ \A t, u \in Threads : Granting(t) /\ Granting(u) => t = u
  /\ \A t \in Threads : pc[t] = "r_backoff" => waiters # <<>>

GrantInv(Outside) == WaitInv(Outside) /\ SignalsExact /\ OneGrant

-----------------------------------------------------------------------------
\* A thread inside a wait is listed: then the list is not empty.
LEMMA InsideNotEmpty ==
  ASSUME WaitersInside, NEW t \in Threads, pc[t] \in Inside
  PROVE  waiters # <<>>
<1>1. t \in ToSet(waiters)
  BY DEF WaitersInside
<1>2. ToSet(<<>>) = {}
  BY DEF ToSet
<1> QED
  BY <1>1, <1>2

\* What the list holds is inside a wait.
LEMMA WaiterInside ==
  ASSUME WaitersInside, NEW i \in DOMAIN waiters
  PROVE  waiters[i] \in Threads /\ pc[waiters[i]] \in Inside
<1>1. waiters[i] \in ToSet(waiters)
  BY DEF ToSet
<1> QED
  BY <1>1 DEF WaitersInside

\* What next() and notify() do to the words that occur.
LEMMA StatusCalm ==
  /\ NextState({}, ANYTHING) = INVALID
  /\ NextState({SIGNALED}, ANYTHING) = SIGNALED
  /\ AfterNext({SIGNALED}, ANYTHING) = {}
  /\ AfterNotify({}, ANYTHING) = {SIGNALED}
  /\ ~Pending({}, ANYTHING, ANYTHING)
  /\ INVALID # SIGNALED
<1>1. {SIGNALED} \cap ANYTHING = {SIGNALED} /\ {} \cap ANYTHING = {}
  BY DEF SIGNALED, ANYTHING, Flags, CANCELED, INTERRUPTED, TIMEDOUT
<1>2. NextState({SIGNALED}, ANYTHING) = SIGNALED
  BY <1>1 DEF NextState
<1>3. NextState({}, ANYTHING) = INVALID
  BY <1>1 DEF NextState, TIMEDOUT, SIGNALED, INTERRUPTED
<1>4. AfterNext({SIGNALED}, ANYTHING) = {}
  BY <1>2 DEF AfterNext, SIGNALED, INVALID
<1>5. AfterNotify({}, ANYTHING) = {SIGNALED} /\ ~Pending({}, ANYTHING, ANYTHING)
  BY DEF AfterNotify, Notifiable, Pending
<1> QED
  BY <1>2, <1>3, <1>4, <1>5 DEF INVALID, SIGNALED

LEMMA GrantInitially ==
  ASSUME Calm, WaitInit, NEW Outside
  PROVE  GrantInv(Outside) /\ \A t \in Threads : ~Granting(t)
<1>1. WaitInv(Outside)
  BY WaitInitially DEF Calm
<1>2. SignalsExact
  BY StatusCalm DEF WaitInit, SignalsExact
<1>3. OneGrant /\ \A t \in Threads : ~Granting(t)
  BY DEF WaitInit, OneGrant, Granting
<1> QED
  BY <1>1, <1>2, <1>3 DEF GrantInv

\* Where nobody waits and _lock is free, there is no grant.
LEMMA EmptyNoGrant ==
  ASSUME Calm, NEW Outside, GrantInv(Outside), waiters = <<>>, flock = None
  PROVE  \A t \in Threads : ~Granting(t)
<1> USE DEF GrantInv, WaitInv
<1>1. \A t \in Threads : pc[t] \notin Inside
  BY InsideNotEmpty
<1>2. \A t \in Threads : pc[t] # "r_scan"
  BY DEF LocksHeld, Calm, WaitingAssumption
<1>3. \A t \in Threads : pc[t] # "r_backoff"
  BY DEF OneGrant
<1> QED
  BY <1>1, <1>2, <1>3 DEF Granting, SignalsExact, Inside

-----------------------------------------------------------------------------
(* What each step does to the grant. *)

\* The grant is where it was.
SameGrant == \A t \in Threads : Granting(t)' <=> Granting(t)

\* The steps that leave the grant where it is.
Keeping(t, Outside) ==
  \/ \E l \in Outside :
       \/ \E k \in Kinds : CallToWait(t, k, l)
       \/ Call(t, l) \/ Return(t, l)
  \/ Wait(t) \/ ScanSkip(t) \/ Backoff(t) \/ Retry(t) \/ Outsiders(t)

LEMMA GrantStutters ==
  ASSUME NEW Outside, GrantInv(Outside), UNCHANGED waitVars
  PROVE  GrantInv(Outside)' /\ SameGrant
<1>1. WaitInv(Outside)'
  BY WaitStutters DEF GrantInv
<1>2. SignalsExact' /\ OneGrant' /\ SameGrant
  BY DEF GrantInv, waitVars, monitors, locals, SignalsExact, OneGrant, Granting,
         SameGrant
<1> QED
  BY <1>1, <1>2 DEF GrantInv

LEMMA KeepingSignals ==
  ASSUME Calm, NEW Outside, Apart(Outside), GrantInv(Outside),
         NEW t \in Threads, Keeping(t, Outside)
  PROVE  SignalsExact'
<1> USE DEF GrantInv, WaitInv, WaitTypeOK, monitors, locals
<1>0. /\ None \notin Threads /\ None \notin Observers
      /\ Threads \cap Observers = {}
      /\ Kinds = {"forever", "now"}
      /\ Outside \cap {"w_wait", "w_relock", "w_sleep", "w_woken"} = {}
  BY DEF Calm, WaitingAssumption, Kinds, Apart, Inside
<1>1. ASSUME NEW l \in Outside, NEW k \in Kinds, CallToWait(t, k, l)
      PROVE  SignalsExact'
  BY <1>0, <1>1 DEF CallToWait, Goto, SignalsExact
<1>2. ASSUME NEW l \in Outside, Call(t, l) PROVE SignalsExact'
  BY <1>0, <1>2 DEF Call, Goto, SignalsExact
<1>3. ASSUME NEW l \in Outside, Return(t, l) PROVE SignalsExact'
  BY <1>0, <1>3, StatusCalm DEF Return, Forget, Goto, SignalsExact
<1>4. ASSUME Wait(t) PROVE SignalsExact'
  <2>1. CASE EnterMonitor(t)
    BY <2>1 DEF EnterMonitor, Lock, Goto, SignalsExact
  <2>2. CASE WaitSkip(t)
    BY <2>2, StatusCalm DEF WaitSkip, SignalsExact
  <2>3. CASE WaitSleep(t)
    BY <1>0, <2>3 DEF WaitSleep, Unlock, Goto, SignalsExact
  <2>4. CASE Wake(t)
    <3>1. pending[t] # {}
      BY <2>4, StatusCalm DEF Wake
    <3>2. pending[t] = {SIGNALED}
      BY <3>1 DEF SignalsExact
    <3> QED
      BY <2>4, <3>2, StatusCalm DEF Wake, EndSleep, Goto, SignalsExact
  <2>5. CASE Expire(t)
    BY <2>5 DEF Expire, SignalsExact
  <2>6. CASE WaitReturn(t)
    BY <2>6 DEF WaitReturn, Lock, Goto, SignalsExact
  <2> QED
    BY <1>4, <2>1, <2>2, <2>3, <2>4, <2>5, <2>6 DEF Wait, WaitForLock, WaitRun
<1>5. ASSUME ScanSkip(t) PROVE SignalsExact'
  BY <1>5 DEF ScanSkip, SignalsExact
<1>6. ASSUME Backoff(t) PROVE SignalsExact'
  BY <1>6 DEF Backoff, Scanned, Goto, SignalsExact
<1>7. ASSUME Retry(t) PROVE SignalsExact'
  BY <1>7 DEF Retry, StartScan, Goto, SignalsExact
<1>8. ASSUME Outsiders(t) PROVE SignalsExact'
  <2>1. ~Interrupt(t)
    BY DEF Interrupt, Calm
  <2>2. CASE Interrupted(t)
    BY <2>2 DEF Interrupted, AfterIsInterrupted, SignalsExact
  <2>3. ASSUME NEW x \in Observers, Observe(x, t) PROVE SignalsExact'
    BY <1>0, <2>3 DEF Observe, Lock, SignalsExact
  <2>4. ASSUME NEW x \in Observers, Observed(x, t) PROVE SignalsExact'
    BY <1>0, <2>4 DEF Observed, Unlock, SignalsExact
  <2> QED BY <1>8, <2>1, <2>2, <2>3, <2>4 DEF Outsiders
<1> HIDE DEF WaitTypeOK
<1> QED
  BY <1>1, <1>2, <1>3, <1>4, <1>5, <1>6, <1>7, <1>8 DEF Keeping

LEMMA KeepingGrant ==
  ASSUME Calm, NEW Outside, Apart(Outside), GrantInv(Outside),
         NEW t \in Threads, Keeping(t, Outside)
  PROVE  SameGrant /\ OneGrant' /\ UNCHANGED waiters
<1> USE DEF GrantInv, WaitInv, WaitTypeOK, monitors, locals
<1> DEFINE Goal == SameGrant /\ OneGrant' /\ UNCHANGED waiters
           Path == {"w_woken", "w_relock", "r_scan", "r_backoff"}
<1>0. Outside \cap Path = {} /\ "idle" \notin Path
  BY DEF Apart, Inside, Searching
<1>1. ASSUME SameGrant, UNCHANGED waiters,
             \A u \in Threads : pc'[u] = "r_backoff" => waiters # <<>>
      PROVE  Goal
  BY <1>1 DEF SameGrant, OneGrant
\* A step of the control that is not on the path of a grant.
<1>2. ASSUME NEW l, Goto(t, l), UNCHANGED <<waiters, pending>>,
             pc[t] \notin Path, l \notin Path
      PROVE  Goal
  <2>1. SameGrant
    BY <1>2 DEF Goto, SameGrant, Granting
  <2>2. \A u \in Threads : pc'[u] = "r_backoff" => waiters # <<>>
    BY <1>2 DEF Goto, OneGrant
  <2> QED BY <1>1, <1>2, <2>1, <2>2
\* One along the path.
<1>3. ASSUME NEW l \in Path, Goto(t, l), UNCHANGED waiters, Granting(t),
             \A u \in Threads : u # t => pending'[u] = pending[u],
             l = "r_backoff" => waiters # <<>>
      PROVE  Goal
  <2>1. SameGrant
    BY <1>3 DEF Goto, SameGrant, Granting
  <2>2. \A u \in Threads : pc'[u] = "r_backoff" => waiters # <<>>
    BY <1>3 DEF Goto, OneGrant
  <2> QED BY <1>1, <1>3, <2>1, <2>2
<1>4. ASSUME UNCHANGED <<waiters, pending, pc>> PROVE Goal
  BY <1>1, <1>4 DEF SameGrant, OneGrant, Granting
<1>5. ASSUME NEW l \in Outside, NEW k \in Kinds, CallToWait(t, k, l) PROVE Goal
  BY <1>0, <1>2, <1>5 DEF CallToWait
<1>6. ASSUME NEW l \in Outside, Call(t, l) PROVE Goal
  BY <1>0, <1>2, <1>6 DEF Call
<1>7. ASSUME NEW l \in Outside, Return(t, l) PROVE Goal
  BY <1>0, <1>2, <1>7 DEF Return, Forget
<1>8. ASSUME Wait(t) PROVE Goal
  <2>1. CASE EnterMonitor(t)
    BY <1>2, <2>1 DEF EnterMonitor
  <2>2. CASE WaitSkip(t)
    BY <2>2, StatusCalm DEF WaitSkip, SignalsExact
  <2>3. CASE WaitSleep(t)
    BY <1>2, <2>3 DEF WaitSleep
  <2>4. CASE Wake(t)
    <3>1. Granting(t)
      BY <2>4, StatusCalm DEF Wake, Granting
    <3>2. /\ Goto(t, "w_woken") /\ UNCHANGED waiters
          /\ \A u \in Threads : u # t => pending'[u] = pending[u]
      BY <2>4 DEF Wake, EndSleep
    <3> QED BY <1>3, <3>1, <3>2
  <2>5. CASE Expire(t)
    BY <2>5 DEF Expire, SignalsExact
  <2>6. CASE WaitReturn(t)
    BY <1>3, <2>6 DEF WaitReturn, Granting
  <2> QED
    BY <1>8, <2>1, <2>2, <2>3, <2>4, <2>5, <2>6 DEF Wait, WaitForLock, WaitRun
<1>9. ASSUME ScanSkip(t) PROVE Goal
  BY <1>4, <1>9 DEF ScanSkip
<1>10. ASSUME Backoff(t) PROVE Goal
  BY <1>3, <1>10 DEF Backoff, Scanned, AllBusy, Granting
<1>11. ASSUME Retry(t) PROVE Goal
  BY <1>3, <1>11 DEF Retry, StartScan, Granting
<1>12. ASSUME Outsiders(t) PROVE Goal
  <2>1. ~Interrupt(t)
    BY DEF Interrupt, Calm
  <2>2. CASE Interrupted(t)
    <3>1. pending[t] = {} /\ pc[t] = "idle"
      BY <2>2 DEF Interrupted, SignalsExact
    <3>2. UNCHANGED <<waiters, pending, pc>>
      BY <2>2, <3>1 DEF Interrupted, AfterIsInterrupted
    <3> QED BY <1>4, <3>2
  <2>3. ASSUME NEW x \in Observers, Observe(x, t) \/ Observed(x, t) PROVE Goal
    BY <1>4, <2>3 DEF Observe, Observed
  <2> QED BY <1>12, <2>1, <2>2, <2>3 DEF Outsiders
<1> HIDE DEF WaitTypeOK, Goal
<1>13. Goal
  BY <1>5, <1>6, <1>7, <1>8, <1>9, <1>10, <1>11, <1>12 DEF Keeping
<1> QED
  BY <1>13 DEF Goal

LEMMA KeepingStep ==
  ASSUME Calm, NEW Outside, Apart(Outside), GrantInv(Outside),
         NEW t \in Threads, Keeping(t, Outside)
  PROVE  GrantInv(Outside)' /\ SameGrant /\ UNCHANGED waiters
<1>1. Quiet(t, Outside)
  BY DEF Keeping, Quiet, ScanOn
<1>2. WaitInv(Outside)'
  BY <1>1, QuietStep DEF GrantInv, Calm
<1> QED
  BY <1>2, KeepingSignals, KeepingGrant DEF GrantInv

\* A thread enters the list.
LEMMA EnlistGrant ==
  ASSUME Calm, NEW Outside, Apart(Outside), GrantInv(Outside),
         NEW t \in Threads, NEW l \in Outside, NEW rank \in [Threads -> Nat],
         Enlist(t, l, Insert(rank, waiters, t))
  PROVE  GrantInv(Outside)' /\ SameGrant /\ waiters' # <<>>
<1> USE DEF GrantInv, WaitInv, WaitTypeOK, monitors, locals
<1>0. l \notin {"w_wait", "w_relock", "w_sleep", "w_woken", "r_scan", "r_backoff"}
  BY DEF Apart, Inside, Searching
<1>1. WaitInv(Outside)' /\ waiters' # <<>>
  BY EnlistStep DEF Calm
<1>2. SignalsExact'
  BY <1>0 DEF Enlist, Goto, SignalsExact
<1>3. SameGrant
  BY <1>0 DEF Enlist, Goto, SameGrant, Granting
<1>4. OneGrant'
  BY <1>1, <1>3 DEF SameGrant, OneGrant
<1> HIDE DEF WaitInv
<1> QED
  BY <1>1, <1>2, <1>3, <1>4

\* The thread that comes back has the grant, and takes it with it.
LEMMA LeaveGrant ==
  ASSUME Calm, NEW Outside, GrantInv(Outside),
         NEW t \in Threads, Leave(t), Forget(t)
  PROVE  /\ GrantInv(Outside)'
         /\ state[t] = SIGNALED /\ Granting(t)
         /\ \A u \in Threads : ~Granting(u)'
<1> USE DEF GrantInv, WaitInv, WaitTypeOK, monitors, locals
<1>1. WaitInv(Outside)'
  BY LeaveStep DEF Calm
<1>2. Granting(t) /\ pending[t] = {} /\ state[t] = SIGNALED
  BY DEF Leave, Granting, SignalsExact
<1>3. \A u \in Threads : ~Granting(u)'
  BY <1>2 DEF Leave, Forget, Goto, Granting, OneGrant
<1>4. SignalsExact'
  BY StatusCalm DEF Leave, Unlock, Forget, Goto, SignalsExact
<1>5. OneGrant'
  BY <1>3 DEF OneGrant, Granting
<1> HIDE DEF WaitInv
<1> QED
  BY <1>1, <1>2, <1>3, <1>4, <1>5

\* A thread begins to look for a waiter where there was no grant.
LEMMA StartGrant ==
  ASSUME Calm, NEW Outside, Apart(Outside), GrantInv(Outside),
         \A u \in Threads : ~Granting(u),
         NEW t \in Threads, NEW l \in Outside, StartScan(t, l)
  PROVE  GrantInv(Outside)' /\ \A u \in Threads : Granting(u)' <=> u = t
<1> USE DEF GrantInv, WaitInv, WaitTypeOK, monitors, locals
<1>0. l \notin {"w_wait", "w_relock", "w_sleep", "w_woken"}
  BY DEF Apart, Inside
<1>1. WaitInv(Outside)'
  <2>1. Quiet(t, Outside)
    BY DEF Quiet
  <2> QED BY <2>1, QuietStep DEF Calm
<1>2. SignalsExact'
  BY <1>0 DEF StartScan, Goto, SignalsExact
<1>3. \A u \in Threads : Granting(u)' <=> u = t
  BY DEF StartScan, Goto, Granting
<1>4. OneGrant'
  <2>1. \A u \in Threads : pc'[u] # "r_backoff"
    BY DEF StartScan, Goto, Granting
  <2> QED BY <1>3, <2>1 DEF OneGrant
<1> HIDE DEF WaitInv
<1> QED
  BY <1>1, <1>2, <1>3, <1>4

\* Nobody to notify: the grant is dropped.
LEMMA DoneGrant ==
  ASSUME Calm, NEW Outside, Apart(Outside), GrantInv(Outside),
         NEW t \in Threads, ScanDone(t)
  PROVE  /\ GrantInv(Outside)' /\ Granting(t)
         /\ waiters = <<>> /\ UNCHANGED waiters
         /\ \A u \in Threads : ~Granting(u)'
<1> USE DEF GrantInv, WaitInv, WaitTypeOK, monitors, locals
<1>1. WaitInv(Outside)'
  <2>1. Quiet(t, Outside)
    BY DEF Quiet, ScanOn
  <2> QED BY <2>1, QuietStep DEF Calm
<1>2. pc[t] = "r_scan" /\ waiters = <<>> /\ UNCHANGED waiters /\ Granting(t)
  BY DEF ScanDone, Scanned, AllBusy, Granting
<1>3. pending[t] = {}
  BY <1>2 DEF SignalsExact
<1>4. \A u \in Threads : ~Granting(u)'
  BY <1>2, <1>3 DEF ScanDone, EndScan, Goto, Granting, OneGrant
<1>5. SignalsExact'
  BY <1>2 DEF ScanDone, EndScan, Goto, SignalsExact
<1>6. OneGrant'
  BY <1>4 DEF OneGrant, Granting
<1> HIDE DEF WaitInv
<1> QED
  BY <1>1, <1>2, <1>4, <1>5, <1>6

\* The grant goes to the waiter that is notified.
LEMMA NotifyGrant ==
  ASSUME Calm, NEW Outside, Apart(Outside), GrantInv(Outside),
         NEW t \in Threads, ScanNotify(t, waiters)
  PROVE  /\ GrantInv(Outside)' /\ Granting(t) /\ UNCHANGED waiters
         /\ \E w \in Threads : \A u \in Threads : Granting(u)' <=> u = w
<1> USE DEF GrantInv, WaitInv, WaitTypeOK, monitors, locals
<1> DEFINE w == waiters[cursor]
<1>1. WaitInv(Outside)'
  <2>1. Quiet(t, Outside)
    BY DEF Quiet
  <2> QED BY <2>1, QuietStep DEF Calm
<1>2. /\ w \in Threads /\ pc[w] \in Inside /\ mlock[w] = None
      /\ pc[t] = "r_scan" /\ flock = t /\ Goto(t, "idle")
      /\ pending' = [pending EXCEPT ![w] = AfterNotify(@, ANYTHING)]
      /\ UNCHANGED <<waiters, state, kind, mlock>>
  BY WaiterInside DEF ScanNotify, Scanning, EndScan, LocksHeld
<1>3. w # t
  BY <1>2 DEF Inside
<1> HIDE DEF w
<1>4. Granting(t) /\ \A u \in Threads : u # t => ~Granting(u)
  BY <1>2 DEF Granting, OneGrant
<1>5. pc[w] = "w_sleep"
  <2>1. pc[w] \notin {"w_wait", "w_relock"}
    BY <1>2 DEF SignalsExact, Calm, WaitingAssumption
  <2>2. pc[w] # "w_monitor"
    BY <1>2, <1>3 DEF LocksHeld
  <2>3. pc[w] # "w_woken"
    BY <1>2, <1>3, <1>4 DEF Granting
  <2> QED BY <1>2, <2>1, <2>2, <2>3 DEF Inside
<1>6. pending[t] = {} /\ pending[w] = {}
  BY <1>2, <1>3, <1>4 DEF Granting, SignalsExact
<1>7. pending' = [pending EXCEPT ![w] = {SIGNALED}]
  BY <1>2, <1>6, StatusCalm
<1>8. SignalsExact'
  BY <1>2, <1>5, <1>7 DEF Goto, SignalsExact
<1>9. \A u \in Threads : Granting(u)' <=> u = w
  BY <1>2, <1>3, <1>4, <1>6, <1>7 DEF Goto, Granting
<1>10. OneGrant'
  <2>1. \A u \in Threads : pc'[u] # "r_backoff"
    BY <1>2, <1>4 DEF Goto, Granting
  <2> QED BY <1>9, <2>1 DEF OneGrant
<1> HIDE DEF WaitInv
<1> QED
  BY <1>1, <1>2, <1>4, <1>8, <1>9, <1>10

=============================================================================
