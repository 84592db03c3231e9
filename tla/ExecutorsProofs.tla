--------------------------- MODULE ExecutorsProofs ---------------------------
(***************************************************************************)
(* For any number of tasks, clients and threads of a pool: the groups of a *)
(* WaiterQueue count their tasks exactly, whoever returns from wait() was  *)
(* right to, unless ids repeat, and no task of a pool suffers an interrupt *)
(* that came before it.                                                    *)
(*                                                                         *)
(* First, what holds of the groups alone, as a list; then WaiterInv, which *)
(* relates them to the tasks and to the clients, and that each operation   *)
(* of WaiterQueue keeps it; last, each executor.                           *)
(***************************************************************************)
EXTENDS MCExecutors, FiniteSetTheorems, WellFoundedInduction, SequenceTheorems, TLAPS

-----------------------------------------------------------------------------
(* Numbers and lists. *)

\* No element occurs twice in q.
Distinct(q) == \A i, j \in DOMAIN q : q[i] = q[j] => i = j

\* A set of numbers that is not empty has a least one.
LEMMA Least ==
  ASSUME NEW S \in SUBSET Nat, S # {}
  PROVE  \E n \in S : \A k \in S : n <= k
<1>1. PICK n \in S : \A k \in S : ~(<<k, n>> \in OpToRel(<, Nat))
  BY NatLessThanWellFounded, WFMin
<1>2. \A k \in S : k \in Nat /\ n \in Nat
  OBVIOUS
<1>3. \A k \in S : ~(k < n)
  BY <1>1, <1>2 DEF OpToRel
<1> QED
  BY <1>2, <1>3

LEMMA MinLeast ==
  ASSUME NEW S \in SUBSET Nat, S # {}
  PROVE  Min(S) \in S /\ \A k \in S : Min(S) <= k
  BY Least DEF Min

LEMMA UptoFinite ==
  ASSUME NEW n \in Nat
  PROVE  IsFiniteSet(1 .. n) /\ Cardinality(1 .. n) = n
<1>1. 1 \in Int /\ n \in Int
  OBVIOUS
<1>2. IsFiniteSet(1 .. n)
  BY <1>1, FS_Interval, Zenon
<1>3. Cardinality(1 .. n) = IF 1 > n THEN 0 ELSE n - 1 + 1
  BY <1>1, FS_Interval, Zenon
<1> QED
  BY <1>2, <1>3

\* What a search by id finds: the first group with that id.
LEMMA FindFirst ==
  ASSUME NEW S, groups \in Seq(S), NEW id
  PROVE  /\ Find(id) \in 0 .. Len(groups)
         /\ Find(id) = 0 => \A n \in DOMAIN groups : groups[n].id # id
         /\ Find(id) # 0 => /\ groups[Find(id)].id = id
                            /\ \A n \in 1 .. Find(id) - 1 : groups[n].id # id
<1> DEFINE I == {i \in 1 .. Len(groups) : groups[i].id = id}
<1>1. Len(groups) \in Nat /\ DOMAIN groups = 1 .. Len(groups)
  OBVIOUS
<1>2. Find(id) = IF I # {} THEN Min(I) ELSE 0
  BY DEF Find, SelectInSeq
<1>3. I \in SUBSET Nat
  BY <1>1
<1>4. I # {} => Min(I) \in I /\ \A k \in I : Min(I) <= k
  BY <1>3, MinLeast
<1>5. CASE I = {}
  BY <1>1, <1>2, <1>5
<1>6. CASE I # {}
  <2>1. Find(id) \in I /\ \A k \in I : Find(id) <= k
    BY <1>2, <1>4, <1>6
  <2> QED BY <1>1, <2>1
<1> QED
  BY <1>5, <1>6

\* Among(q, S) is a list of the elements of q that are in S.
LEMMA AmongList ==
  ASSUME NEW X, NEW q \in Seq(X), NEW S
  PROVE  /\ Among(q, S) \in Seq(X)
         /\ ToSet(Among(q, S)) = ToSet(q) \cap S
         /\ Distinct(q) => Distinct(Among(q, S))
<1> DEFINE D == 1 .. Len(q)
           K(i) == {j \in 1 .. i : q[j] \in S}
           f == [i \in 0 .. Len(q) |-> Cardinality(K(i))]
           r == Among(q, S)
           at(n) == CHOOSE i \in DOMAIN q : q[i] \in S /\ Cardinality({j \in 1 .. i : q[j] \in S}) = n
           total == f[Len(q)]
<1>1. Len(q) \in Nat /\ DOMAIN q = D
  OBVIOUS
<1>2. \A i \in 0 .. Len(q) : IsFiniteSet(K(i)) /\ f[i] \in Nat
  <2> TAKE i \in 0 .. Len(q)
  <2>1. IsFiniteSet(1 .. i) /\ K(i) \in SUBSET (1 .. i)
    BY <1>1, UptoFinite
  <2>2. IsFiniteSet(K(i))
    BY <2>1, FS_Subset
  <2> QED BY <2>2, FS_CardinalityType
<1>3. f[0] = 0
  BY <1>1, FS_EmptySet
<1>4. \A i \in D : f[i] = IF q[i] \in S THEN f[i - 1] + 1 ELSE f[i - 1]
  <2> TAKE i \in D
  <2>1. i - 1 \in 0 .. Len(q) /\ i \in 0 .. Len(q) /\ i \notin K(i - 1)
    BY <1>1
  <2>2. K(i) = IF q[i] \in S THEN K(i - 1) \cup {i} ELSE K(i - 1)
    BY <1>1
  <2>3. Cardinality(K(i - 1) \cup {i}) = Cardinality(K(i - 1)) + 1
    BY <1>2, <2>1, FS_AddElement
  <2> QED BY <2>1, <2>2, <2>3
<1>5. {i \in DOMAIN q : q[i] \in S} = K(Len(q))
  BY <1>1
<1>6. DOMAIN r = 1 .. total /\ \A n \in 1 .. total : r[n] = q[at(n)]
  BY <1>1, <1>5 DEF Among
<1>7. \A i \in D : Cardinality({j \in 1 .. i : q[j] \in S}) = f[i]
  BY <1>1
<1>8. \A i \in 0 .. Len(q) : f[i] \in Nat
  BY <1>2
<1> HIDE DEF f, K
<1>9. total \in Nat
  BY <1>1, <1>8
\* f does not decrease, and so an index in S is the only one with its number.
<1>10. \A i, j \in 0 .. Len(q) : i <= j => f[i] <= f[j]
  <2> SUFFICES ASSUME NEW i \in 0 .. Len(q), NEW j \in 0 .. Len(q), i <= j, f[i] > f[j]
               PROVE  FALSE
    BY <1>8
  <2> DEFINE T == {k \in i .. Len(q) : f[k] < f[i]}
  <2>1. T \in SUBSET Nat /\ j \in T
    BY <1>1, <1>2
  <2>2. PICK k \in T : \A m \in T : k <= m
    BY <2>1, Least
  <2>3. k # i /\ k - 1 \in i .. Len(q) /\ k \in D
    BY <1>1, <1>8, <2>2
  <2>4. f[k - 1] <= f[k] /\ f[k - 1] \in Nat /\ f[k] \in Nat /\ f[i] \in Nat
    BY <1>1, <1>8, <1>4, <2>3
  <2>5. k - 1 \in T
    BY <1>1, <2>2, <2>3, <2>4
  <2> QED BY <1>1, <2>2, <2>3, <2>5
<1>11. \A i, j \in D : q[i] \in S /\ q[j] \in S /\ f[i] = f[j] => i = j
  <2>1. ASSUME NEW i \in D, NEW j \in D, q[j] \in S, i < j PROVE f[i] # f[j]
    <3>1. f[i] <= f[j - 1] /\ f[j] = f[j - 1] + 1 /\ f[i] \in Nat /\ f[j - 1] \in Nat
      BY <1>1, <1>8, <1>4, <1>10, <2>1
    <3> QED BY <3>1
  <2> QED BY <1>1, <2>1
\* Each number belongs to an index in S.
<1>12. \A n \in 1 .. total : \E i \in D : q[i] \in S /\ f[i] = n
  <2> TAKE n \in 1 .. total
  <2> DEFINE T == {k \in 0 .. Len(q) : f[k] >= n}
  <2>1. T \in SUBSET Nat /\ Len(q) \in T
    BY <1>1, <1>9
  <2>2. PICK k \in T : \A m \in T : k <= m
    BY <2>1, Least
  <2>3. k \in D /\ k - 1 \in 0 .. Len(q) /\ k - 1 \notin T
    BY <1>1, <1>3, <1>9, <2>2
  <2>4. f[k] >= n /\ f[k - 1] < n /\ f[k] \in Nat /\ f[k - 1] \in Nat
    BY <1>1, <1>8, <1>9, <2>2, <2>3
  <2>5. f[k] = IF q[k] \in S THEN f[k - 1] + 1 ELSE f[k - 1]
    BY <1>4, <2>3
  <2>6. q[k] \in S /\ f[k] = n
    BY <1>9, <2>4, <2>5
  <2> QED BY <2>3, <2>6
<1>13. \A n \in 1 .. total : at(n) \in D /\ q[at(n)] \in S /\ f[at(n)] = n
  BY <1>1, <1>7, <1>12
<1> HIDE DEF at, total
<1>14. r \in Seq(X) /\ Len(r) = total
  <2>1. r = [n \in 1 .. total |-> r[n]]
    BY <1>5, <1>7 DEF Among, total, f
  <2>2. \A n \in 1 .. total : r[n] \in X
    <3> TAKE n \in 1 .. total
    <3>1. r[n] = q[at(n)] /\ at(n) \in 1 .. Len(q)
      BY <1>6, <1>13
    <3> HIDE DEF r
    <3> QED BY <3>1
  <2> HIDE DEF r
  <2> QED BY <1>9, <2>1, <2>2
<1> HIDE DEF r
<1>15. ToSet(r) = ToSet(q) \cap S
  <2>1. \A n \in 1 .. total : r[n] \in S /\ \E i \in D : r[n] = q[i]
    BY <1>6, <1>13
  <2>2. \A i \in D : q[i] \in S => \E n \in 1 .. total : r[n] = q[i]
    <3> SUFFICES ASSUME NEW i \in D, q[i] \in S PROVE \E n \in 1 .. total : r[n] = q[i]
      OBVIOUS
    <3>1. f[i] \in Nat /\ f[i - 1] \in Nat /\ f[i] = f[i - 1] + 1 /\ f[i] <= total
      BY <1>1, <1>8, <1>4, <1>10 DEF total
    <3>2. f[i] \in 1 .. total
      BY <1>9, <3>1
    <3>3. at(f[i]) = i
      BY <1>11, <1>13, <3>2
    <3> QED BY <1>6, <3>2, <3>3
  <2>3. ASSUME NEW x \in ToSet(r) PROVE x \in ToSet(q) \cap S
    <3>1. PICK n \in 1 .. total : x = r[n]
      BY <1>6, <2>3 DEF ToSet
    <3> QED BY <1>1, <2>1, <3>1 DEF ToSet
  <2>4. ASSUME NEW x \in ToSet(q) \cap S PROVE x \in ToSet(r)
    <3>1. PICK i \in D : x = q[i]
      BY <1>1, <2>4 DEF ToSet
    <3> QED BY <1>6, <2>2, <2>4, <3>1 DEF ToSet
  <2> QED BY <2>3, <2>4
<1>16. Distinct(q) => Distinct(r)
  <2>1. SUFFICES ASSUME Distinct(q), NEW m \in 1 .. total, NEW n \in 1 .. total, r[m] = r[n]
                 PROVE  m = n
    BY <1>6 DEF Distinct
  <2>2. at(m) = at(n)
    BY <1>1, <1>6, <1>13, <2>1 DEF Distinct
  <2> QED BY <1>13, <2>2
<1> QED
  BY <1>14, <1>15, <1>16 DEF r

-----------------------------------------------------------------------------
(* Lists of groups.  M says which tasks are counted under each id.         *)

Records == [id : Nat, count : Int, waiters : Seq(Clients)]

TwinsIn(gs) == Len(gs) > 1 /\ gs[1].id = gs[2].id

\* The ids grow, except that the first two can be the same.
Orderly(gs, fresh) ==
  /\ \A m, n \in DOMAIN gs :
       m < n => gs[m].id < gs[n].id \/ (m = 1 /\ n = 2 /\ gs[m].id = gs[n].id)
  /\ \A n \in DOMAIN gs : gs[n].id < fresh \/ (gs[n].id = fresh /\ Len(gs) = 1)

Matching(gs, M) ==
  /\ \A n \in DOMAIN gs :
       n > 2 \/ ~TwinsIn(gs) => gs[n].count = Cardinality(M[gs[n].id])
  /\ TwinsIn(gs) => gs[1].count + gs[2].count = Cardinality(M[gs[1].id])

Staying(gs, M) == \A id \in Nat : M[id] # {} => \E n \in DOMAIN gs : gs[n].id = id

Exact(gs, fresh, M) == Orderly(gs, fresh) /\ Matching(gs, M) /\ Staying(gs, M)

Memberships == [Nat -> SUBSET Tasks]

LEMMA MembersFinite ==
  ASSUME NEW T \in SUBSET Tasks
  PROVE  IsFiniteSet(T) /\ Cardinality(T) \in Nat /\ (Cardinality(T) = 0 <=> T = {})
<1>1. IsFiniteSet(Tasks)
  BY ExecutorAssumption, UptoFinite DEF Tasks
<1>2. IsFiniteSet(T)
  BY <1>1, FS_Subset
<1> QED
  BY <1>2, FS_CardinalityType, FS_EmptySet

LEMMA RecordTypes ==
  ASSUME NEW gs \in Seq(Records), NEW m \in 1 .. Len(gs)
  PROVE  gs[m].id \in Nat /\ gs[m].count \in Int /\ gs[m].waiters \in Seq(Clients)
<1>1. gs[m] \in Records
  OBVIOUS
<1> QED
  BY <1>1 DEF Records

LEMMA CountChanged ==
  ASSUME NEW gs \in Seq(Records), NEW n \in DOMAIN gs, NEW d \in Int
  PROVE  LET hs == [gs EXCEPT ![n].count = d] IN
         /\ hs \in Seq(Records) /\ Len(hs) = Len(gs)
         /\ \A m \in DOMAIN gs :
              /\ hs[m].id = gs[m].id /\ hs[m].waiters = gs[m].waiters
              /\ hs[m].count = IF m = n THEN d ELSE gs[m].count
<1> DEFINE r == [gs[n] EXCEPT !.count = d]
           hs == [gs EXCEPT ![n] = r]
<1>1. gs[n] \in Records /\ DOMAIN gs = 1 .. Len(gs) /\ Len(gs) \in Nat
  OBVIOUS
<1>2. r \in Records /\ r.id = gs[n].id /\ r.count = d /\ r.waiters = gs[n].waiters
  BY <1>1 DEF Records
<1>3. hs = [gs EXCEPT ![n].count = d]
  OBVIOUS
<1> HIDE DEF r
<1>4. hs \in Seq(Records) /\ Len(hs) = Len(gs) /\ \A m \in DOMAIN gs : hs[m] = IF m = n THEN r ELSE gs[m]
  BY <1>1, <1>2
<1> HIDE DEF hs
<1> QED BY <1>2, <1>3, <1>4

LEMMA WaitersChanged ==
  ASSUME NEW gs \in Seq(Records), NEW n \in DOMAIN gs, NEW q \in Seq(Clients)
  PROVE  LET hs == [gs EXCEPT ![n].waiters = q] IN
         /\ hs \in Seq(Records) /\ Len(hs) = Len(gs)
         /\ \A m \in DOMAIN gs :
              /\ hs[m].id = gs[m].id /\ hs[m].count = gs[m].count
              /\ hs[m].waiters = IF m = n THEN q ELSE gs[m].waiters
<1> DEFINE r == [gs[n] EXCEPT !.waiters = q]
           hs == [gs EXCEPT ![n] = r]
<1>1. gs[n] \in Records /\ DOMAIN gs = 1 .. Len(gs) /\ Len(gs) \in Nat
  OBVIOUS
<1>2. r \in Records /\ r.id = gs[n].id /\ r.count = gs[n].count /\ r.waiters = q
  BY <1>1 DEF Records
<1>3. hs = [gs EXCEPT ![n].waiters = q]
  OBVIOUS
<1> HIDE DEF r
<1>4. hs \in Seq(Records) /\ Len(hs) = Len(gs) /\ \A m \in DOMAIN gs : hs[m] = IF m = n THEN r ELSE gs[m]
  BY <1>1, <1>2
<1> HIDE DEF hs
<1> QED BY <1>2, <1>3, <1>4

\* hs has the groups of gs, whoever waits for them.
LEMMA SameExact ==
  ASSUME NEW gs \in Seq(Records), NEW hs \in Seq(Records), Len(hs) = Len(gs), gs # <<>>,
         \A m \in DOMAIN gs : hs[m].id = gs[m].id /\ hs[m].count = gs[m].count,
         NEW fresh \in Nat, NEW M \in Memberships, Exact(gs, fresh, M)
  PROVE  Exact(hs, fresh, M)
<1>1. DOMAIN gs = 1 .. Len(gs) /\ DOMAIN hs = 1 .. Len(gs) /\ Len(gs) \in Nat
  OBVIOUS
<1>2. TwinsIn(hs) <=> TwinsIn(gs)
  BY <1>1 DEF TwinsIn
<1>3. Orderly(hs, fresh)
  BY <1>1 DEF Exact, Orderly
<1>4. Matching(hs, M)
  BY <1>1, <1>2 DEF Exact, Matching, TwinsIn
<1>5. Staying(hs, M)
  BY <1>1 DEF Exact, Staying
<1> QED
  BY <1>3, <1>4, <1>5 DEF Exact

\* The last group counts one more.
LEMMA OnExact ==
  ASSUME NEW gs \in Seq(Records), NEW hs \in Seq(Records), Len(hs) = Len(gs), gs # <<>>,
         \A m \in DOMAIN gs :
           /\ hs[m].id = gs[m].id
           /\ hs[m].count = IF m = Len(gs) THEN gs[m].count + 1 ELSE gs[m].count,
         NEW fresh \in Nat, NEW M \in Memberships, Exact(gs, fresh, M),
         NEW i \in Tasks, \A id \in Nat : i \notin M[id]
  PROVE  Exact(hs, fresh, [M EXCEPT ![gs[Len(gs)].id] = @ \cup {i}])
<1> DEFINE n == Len(gs)
           g == gs[n].id
           M2 == [M EXCEPT ![g] = @ \cup {i}]
<1>1. DOMAIN gs = 1 .. Len(gs) /\ DOMAIN hs = 1 .. Len(gs) /\ n \in Nat /\ n \in 1 .. Len(gs)
  OBVIOUS
<1>2. TwinsIn(hs) <=> TwinsIn(gs)
  BY <1>1 DEF TwinsIn
<1>3. \A m \in 1 .. n : gs[m].id \in Nat /\ gs[m].count \in Int
  BY RecordTypes
<1>4. /\ \A id \in Nat : M2[id] = IF id = g THEN M[id] \cup {i} ELSE M[id]
      /\ \A id \in Nat : M[id] \subseteq Tasks
  BY DEF Memberships
<1>5. Cardinality(M2[g]) = Cardinality(M[g]) + 1
  <2>1. g \in Nat
    BY <1>1, <1>3
  <2>2. IsFiniteSet(M[g]) /\ i \notin M[g] /\ M2[g] = M[g] \cup {i}
    BY <1>4, <2>1, MembersFinite
  <2> QED BY <2>2, FS_AddElement
<1>6. \A id \in Nat : Cardinality(M[id]) \in Nat
  BY <1>4, MembersFinite
<1> HIDE DEF M2
<1>7. Orderly(hs, fresh)
  BY <1>1 DEF Exact, Orderly
<1>8. Matching(hs, M2)
  <2>1. ASSUME NEW m \in 1 .. n, m > 2 \/ ~TwinsIn(gs)
        PROVE  hs[m].count = Cardinality(M2[hs[m].id])
    <3>1. gs[m].count = Cardinality(M[gs[m].id])
      BY <1>1, <2>1 DEF Exact, Matching
    <3>2. m # n => gs[m].id # g
      <4>1. m < n => gs[m].id < g \/ (m = 1 /\ n = 2 /\ gs[m].id = g)
        BY <1>1 DEF Exact, Orderly
      <4> HIDE DEF n, g
      <4>2. m = 1 /\ n = 2 /\ gs[m].id = g => TwinsIn(gs)
        BY DEF TwinsIn, n, g
      <4>3. gs[m].id \in Nat /\ g \in Nat
        BY <1>1, <1>3 DEF n, g
      <4> QED BY <1>1, <2>1, <4>1, <4>2, <4>3
    <3> QED BY <1>1, <1>3, <1>4, <1>5, <3>1, <3>2
  <2>2. ASSUME TwinsIn(gs) PROVE hs[1].count + hs[2].count = Cardinality(M2[hs[1].id])
    <3>1. gs[1].count + gs[2].count = Cardinality(M[gs[1].id]) /\ n > 1 /\ gs[1].id = gs[2].id
      BY <1>1, <2>2 DEF Exact, Matching, TwinsIn
    <3>2. 1 \in 1 .. n /\ 2 \in 1 .. n
      BY <1>1, <3>1
    <3>3. CASE n = 2
      <4>1. gs[1].count \in Int /\ gs[2].count \in Int /\ gs[1].id = g /\ hs[1].id = g
        BY <1>1, <1>3, <3>1, <3>2, <3>3
      <4>2. hs[1].count = gs[1].count /\ hs[2].count = gs[2].count + 1
        BY <1>1, <3>2, <3>3
      <4>3. Cardinality(M[g]) \in Nat
        BY <1>3, <1>6, <3>2, <4>1
      <4> QED BY <1>5, <3>1, <4>1, <4>2, <4>3
    <3>4. CASE n > 2
      <4>1. gs[1].id < g /\ gs[1].id \in Nat /\ g \in Nat
        <5>1. n \in 1 .. n /\ 1 < n
          BY <1>1, <3>4
        <5>2. gs[1].id < g \/ n = 2
          BY <1>1, <3>2, <5>1 DEF Exact, Orderly
        <5>3. gs[1].id \in Nat /\ g \in Nat
          BY <1>3, <3>2, <5>1
        <5> QED BY <3>4, <5>2, <5>3
      <4>2. M2[gs[1].id] = M[gs[1].id]
        <5>1. gs[1].id \in Nat /\ gs[1].id # g
          BY <4>1
        <5> HIDE DEF g
        <5> QED BY <1>4, <5>1
      <4>3. hs[1].count = gs[1].count /\ hs[2].count = gs[2].count /\ hs[1].id = gs[1].id
        BY <1>1, <3>2, <3>4
      <4> QED BY <3>1, <4>2, <4>3
    <3> QED BY <1>1, <3>1, <3>3, <3>4
  <2> QED BY <1>1, <1>2, <2>1, <2>2 DEF Matching
<1>9. Staying(hs, M2)
  BY <1>1, <1>4 DEF Exact, Staying
<1> QED
  BY <1>7, <1>8, <1>9 DEF Exact, M2

\* A new group, which counts none, gets the next id.
LEMMA AppendExact ==
  ASSUME NEW gs \in Seq(Records), gs # <<>>,
         NEW fresh \in Nat, NEW M \in Memberships, Exact(gs, fresh, M)
  PROVE  LET hs == Append(gs, Group(fresh)) IN
         /\ hs \in Seq(Records) /\ Exact(hs, fresh + 1, M)
         /\ TwinsIn(hs) => TwinsIn(gs) \/ gs[Len(gs)].id = fresh
<1> DEFINE n == Len(gs)
           hs == Append(gs, Group(fresh))
<1>1. Group(fresh) \in Records /\ Group(fresh).id = fresh /\ Group(fresh).count = 0
  BY DEF Group, Records
<1>2. n \in Nat /\ n > 0 /\ DOMAIN gs = 1 .. n
  OBVIOUS
<1>3. /\ hs \in Seq(Records) /\ Len(hs) = n + 1 /\ DOMAIN hs = 1 .. n + 1
      /\ \A m \in 1 .. n : hs[m] = gs[m]
      /\ hs[n + 1] = Group(fresh)
  BY <1>1, <1>2
<1> HIDE DEF hs
<1>4. \A m \in 1 .. n : gs[m].id \in Nat /\ gs[m].count \in Int
  BY RecordTypes
<1>5. \A m \in 1 .. n : gs[m].id < fresh \/ (gs[m].id = fresh /\ n = 1)
  BY <1>2 DEF Exact, Orderly
<1>6. Orderly(hs, fresh + 1)
  <2>1. ASSUME NEW m \in 1 .. n + 1, NEW k \in 1 .. n + 1, m < k
        PROVE  hs[m].id < hs[k].id \/ (m = 1 /\ k = 2 /\ hs[m].id = hs[k].id)
    <3>1. CASE k = n + 1
      BY <1>1, <1>2, <1>3, <1>5, <2>1, <3>1
    <3>2. CASE k # n + 1
      BY <1>2, <1>3, <2>1, <3>2 DEF Exact, Orderly
    <3> QED BY <3>1, <3>2
  <2>2. \A m \in 1 .. n + 1 : hs[m].id < fresh + 1
    BY <1>1, <1>2, <1>3, <1>4, <1>5
  <2> QED BY <1>3, <2>1, <2>2 DEF Orderly
<1>7. \A id \in Nat : M[id] \subseteq Tasks
  BY DEF Memberships
<1>8. \A id \in Nat : (\A m \in 1 .. n : gs[m].id # id) => Cardinality(M[id]) = 0
  BY <1>2, <1>7, MembersFinite DEF Exact, Staying
<1>9. Matching(hs, M)
  <2>1. CASE n = 1 /\ gs[1].id = fresh
    <3>1. TwinsIn(hs) /\ ~TwinsIn(gs)
      BY <1>1, <1>2, <1>3, <2>1 DEF TwinsIn
    <3>2. gs[1].count = Cardinality(M[gs[1].id])
      BY <1>2, <2>1, <3>1 DEF Exact, Matching
    <3> QED BY <1>1, <1>2, <1>3, <1>4, <2>1, <3>1, <3>2 DEF Matching
  <2>2. CASE ~(n = 1 /\ gs[1].id = fresh)
    <3>1. \A m \in 1 .. n : gs[m].id # fresh
      BY <1>2, <1>4, <1>5, <2>2
    <3>2. hs[n + 1].count = Cardinality(M[hs[n + 1].id])
      BY <1>1, <1>3, <1>8, <3>1
    <3>3. TwinsIn(hs) <=> TwinsIn(gs)
      <4>1. CASE n = 1
        BY <1>1, <1>2, <1>3, <3>1, <4>1 DEF TwinsIn
      <4>2. CASE n > 1
        BY <1>2, <1>3, <4>2 DEF TwinsIn
      <4> QED BY <1>2, <4>1, <4>2
    <3>4. TwinsIn(gs) => hs[1] = gs[1] /\ hs[2] = gs[2]
      BY <1>2, <1>3 DEF TwinsIn
    <3>5. ASSUME NEW m \in 1 .. n + 1, m > 2 \/ ~TwinsIn(gs)
          PROVE  hs[m].count = Cardinality(M[hs[m].id])
      <4>1. CASE m \in 1 .. n
        BY <1>2, <1>3, <3>5, <4>1 DEF Exact, Matching
      <4>2. CASE m = n + 1
        BY <3>2, <4>2
      <4> QED BY <1>2, <4>1, <4>2
    <3> QED BY <1>3, <3>3, <3>4, <3>5 DEF Exact, Matching
  <2> QED BY <2>1, <2>2
<1>10. Staying(hs, M)
  <2> SUFFICES ASSUME NEW id \in Nat, M[id] # {} PROVE \E m \in DOMAIN hs : hs[m].id = id
    BY DEF Staying
  <2>1. PICK m \in 1 .. n : gs[m].id = id
    BY <1>2 DEF Exact, Staying
  <2> QED BY <1>2, <1>3, <2>1
<1>11. TwinsIn(hs) => TwinsIn(gs) \/ gs[n].id = fresh
  BY <1>1, <1>2, <1>3 DEF TwinsIn
<1> QED
  BY <1>3, <1>6, <1>9, <1>10, <1>11 DEF Exact, hs

\* The first group with a task's id counts one less.
LEMMA OffExact ==
  ASSUME NEW gs \in Seq(Records), NEW hs \in Seq(Records), Len(hs) = Len(gs),
         NEW n \in DOMAIN gs, \A m \in 1 .. n - 1 : gs[m].id # gs[n].id,
         \A m \in DOMAIN gs :
           /\ hs[m].id = gs[m].id
           /\ hs[m].count = IF m = n THEN gs[m].count - 1 ELSE gs[m].count,
         NEW fresh \in Nat, NEW M \in Memberships, Exact(gs, fresh, M),
         NEW i \in M[gs[n].id]
  PROVE  Exact(hs, fresh, [M EXCEPT ![gs[n].id] = @ \ {i}])
<1> DEFINE g == gs[n].id
           M2 == [M EXCEPT ![g] = @ \ {i}]
<1>1. DOMAIN gs = 1 .. Len(gs) /\ DOMAIN hs = 1 .. Len(gs) /\ Len(gs) \in Nat /\ n \in 1 .. Len(gs)
  OBVIOUS
<1>2. TwinsIn(hs) <=> TwinsIn(gs)
  BY <1>1 DEF TwinsIn
<1>3. \A m \in 1 .. Len(gs) : gs[m].id \in Nat /\ gs[m].count \in Int
  BY RecordTypes
<1>4. /\ \A id \in Nat : M2[id] = IF id = g THEN M[id] \ {i} ELSE M[id]
      /\ \A id \in Nat : M[id] \subseteq Tasks
  BY DEF Memberships
<1>5. Cardinality(M2[g]) = Cardinality(M[g]) - 1
  <2>1. g \in Nat
    BY <1>1, <1>3
  <2>2. IsFiniteSet(M[g]) /\ i \in M[g] /\ M2[g] = M[g] \ {i}
    BY <1>4, <2>1, MembersFinite
  <2> QED BY <2>2, FS_RemoveElement
<1>6. \A id \in Nat : Cardinality(M[id]) \in Nat
  BY <1>4, MembersFinite
<1> HIDE DEF M2
<1>7. Orderly(hs, fresh)
  BY <1>1 DEF Exact, Orderly
<1>8. Matching(hs, M2)
  <2>1. ASSUME NEW m \in 1 .. Len(gs), m > 2 \/ ~TwinsIn(gs)
        PROVE  hs[m].count = Cardinality(M2[hs[m].id])
    <3>1. gs[m].count = Cardinality(M[gs[m].id])
      BY <1>1, <2>1 DEF Exact, Matching
    <3>2. m # n => gs[m].id # g
      <4>1. m < n => gs[m].id # g
        BY <1>1
      <4>2. n < m => g < gs[m].id \/ (n = 1 /\ m = 2 /\ gs[1].id = gs[2].id)
        BY <1>1 DEF Exact, Orderly
      <4>3. ~(n = 1 /\ m = 2 /\ gs[1].id = gs[2].id)
        BY <1>1, <2>1 DEF TwinsIn
      <4>4. gs[m].id \in Nat /\ g \in Nat
        BY <1>1, <1>3
      <4> QED BY <1>1, <4>1, <4>2, <4>3, <4>4
    <3>3. CASE m = n
      BY <1>1, <1>3, <1>4, <1>5, <3>1, <3>3
    <3>4. CASE m # n
      <4>1. gs[m].id \in Nat /\ gs[m].id # g
        BY <1>3, <3>2, <3>4
      <4>2. M2[gs[m].id] = M[gs[m].id]
        BY ONLY <1>4, <4>1
      <4> QED BY <1>1, <3>1, <3>4, <4>2
    <3> QED BY <3>3, <3>4
  <2>2. ASSUME TwinsIn(gs) PROVE hs[1].count + hs[2].count = Cardinality(M2[hs[1].id])
    <3>1. /\ gs[1].count + gs[2].count = Cardinality(M[gs[1].id]) /\ gs[1].id = gs[2].id
          /\ 1 \in 1 .. Len(gs) /\ 2 \in 1 .. Len(gs)
      BY <1>1, <2>2 DEF Exact, Matching, TwinsIn
    <3>2. n # 2
      BY <1>1, <3>1
    <3>3. gs[1].count \in Int /\ gs[2].count \in Int /\ gs[1].id \in Nat /\ g \in Nat
      BY <1>1, <1>3, <3>1
    <3>4. CASE n = 1
      <4>1. hs[1].count = gs[1].count - 1 /\ hs[2].count = gs[2].count /\ hs[1].id = g
        BY <1>1, <3>1, <3>4
      <4>2. Cardinality(M[g]) \in Nat
        BY <1>6, <3>3
      <4> QED BY <1>5, <3>1, <3>3, <3>4, <4>1, <4>2
    <3>5. CASE n > 2
      <4>1. gs[1].id # g
        BY <3>5
      <4>2. M2[gs[1].id] = M[gs[1].id]
        BY ONLY <1>4, <3>3, <4>1
      <4>3. hs[1].count = gs[1].count /\ hs[2].count = gs[2].count /\ hs[1].id = gs[1].id
        BY <1>1, <3>1, <3>5
      <4> QED BY <3>1, <4>2, <4>3
    <3> QED BY <1>1, <3>2, <3>4, <3>5
  <2> QED BY <1>1, <1>2, <2>1, <2>2 DEF Matching
<1>9. Staying(hs, M2)
  <2> SUFFICES ASSUME NEW id \in Nat, M2[id] # {} PROVE \E m \in DOMAIN hs : hs[m].id = id
    BY DEF Staying
  <2>1. M[id] # {}
    BY <1>4
  <2> QED BY <1>1, <2>1 DEF Exact, Staying
<1> QED
  BY <1>7, <1>8, <1>9 DEF Exact, M2

\* A task is counted in none of the first groups if those count none.
LEMMA NoneCounted ==
  ASSUME NEW gs \in Seq(Records), NEW k \in 1 .. Len(gs), \A m \in 1 .. k : gs[m].count = 0,
         NEW fresh \in Nat, NEW M \in Memberships, Exact(gs, fresh, M),
         k = 1 => ~TwinsIn(gs)
  PROVE  \A m \in 1 .. k : M[gs[m].id] = {}
<1> SUFFICES ASSUME NEW m \in 1 .. k PROVE M[gs[m].id] = {}
  OBVIOUS
<1>1. DOMAIN gs = 1 .. Len(gs) /\ Len(gs) \in Nat /\ m \in 1 .. Len(gs)
  OBVIOUS
<1>2. gs[m].id \in Nat /\ M[gs[m].id] \in SUBSET Tasks
  BY <1>1, RecordTypes DEF Memberships
<1>3. Cardinality(M[gs[m].id]) = 0
  <2>1. CASE m > 2 \/ ~TwinsIn(gs)
    BY <1>1, <2>1 DEF Exact, Matching
  <2>2. CASE ~(m > 2) /\ TwinsIn(gs)
    <3>1. gs[1].count = 0 /\ gs[2].count = 0 /\ gs[m].id = gs[1].id
      BY <1>1, <2>2 DEF TwinsIn
    <3> QED BY <2>2, <3>1 DEF Exact, Matching
  <2> QED BY <2>1, <2>2
<1> QED
  BY <1>2, <1>3, MembersFinite

\* The groups from the k-th, when those before count none.
LEMMA DropExact ==
  ASSUME NEW gs \in Seq(Records), NEW k \in 1 .. Len(gs), \A m \in 1 .. k - 1 : gs[m].count = 0,
         NEW fresh \in Nat, NEW M \in Memberships, Exact(gs, fresh, M)
  PROVE  LET hs == SubSeq(gs, k, Len(gs)) IN
         /\ hs \in Seq(Records) /\ Len(hs) = Len(gs) - k + 1
         /\ \A m \in 1 .. Len(gs) - k + 1 : hs[m] = gs[k + m - 1]
         /\ Exact(hs, fresh, M) /\ (TwinsIn(hs) => TwinsIn(gs))
<1> DEFINE hs == SubSeq(gs, k, Len(gs))
           l == Len(gs) - k + 1
<1>1. DOMAIN gs = 1 .. Len(gs) /\ Len(gs) \in Nat /\ l \in Nat /\ l > 0
  OBVIOUS
<1>2. hs \in Seq(Records) /\ Len(hs) = l /\ \A m \in 1 .. l : hs[m] = gs[k + m - 1]
  OBVIOUS
<1> HIDE DEF hs
<1>3. DOMAIN hs = 1 .. l
  BY <1>2
<1>4. CASE k = 1
  <2>1. \A m \in DOMAIN gs : hs[m].id = gs[m].id /\ hs[m].count = gs[m].count
    BY <1>1, <1>2, <1>4
  <2>2. gs # <<>> /\ Len(hs) = Len(gs)
    BY <1>1, <1>2, <1>4
  <2>3. Exact(hs, fresh, M)
    BY <1>2, <2>1, <2>2, SameExact
  <2>4. TwinsIn(hs) => TwinsIn(gs)
    BY <1>1, <2>1, <2>2 DEF TwinsIn
  <2> QED BY <1>2, <2>3, <2>4 DEF hs
<1>5. CASE k > 1
  <2>1. Orderly(hs, fresh) /\ ~TwinsIn(hs)
    <3>1. \A m, n \in 1 .. l : m < n => hs[m].id < hs[n].id
      <4> SUFFICES ASSUME NEW m \in 1 .. l, NEW n \in 1 .. l, m < n PROVE hs[m].id < hs[n].id
        OBVIOUS
      <4>1. k + m - 1 \in 1 .. Len(gs) /\ k + n - 1 \in 1 .. Len(gs) /\ k + m - 1 # 1 /\ k + m - 1 < k + n - 1
        BY <1>1, <1>5
      <4>2. gs[k + m - 1].id < gs[k + n - 1].id
        BY <1>1, <4>1 DEF Exact, Orderly
      <4> QED BY <1>2, <4>2
    <3>2. \A m \in 1 .. l : hs[m].id < fresh
      <4> SUFFICES ASSUME NEW m \in 1 .. l PROVE hs[m].id < fresh
        OBVIOUS
      <4>1. k + m - 1 \in 1 .. Len(gs) /\ Len(gs) # 1
        BY <1>1, <1>5
      <4>2. gs[k + m - 1].id < fresh
        BY <1>1, <4>1 DEF Exact, Orderly
      <4> QED BY <1>2, <4>2
    <3>3. ~TwinsIn(hs)
      <4> SUFFICES ASSUME l > 1, hs[1].id = hs[2].id PROVE FALSE
        BY <1>2 DEF TwinsIn
      <4>1. hs[1].id < hs[2].id /\ hs[1].id \in Nat
        BY <1>1, <1>2, <3>1, RecordTypes
      <4> QED BY <4>1
    <3> QED BY <1>3, <3>1, <3>2, <3>3 DEF Orderly
  <2>2. Matching(hs, M)
    <3> SUFFICES ASSUME NEW m \in 1 .. l PROVE hs[m].count = Cardinality(M[hs[m].id])
      BY <1>3, <2>1 DEF Matching
    <3>1. k + m - 1 \in 1 .. Len(gs) /\ hs[m] = gs[k + m - 1]
      BY <1>1, <1>2
    <3>2. CASE k + m - 1 > 2 \/ ~TwinsIn(gs)
      BY <1>1, <3>1, <3>2 DEF Exact, Matching
    <3>3. CASE ~(k + m - 1 > 2) /\ TwinsIn(gs)
      <4>1. k = 2 /\ m = 1 /\ gs[1].count = 0
        BY <1>1, <1>5, <3>3
      <4>2. gs[1].count + gs[2].count = Cardinality(M[gs[1].id]) /\ gs[1].id = gs[2].id
        BY <3>3 DEF Exact, Matching, TwinsIn
      <4>3. gs[2].count \in Int
        BY <3>1, <4>1, RecordTypes
      <4> QED BY <3>1, <4>1, <4>2, <4>3
    <3> QED BY <3>2, <3>3
  <2>3. Staying(hs, M)
    <3> SUFFICES ASSUME NEW id \in Nat, M[id] # {} PROVE \E m \in DOMAIN hs : hs[m].id = id
      BY DEF Staying
    <3>1. PICK n \in 1 .. Len(gs) : gs[n].id = id
      BY <1>1 DEF Exact, Staying
    <3>2. CASE n >= k
      <4>1. n - k + 1 \in 1 .. l /\ hs[n - k + 1] = gs[n]
        BY <1>1, <1>2, <3>2
      <4> QED BY <1>3, <3>1, <4>1
    <3>3. CASE n < k
      <4>1. k - 1 \in 1 .. Len(gs) /\ n \in 1 .. k - 1
        BY <1>1, <3>3
      <4>2. k - 1 = 1 /\ TwinsIn(gs)
        BY <3>1, <4>1, NoneCounted
      <4>3. n = 1 /\ gs[2].id = id /\ 1 \in 1 .. l /\ hs[1] = gs[2]
        BY <1>1, <1>2, <3>1, <4>1, <4>2 DEF TwinsIn
      <4> QED BY <1>3, <4>3
    <3> QED BY <1>1, <3>2, <3>3
  <2> QED BY <1>2, <2>1, <2>2, <2>3 DEF Exact, hs
<1> QED
  BY <1>4, <1>5

\* When all groups count none, a new one takes their place.
LEMMA EmptyExact ==
  ASSUME NEW gs \in Seq(Records), gs # <<>>, \A m \in DOMAIN gs : gs[m].count = 0,
         NEW fresh \in Nat, NEW M \in Memberships, Exact(gs, fresh, M)
  PROVE  LET hs == <<Group(fresh + 1)>> IN
         /\ hs \in Seq(Records) /\ Exact(hs, fresh + 1, M) /\ ~TwinsIn(hs)
         /\ \A id \in Nat : M[id] = {}
<1> DEFINE hs == <<Group(fresh + 1)>>
<1>1. DOMAIN gs = 1 .. Len(gs) /\ Len(gs) \in Nat /\ Len(gs) \in 1 .. Len(gs)
  OBVIOUS
<1>2. \A id \in Nat : M[id] = {}
  <2> SUFFICES ASSUME NEW id \in Nat, M[id] # {} PROVE FALSE
    OBVIOUS
  <2>1. PICK n \in 1 .. Len(gs) : gs[n].id = id
    BY <1>1 DEF Exact, Staying
  <2>2. Len(gs) = 1 => ~TwinsIn(gs)
    BY DEF TwinsIn
  <2>3. \A m \in 1 .. Len(gs) : M[gs[m].id] = {}
    BY <1>1, <2>2, NoneCounted
  <2> QED BY <2>1, <2>3
<1>3. Group(fresh + 1) \in Records /\ Group(fresh + 1).id = fresh + 1 /\ Group(fresh + 1).count = 0
  BY DEF Group, Records
<1>4. hs \in Seq(Records) /\ Len(hs) = 1 /\ DOMAIN hs = {1} /\ hs[1] = Group(fresh + 1)
  BY <1>3
<1> HIDE DEF hs
<1>5. ~TwinsIn(hs)
  BY <1>4 DEF TwinsIn
<1>6. Cardinality(M[fresh + 1]) = 0
  <2>1. M[fresh + 1] = {}
    BY <1>2
  <2> QED BY <2>1, FS_EmptySet
<1>7. Exact(hs, fresh + 1, M)
  BY <1>2, <1>3, <1>4, <1>5, <1>6 DEF Exact, Orderly, Matching, Staying
<1> QED
  BY <1>2, <1>4, <1>5, <1>7 DEF hs


-----------------------------------------------------------------------------
(* The invariant of the groups and of those who wait for them.             *)

Membership == [id \in Nat |-> Members(id)]

\* Tasks are submitted in their order.
InOrder == \A i, k \in Tasks : i < k /\ stage[k] # "new" => stage[i] # "new"

\* The tasks that c waits for are in its group or before it.
EarlierInv ==
  \A c \in Clients : pc[c] \in Waiting =>
    \A i \in 1 .. earlier[c] :
      i \in Tasks /\ stage[i] # "new" /\ (stage[i] \notin Ended => group[i] <= awaited[c])

\* A group lists those that wait for it, once each.
ListedInv ==
  \A n \in DOMAIN groups :
    /\ Distinct(groups[n].waiters)
    /\ \A c \in ToSet(groups[n].waiters) : pc[c] \in Waiting /\ awaited[c] = groups[n].id

\* Who has got a signal that its wait takes, or has taken it, is told rightly.
Told(c) ==
  \/ SIGNALED \in pending[c] /\ pc[c] \in {"w_enter", "w_sleep"}
  \/ result[c] = SIGNALED /\ pc[c] \in {"w_woken", "w_return"}

ToldInv ==
  \A c \in Clients : Told(c) => \A i \in 1 .. earlier[c] : stage[i] \in {"done", "rejected"}

WaiterInv(Labels) ==
  /\ WaiterTypeOK(Labels)
  /\ Exact(groups, freshId, Membership)
  /\ TwinsIn(groups) => repeated
  /\ InOrder /\ EarlierInv
  /\ ~repeated => ListedInv /\ ToldInv

\* The labels of an executor's own.
Apart(Labels) == Labels \cap Waiting = {}

\* c has been notified, because no task of its group or of one before it is left.
Noticed(c, gs) ==
  \E k \in DOMAIN gs :
    /\ c \in ToSet(gs[k].waiters)
    /\ \A id \in Nat : id <= gs[k].id => Membership'[id] = {}

\* Of those that gs lists, some may be listed no more.
Fewer(gs) ==
  \A m \in DOMAIN groups' :
    \/ groups'[m].waiters = <<>>
    \/ \E n \in DOMAIN gs :
         /\ groups'[m].id = gs[n].id
         /\ ToSet(groups'[m].waiters) \subseteq ToSet(gs[n].waiters)
         /\ Distinct(gs[n].waiters) => Distinct(groups'[m].waiters)

\* The loop of decrement() stops at the n-th group; again, if t gives up _lock there.
SweepTo(t, gs, label, n, again) ==
  /\ \A k \in 1 .. n - 1 : Complete(gs[k])
  /\ again => n <= Len(gs) /\ gs[n].count = 0
  /\ \/ /\ n = Len(gs) + 1 /\ ~again
        /\ groups' = <<Group(freshId + 1)>> /\ freshId' = freshId + 1
     \/ /\ n <= Len(gs) /\ freshId' = freshId
        /\ groups' = IF again
             THEN [SubSeq(gs, n, Len(gs)) EXCEPT ![1].waiters =
                     Among(@, {c \in Clients : Busy(c)})]
             ELSE SubSeq(gs, n, Len(gs))
  /\ pending' = [u \in Threads |->
       IF /\ u \in Clients /\ ~Busy(u)
          /\ \E k \in 1 .. Len(gs) : /\ k < n \/ (k = n /\ again)
                                     /\ u \in ToSet(gs[k].waiters)
       THEN AfterNotify(pending[u], ANYTHING) ELSE pending[u]]
  /\ pc' = [pc EXCEPT ![t] = IF again THEN "d_yield" ELSE label]

LEMMA SweepStops ==
  ASSUME NEW gs \in Seq(Records), NEW t, NEW label, Sweep(t, gs, label)
  PROVE  \E n \in 1 .. Len(gs) + 1, again \in BOOLEAN : SweepTo(t, gs, label, n, again)
<1> DEFINE K == {k \in 1 .. Len(gs) + 1 : k <= Len(gs) => ~Complete(gs[k])}
           n == Min(K)
           again == n <= Len(gs) /\ gs[n].count = 0
<1>1. Len(gs) \in Nat
  OBVIOUS
<1>2. K \in SUBSET Nat /\ Len(gs) + 1 \in K
  BY <1>1
<1>3. n \in K /\ \A k \in K : n <= k
  BY <1>2, MinLeast
<1>5. groups' = CASE n > Len(gs) -> <<Group(freshId + 1)>>
                  [] again -> [SubSeq(gs, n, Len(gs)) EXCEPT ![1].waiters =
                                 Among(@, {c \in Clients : Busy(c)})]
                  [] OTHER -> SubSeq(gs, n, Len(gs))
  BY DEF Sweep
<1>6. freshId' = IF n > Len(gs) THEN freshId + 1 ELSE freshId
  BY DEF Sweep
<1>7. pending' = [u \in Threads |->
        IF u \in {c \in Clients :
                    /\ ~Busy(c)
                    /\ \E k \in 1 .. Len(gs) : /\ k < n \/ (k = n /\ again)
                                               /\ c \in ToSet(gs[k].waiters)}
        THEN AfterNotify(pending[u], ANYTHING) ELSE pending[u]]
  BY DEF Sweep
<1>8. pc' = [pc EXCEPT ![t] = IF again THEN "d_yield" ELSE label]
  BY DEF Sweep, Goto
<1> HIDE DEF n
<1>4. n \in 1 .. Len(gs) + 1 /\ \A k \in 1 .. n - 1 : Complete(gs[k])
  <2>1. n \in 1 .. Len(gs) + 1
    BY <1>3
  <2> SUFFICES ASSUME NEW k \in 1 .. n - 1, ~Complete(gs[k]) PROVE FALSE
    BY <2>1
  <2>2. k \in 1 .. Len(gs) + 1 /\ ~(n <= k)
    BY <1>1, <2>1
  <2>3. k \in K
    BY <2>2
  <2> QED BY <1>3, <2>2, <2>3
<1> HIDE DEF K
<1>9. pending' = [u \in Threads |->
        IF /\ u \in Clients /\ ~Busy(u)
           /\ \E k \in 1 .. Len(gs) : /\ k < n \/ (k = n /\ again)
                                      /\ u \in ToSet(gs[k].waiters)
        THEN AfterNotify(pending[u], ANYTHING) ELSE pending[u]]
  BY <1>7
<1>10. \/ /\ n = Len(gs) + 1 /\ ~again
          /\ groups' = <<Group(freshId + 1)>> /\ freshId' = freshId + 1
       \/ /\ n <= Len(gs) /\ freshId' = freshId
          /\ groups' = IF again
               THEN [SubSeq(gs, n, Len(gs)) EXCEPT ![1].waiters =
                       Among(@, {c \in Clients : Busy(c)})]
               ELSE SubSeq(gs, n, Len(gs))
  <2>1. n \in Nat
    BY <1>1, <1>4
  <2>2. CASE n > Len(gs)
    BY <1>1, <1>4, <1>5, <1>6, <2>1, <2>2
  <2>3. CASE ~(n > Len(gs)) /\ again
    BY <1>1, <1>5, <1>6, <2>1, <2>3
  <2>4. CASE ~(n > Len(gs)) /\ ~again
    <3>1. groups' = SubSeq(gs, n, Len(gs))
      BY <1>5, <2>4
    <3>2. n <= Len(gs)
      BY <1>1, <2>1, <2>4
    <3> HIDE DEF again
    <3> QED BY <1>6, <2>4, <3>1, <3>2
  <2> QED BY <2>2, <2>3, <2>4
<1>11. again \in BOOLEAN /\ (again => n <= Len(gs) /\ gs[n].count = 0)
  OBVIOUS
<1> HIDE DEF again
<1>12. SweepTo(t, gs, label, n, again)
  BY <1>4, <1>8, <1>9, <1>10, <1>11 DEF SweepTo
<1> QED
  BY <1>4, <1>11, <1>12

\* What is left of the groups of gs is exact if they were, and whoever is notified need
\* not wait any longer.
LEMMA SweepExact ==
  ASSUME NEW gs \in Seq(Records), gs # <<>>, freshId \in Nat,
         Membership' \in Memberships, Exact(gs, freshId, Membership'),
         NEW t, NEW label, Sweep(t, gs, label), Clients \subseteq Threads
  PROVE  /\ groups' \in Seq(Records) /\ groups' # <<>> /\ freshId' \in Nat
         /\ Exact(groups', freshId', Membership')
         /\ TwinsIn(groups') => TwinsIn(gs)
         /\ Fewer(gs)
         /\ ~TwinsIn(gs) => \A c \in Clients : pending'[c] = pending[c] \/ Noticed(c, gs)
<1>0. PICK n \in 1 .. Len(gs) + 1, again \in BOOLEAN : SweepTo(t, gs, label, n, again)
  BY SweepStops
<1>1. /\ \A k \in 1 .. n - 1 : Complete(gs[k])
      /\ again => n <= Len(gs) /\ gs[n].count = 0
      /\ \/ /\ n = Len(gs) + 1 /\ ~again
            /\ groups' = <<Group(freshId + 1)>> /\ freshId' = freshId + 1
         \/ /\ n <= Len(gs) /\ freshId' = freshId
            /\ groups' = IF again
                 THEN [SubSeq(gs, n, Len(gs)) EXCEPT ![1].waiters =
                         Among(@, {c \in Clients : Busy(c)})]
                 ELSE SubSeq(gs, n, Len(gs))
      /\ pending' = [u \in Threads |->
           IF /\ u \in Clients /\ ~Busy(u)
              /\ \E k \in 1 .. Len(gs) : /\ k < n \/ (k = n /\ again)
                                         /\ u \in ToSet(gs[k].waiters)
           THEN AfterNotify(pending[u], ANYTHING) ELSE pending[u]]
      /\ pc' = [pc EXCEPT ![t] = IF again THEN "d_yield" ELSE label]
  BY <1>0 DEF SweepTo
<1>2. Len(gs) \in Nat /\ DOMAIN gs = 1 .. Len(gs) /\ Len(gs) > 0
  OBVIOUS
<1>3. \A k \in 1 .. n - 1 : gs[k].count = 0
  BY <1>1 DEF Complete
<1> DEFINE M == Membership'
           Clear(k) == \A id \in Nat : id <= gs[k].id => M[id] = {}
<1>4. \A k \in 1 .. Len(gs) : gs[k].id \in Nat /\ gs[k].waiters \in Seq(Clients)
  BY RecordTypes
\* Whoever is notified is listed in one of the groups that are complete.
<1>5. ASSUME NEW c \in Clients,
             \A k \in 1 .. Len(gs) :
               (k < n \/ (k = n /\ again)) /\ c \in ToSet(gs[k].waiters) /\ ~Busy(c)
                 => Clear(k)
      PROVE  pending'[c] = pending[c] \/ Noticed(c, gs)
  <2>1. c \in Threads
    OBVIOUS
  <2>2. CASE /\ ~Busy(c)
             /\ \E k \in 1 .. Len(gs) : /\ k < n \/ (k = n /\ again)
                                        /\ c \in ToSet(gs[k].waiters)
    <3>1. PICK k \in 1 .. Len(gs) : (k < n \/ (k = n /\ again)) /\ c \in ToSet(gs[k].waiters)
      BY <2>2
    <3>2. Clear(k) /\ k \in DOMAIN gs
      BY <1>2, <1>5, <2>2, <3>1
    <3> QED BY <3>1, <3>2 DEF Noticed
  <2>3. CASE ~(/\ ~Busy(c)
               /\ \E k \in 1 .. Len(gs) : /\ k < n \/ (k = n /\ again)
                                          /\ c \in ToSet(gs[k].waiters))
    BY <1>1, <2>1, <2>3
  <2> QED BY <2>2, <2>3
<1>6. CASE n = Len(gs) + 1
  <2>1. groups' = <<Group(freshId + 1)>> /\ freshId' = freshId + 1 /\ ~again
    BY <1>1, <1>2, <1>6
  <2>2. \A m \in DOMAIN gs : gs[m].count = 0
    BY <1>2, <1>3, <1>6
  <2>3. /\ groups' \in Seq(Records) /\ Exact(groups', freshId', M) /\ ~TwinsIn(groups')
        /\ \A id \in Nat : M[id] = {}
    BY <2>1, <2>2, EmptyExact
  <2>4. groups' # <<>> /\ \A m \in DOMAIN groups' : groups'[m].waiters = <<>>
    BY <2>1 DEF Group
  <2>5. Fewer(gs)
    BY <2>4 DEF Fewer
  <2>6. \A c \in Clients : pending'[c] = pending[c] \/ Noticed(c, gs)
    <3>1. \A k : Clear(k)
      BY <2>3
    <3> QED BY <1>5, <3>1
  <2> QED BY <2>1, <2>3, <2>4, <2>5, <2>6
<1>7. CASE n <= Len(gs)
  <2> DEFINE rest == SubSeq(gs, n, Len(gs))
             l == Len(gs) - n + 1
  <2>1. n \in 1 .. Len(gs) /\ l \in Nat /\ l > 0 /\ freshId' = freshId
    BY <1>1, <1>2, <1>7
  <2>2. /\ rest \in Seq(Records) /\ Len(rest) = l
        /\ \A m \in 1 .. l : rest[m] = gs[n + m - 1]
        /\ Exact(rest, freshId, M) /\ (TwinsIn(rest) => TwinsIn(gs))
    BY <1>3, <2>1, DropExact
  <2>3. groups' = IF again
                  THEN [rest EXCEPT ![1].waiters = Among(@, {c \in Clients : Busy(c)})]
                  ELSE rest
    BY <1>1, <1>2, <1>7
  <2> HIDE DEF rest
  <2>4. DOMAIN rest = 1 .. l /\ 1 \in DOMAIN rest /\ rest # <<>>
    BY <2>1, <2>2
  <2> DEFINE q == Among(rest[1].waiters, {c \in Clients : Busy(c)})
  <2>5. /\ q \in Seq(Clients)
        /\ ToSet(q) = ToSet(rest[1].waiters) \cap {c \in Clients : Busy(c)}
        /\ Distinct(rest[1].waiters) => Distinct(q)
    <3>1. rest[1].waiters \in Seq(Clients)
      BY <2>1, <2>2, RecordTypes
    <3> QED BY <3>1, AmongList
  <2>6. groups' = IF again THEN [rest EXCEPT ![1].waiters = q] ELSE rest
    BY <2>3
  <2> HIDE DEF q
  <2>7. /\ groups' \in Seq(Records) /\ Len(groups') = l
        /\ \A m \in 1 .. l :
             /\ groups'[m].id = rest[m].id /\ groups'[m].count = rest[m].count
             /\ groups'[m].waiters = IF again /\ m = 1 THEN q ELSE rest[m].waiters
    <3>1. CASE again
      <4> DEFINE hs == [rest EXCEPT ![1].waiters = q]
      <4>1. /\ hs \in Seq(Records) /\ Len(hs) = Len(rest)
            /\ \A m \in DOMAIN rest :
                 /\ hs[m].id = rest[m].id /\ hs[m].count = rest[m].count
                 /\ hs[m].waiters = IF m = 1 THEN q ELSE rest[m].waiters
        <5>1. rest \in Seq(Records) /\ 1 \in DOMAIN rest /\ q \in Seq(Clients)
          BY <2>2, <2>4, <2>5
        <5> QED BY <5>1, WaitersChanged
      <4>2. groups' = hs
        BY <2>6, <3>1
      <4> HIDE DEF hs
      <4> QED BY <2>2, <2>4, <3>1, <4>1, <4>2
    <3>2. CASE ~again
      BY <2>2, <2>6, <3>2
    <3> QED BY <3>1, <3>2
  <2>8. DOMAIN groups' = 1 .. l /\ groups' # <<>>
    BY <2>1, <2>7
  <2>9. Exact(groups', freshId', M)
    <3>1. Len(groups') = Len(rest) /\ \A m \in DOMAIN rest :
            groups'[m].id = rest[m].id /\ groups'[m].count = rest[m].count
      BY <2>2, <2>4, <2>7
    <3> QED BY <2>1, <2>2, <2>4, <2>7, <3>1, SameExact
  <2>10. TwinsIn(groups') => TwinsIn(gs)
    <3>1. TwinsIn(groups') => TwinsIn(rest)
      BY <2>1, <2>2, <2>7 DEF TwinsIn
    <3> QED BY <2>2, <3>1
  <2>11. \A m \in 1 .. l : n + m - 1 \in DOMAIN gs /\ rest[m] = gs[n + m - 1]
    BY <1>2, <2>1, <2>2
  <2>12. Fewer(gs)
    <3> SUFFICES ASSUME NEW m \in 1 .. l
                 PROVE  \E k \in DOMAIN gs :
                          /\ groups'[m].id = gs[k].id
                          /\ ToSet(groups'[m].waiters) \subseteq ToSet(gs[k].waiters)
                          /\ Distinct(gs[k].waiters) => Distinct(groups'[m].waiters)
      BY <2>8 DEF Fewer
    <3>1. /\ groups'[m].id = rest[m].id
          /\ ToSet(groups'[m].waiters) \subseteq ToSet(rest[m].waiters)
          /\ Distinct(rest[m].waiters) => Distinct(groups'[m].waiters)
      <4>1. CASE again /\ m = 1
        BY <2>5, <2>7, <4>1
      <4>2. CASE ~(again /\ m = 1)
        BY <2>7, <4>2
      <4> QED BY <4>1, <4>2
    <3> QED BY <2>11, <3>1
  <2>13. ASSUME ~TwinsIn(gs), NEW c \in Clients
         PROVE  pending'[c] = pending[c] \/ Noticed(c, gs)
    <3> SUFFICES ASSUME NEW k \in 1 .. Len(gs), k < n \/ (k = n /\ again),
                        c \in ToSet(gs[k].waiters), ~Busy(c)
                 PROVE  Clear(k)
      BY <1>5
    <3>1. \A i, j \in 1 .. Len(gs) : i < j => gs[i].id < gs[j].id
      BY <1>2, <2>13 DEF Exact, Orderly, TwinsIn
    <3>2. Clear(k)
      <4>1. \A i \in 1 .. k : gs[i].count = 0
        BY <1>1, <1>2, <1>3
      <4>2. \A i \in 1 .. k : M[gs[i].id] = {}
        BY <2>13, <4>1, NoneCounted
      <4> SUFFICES ASSUME NEW id \in Nat, id <= gs[k].id, M[id] # {} PROVE FALSE
        OBVIOUS
      <4>3. PICK i \in 1 .. Len(gs) : gs[i].id = id
        BY <1>2 DEF Exact, Staying
      <4>4. ~(k < i)
        BY <1>4, <3>1, <4>3
      <4>5. i \in 1 .. k
        BY <1>2, <4>3, <4>4
      <4> HIDE DEF M
      <4> QED BY <4>2, <4>3, <4>5
    <3> QED BY <3>2
  <2> QED BY <2>1, <2>7, <2>8, <2>9, <2>10, <2>12, <2>13
<1> QED
  BY <1>2, <1>6, <1>7

LEMMA ExactMeans ==
  ASSUME NEW Labels, WaiterTypeOK(Labels), Exact(groups, freshId, Membership)
  PROVE  CountsMatch /\ GroupsStay
<1>1. \A n \in DOMAIN groups : groups[n].id \in Nat
  <2>1. groups \in Seq(Records)
    BY DEF WaiterTypeOK, Records
  <2> QED BY <2>1, RecordTypes
<1>2. \A id \in Nat : Membership[id] = Members(id)
  BY DEF Membership
<1>3. Twins <=> TwinsIn(groups)
  BY DEF Twins, TwinsIn
<1>4. CountsMatch
  <2>1. \A m, n \in DOMAIN groups :
          m < n /\ groups[m].id = groups[n].id => m = 1 /\ n = 2
    BY <1>1 DEF Exact, Orderly
  <2>2. \A n \in DOMAIN groups :
          n > 2 \/ ~Twins => groups[n].count = Cardinality(Members(groups[n].id))
    BY <1>1, <1>2, <1>3 DEF Exact, Matching
  <2>3. Twins => groups[1].count + groups[2].count = Cardinality(Members(groups[1].id))
    <3> SUFFICES ASSUME Twins
                 PROVE  groups[1].count + groups[2].count = Cardinality(Members(groups[1].id))
      OBVIOUS
    <3>1. groups[1].count + groups[2].count = Cardinality(Membership[groups[1].id])
      BY <1>3 DEF Exact, Matching
    <3>2. groups[1].id \in Nat
      BY <1>1 DEF Twins, WaiterTypeOK
    <3> QED BY <1>2, <3>1, <3>2
  <2> QED BY <2>1, <2>2, <2>3 DEF CountsMatch
<1>5. GroupsStay
  <2> SUFFICES ASSUME NEW i \in Tasks, stage[i] \notin Ended
               PROVE  \E n \in DOMAIN groups : groups[n].id = group[i]
    BY DEF GroupsStay
  <2>1. group[i] \in Nat /\ i \in Members(group[i])
    BY DEF WaiterTypeOK, Members
  <2> QED BY <1>2, <2>1 DEF Exact, Staying
<1> QED
  BY <1>4, <1>5

LEMMA MembershipTypes ==
  /\ Membership \in Memberships
  /\ \A i \in Tasks : group[i] \in Nat /\ stage[i] \notin Ended => i \in Membership[group[i]]
  /\ \A i, id \in Nat : i \in Membership[id] => i \in Tasks /\ stage[i] \notin Ended /\ group[i] = id
  BY DEF Membership, Memberships, Members

\* A notification reaches nobody too early, and the rest stays as it is.
LEMMA TellStep ==
  ASSUME NEW Labels, WaiterInv(Labels),
         NEW gs \in Seq(Records), Len(gs) = Len(groups),
         \A m \in DOMAIN gs : gs[m].id = groups[m].id /\ gs[m].waiters = groups[m].waiters,
         WaiterTypeOK(Labels)', Exact(groups', freshId', Membership'),
         TwinsIn(groups') => TwinsIn(gs) \/ repeated', Fewer(gs),
         ~TwinsIn(gs) => \A c \in Clients : pending'[c] = pending[c] \/ Noticed(c, gs),
         UNCHANGED <<awaited, earlier, result>>, repeated => repeated', InOrder',
         \A t \in Threads : pc'[t] = pc[t] \/ (pc[t] \notin Waiting /\ pc'[t] \notin Waiting),
         \A i \in Tasks : stage[i] # "new" =>
           /\ stage'[i] # "new"
           /\ stage[i] \in {"done", "rejected"} => stage'[i] \in {"done", "rejected"}
           /\ stage'[i] \notin Ended => stage[i] \notin Ended /\ group'[i] = group[i]
  PROVE  WaiterInv(Labels)'
<1>1. UNCHANGED <<awaited, earlier, result>> /\ (~repeated' => ~repeated)
  OBVIOUS
<1>2. DOMAIN gs = DOMAIN groups /\ Clients \subseteq Threads
  BY DEF WaiterInv, WaiterTypeOK, Threads
<1>3. TwinsIn(gs) <=> TwinsIn(groups)
  BY DEF TwinsIn
<1>4. TwinsIn(groups') => repeated'
  BY <1>1, <1>3 DEF WaiterInv
<1>5. InOrder'
  OBVIOUS
<1>6. \A c \in Clients : pc'[c] \in Waiting \/ pc[c] \in Waiting => pc'[c] = pc[c]
  BY <1>2
<1>7. EarlierInv'
  <2> SUFFICES ASSUME NEW c \in Clients, pc'[c] \in Waiting, NEW i \in 1 .. earlier[c]
               PROVE  /\ i \in Tasks /\ stage'[i] # "new"
                      /\ stage'[i] \notin Ended => group'[i] <= awaited[c]
    BY <1>1 DEF EarlierInv, Clients, Tasks, Waiting, Ended
  <2> QED BY <1>6 DEF WaiterInv, EarlierInv
<1>8. ASSUME ~repeated' PROVE ListedInv'
  <2>1. ListedInv
    BY <1>1, <1>8 DEF WaiterInv
  <2> SUFFICES ASSUME NEW m \in DOMAIN groups'
               PROVE  /\ Distinct(groups'[m].waiters)
                      /\ \A c \in ToSet(groups'[m].waiters) :
                           pc'[c] \in Waiting /\ awaited'[c] = groups'[m].id
    BY DEF ListedInv, Distinct, ToSet, Waiting
  <2>2. CASE groups'[m].waiters = <<>>
    BY <2>2 DEF Distinct, ToSet
  <2>3. CASE \E n \in DOMAIN gs :
               /\ groups'[m].id = gs[n].id
               /\ ToSet(groups'[m].waiters) \subseteq ToSet(gs[n].waiters)
               /\ Distinct(gs[n].waiters) => Distinct(groups'[m].waiters)
    <3>1. PICK n \in DOMAIN groups :
               /\ groups'[m].id = groups[n].id
               /\ ToSet(groups'[m].waiters) \subseteq ToSet(groups[n].waiters)
               /\ Distinct(groups[n].waiters) => Distinct(groups'[m].waiters)
      BY <1>2, <2>3
    <3>2. ToSet(groups[n].waiters) \subseteq Clients
      <4>1. groups \in Seq(Records)
        BY DEF WaiterInv, WaiterTypeOK, Records
      <4>2. groups[n].waiters \in Seq(Clients)
        BY <4>1, RecordTypes
      <4> QED BY <4>2 DEF ToSet
    <3> QED BY <1>1, <1>6, <2>1, <3>1, <3>2 DEF ListedInv
  <2> QED BY <2>2, <2>3 DEF Fewer
<1>9. ASSUME ~repeated' PROVE ToldInv'
  <2>1. ListedInv /\ ToldInv /\ ~TwinsIn(gs)
    BY <1>1, <1>3, <1>9 DEF WaiterInv
  <2> SUFFICES ASSUME NEW c \in Clients, Told(c)', NEW i \in 1 .. earlier'[c]
               PROVE  stage'[i] \in {"done", "rejected"}
    BY DEF ToldInv, Clients
  <2>2. pc'[c] = pc[c] /\ pc[c] \in Waiting /\ pc'[c] \in Waiting
    BY <1>6 DEF Told, Waiting
  <2>3. i \in Tasks /\ stage[i] # "new"
    BY <1>1, <2>2 DEF WaiterInv, EarlierInv
  <2>4. CASE pending'[c] = pending[c]
    <3>1. Told(c)
      BY <1>1, <2>2, <2>4 DEF Told
    <3> QED BY <1>1, <2>1, <2>3, <3>1 DEF ToldInv
  <2>5. CASE Noticed(c, gs)
    <3>1. PICK k \in DOMAIN gs :
            /\ c \in ToSet(gs[k].waiters)
            /\ \A id \in Nat : id <= gs[k].id => Membership'[id] = {}
      BY <2>5 DEF Noticed
    <3>2. awaited[c] = gs[k].id
      BY <1>2, <2>1, <3>1 DEF ListedInv
    <3> SUFFICES ASSUME stage'[i] \notin {"done", "rejected"} PROVE FALSE
      OBVIOUS
    <3>3. /\ i \in Tasks /\ stage'[i] # "new"
          /\ stage'[i] \notin Ended => group'[i] <= awaited'[c]
      BY <1>7, <2>2 DEF EarlierInv, Waiting, Clients, Tasks, Ended
    <3>4. stage'[i] \notin Ended /\ group'[i] \in Nat
      BY <3>3 DEF Ended, WaiterTypeOK, Tasks
    <3>5. i \in Membership'[group'[i]]
      BY <3>3, <3>4 DEF Membership, Members, Ended, Tasks
    <3> QED BY <1>1, <3>1, <3>2, <3>3, <3>4, <3>5
  <2> QED BY <2>1, <2>4, <2>5
<1> QED
  BY <1>4, <1>5, <1>7, <1>8, <1>9 DEF WaiterInv


LEMMA StatusTypes ==
  ASSUME NEW p \in SUBSET Flags
  PROVE  /\ AfterNotify(p, ANYTHING) \in SUBSET Flags
         /\ AfterInterrupt(p, ANYTHING) \in SUBSET Flags
         /\ AfterCancel(p, ANYTHING) \in SUBSET Flags
         /\ AfterIsInterrupted(p) \in SUBSET Flags
         /\ AfterNext(p, ANYTHING) \in SUBSET Flags
         /\ NextState(p, ANYTHING) \in States
  BY DEF AfterNotify, AfterInterrupt, AfterCancel, AfterIsInterrupted, AfterNext, NextState,
         Flags, States

\* Where a thread of an executor with these labels can be when it does not wait.
Places(Labels) == {"idle", "unborn", "ended", "d_yield"} \cup Labels

\* A step that leaves the groups alone.
LEMMA OtherStep ==
  ASSUME NEW Labels, WaiterInv(Labels),
         UNCHANGED <<groups, freshId, group, result, calls, trouble>>,
         generation' \in Nat, since' \in [Tasks -> Nat],
         stage' \in [Tasks -> Stages], job' \in [Threads -> Tasks \cup {0}],
         pc' \in [Threads -> Places(Labels) \cup Waiting],
         pending' \in [Threads -> SUBSET Flags],
         \A c \in Clients : pending'[c] = pending[c],
         \A t \in Threads : pc'[t] = pc[t] \/ (pc[t] \notin Waiting /\ pc'[t] \notin Waiting),
         \A i \in Tasks : stage'[i] = stage[i] \/ (stage[i] \notin Ended /\ stage'[i] \notin Ended)
  PROVE  WaiterInv(Labels)'
<1>1. groups \in Seq(Records) /\ groups # <<>>
  BY DEF WaiterInv, WaiterTypeOK, Records
<1>2. WaiterTypeOK(Labels)'
  <2>1. ExecutorTypeOK({"ended", "d_yield"} \cup Labels)'
    BY DEF ExecutorTypeOK, Places, Threads, Clients, Tasks, Workers, Stages, Flags, Waiting
  <2> QED BY <2>1 DEF WaiterInv, WaiterTypeOK, calls, Clients, Tasks, States
<1>3. Membership' = Membership
  BY DEF Membership, Members, Ended, Tasks
<1>4. Exact(groups', freshId', Membership')
  BY <1>3 DEF WaiterInv
<1>5. Fewer(groups)
  BY DEF Fewer
<1>6. InOrder'
  BY DEF WaiterInv, InOrder, Tasks, Ended
<1>7. UNCHANGED <<awaited, earlier, repeated, result>>
  BY DEF calls
<1>8. \A i \in Tasks : stage[i] # "new" =>
        /\ stage'[i] # "new"
        /\ stage[i] \in {"done", "rejected"} => stage'[i] \in {"done", "rejected"}
        /\ stage'[i] \notin Ended => stage[i] \notin Ended /\ group'[i] = group[i]
  BY DEF Ended
<1> QED
  BY <1>1, <1>2, <1>4, <1>5, <1>6, <1>7, <1>8, TellStep

\* The groups of what WaiterInv says.
LEMMA GroupTypes ==
  ASSUME NEW Labels, WaiterInv(Labels)
  PROVE  /\ groups \in Seq(Records) /\ groups # <<>> /\ freshId \in Nat
         /\ DOMAIN groups = 1 .. Len(groups) /\ Len(groups) \in Nat /\ Len(groups) > 0
         /\ Membership \in Memberships /\ Exact(groups, freshId, Membership)
<1>1. groups \in Seq(Records) /\ groups # <<>> /\ freshId \in Nat
  BY DEF WaiterInv, WaiterTypeOK, Records
<1> QED
  BY <1>1, MembershipTypes DEF WaiterInv

LEMMA SeqOfRecords ==
  Seq([id : Nat, count : Int, waiters : Seq(Clients)]) = Seq(Records)
  BY DEF Records

\* increment() keeps the invariant.
LEMMA IncrementStep ==
  ASSUME NEW Labels, WaiterInv(Labels), NEW t \in Threads, pc[t] \notin Waiting,
         NEW label \in Places(Labels), label \notin Waiting, Increment(t, label)
  PROVE  WaiterInv(Labels)'
<1> DEFINE n  == Len(groups)
           gs == [groups EXCEPT ![n].count = @ + 1]
<1>0. UNCHANGED <<generation, pending, result, awaited, earlier, trouble>>
  BY DEF Increment
<1>1. PICK i \in Tasks :
        /\ NextTask(i)
        /\ IF groups[n].waiters = <<>>
           THEN groups' = gs /\ UNCHANGED <<freshId, repeated>>
           ELSE /\ groups' = Append(gs, Group(freshId)) /\ freshId' = freshId + 1
                /\ repeated' = (repeated \/ groups[n].id = freshId)
        /\ group' = [group EXCEPT ![i] = groups[n].id]
        /\ since' = [since EXCEPT ![i] = generation]
        /\ stage' = [stage EXCEPT ![i] = "counted"]
        /\ job' = [job EXCEPT ![t] = i]
        /\ pc' = [pc EXCEPT ![t] = label]
  BY Zenon DEF Increment, Goto
<1>2. /\ groups \in Seq(Records) /\ groups # <<>> /\ freshId \in Nat
      /\ DOMAIN groups = 1 .. n /\ n \in Nat /\ n > 0
      /\ Membership \in Memberships /\ Exact(groups, freshId, Membership)
  BY GroupTypes
<1>3. n \in DOMAIN groups /\ groups[n].id \in Nat /\ groups[n].count + 1 \in Int
  BY <1>2, RecordTypes
<1>4. /\ gs \in Seq(Records) /\ Len(gs) = n
      /\ \A m \in DOMAIN groups :
           /\ gs[m].id = groups[m].id /\ gs[m].waiters = groups[m].waiters
           /\ gs[m].count = IF m = n THEN groups[m].count + 1 ELSE groups[m].count
  <2>1. LET hs == [groups EXCEPT ![n].count = groups[n].count + 1] IN
         /\ hs \in Seq(Records) /\ Len(hs) = Len(groups)
         /\ \A m \in DOMAIN groups :
              /\ hs[m].id = groups[m].id /\ hs[m].waiters = groups[m].waiters
              /\ hs[m].count = IF m = n THEN groups[n].count + 1 ELSE groups[m].count
    BY <1>2, <1>3, CountChanged
  <2> QED BY <2>1
<1>5. stage[i] = "new" /\ \A k \in 1 .. i - 1 : stage[k] # "new"
  BY <1>1 DEF NextTask
<1>6. \A k \in Tasks : /\ stage'[k] = IF k = i THEN "counted" ELSE stage[k]
                       /\ group'[k] = IF k = i THEN groups[n].id ELSE group[k]
  BY <1>1 DEF WaiterInv, WaiterTypeOK, ExecutorTypeOK
<1> DEFINE M2 == [Membership EXCEPT ![groups[n].id] = @ \cup {i}]
<1>7. Membership' = M2
  <2>1. \A id \in Nat : Members(id)' = IF id = groups[n].id THEN Members(id) \cup {i} ELSE Members(id)
    BY <1>5, <1>6 DEF Members, Ended
  <2>2. Membership' = [id \in Nat |-> Members(id)']
    BY DEF Membership
  <2>3. M2 = [id \in Nat |-> IF id = groups[n].id THEN Members(id) \cup {i} ELSE Members(id)]
    BY <1>3 DEF Membership
  <2> HIDE DEF M2
  <2> QED BY <2>1, <2>2, <2>3
<1>8. Exact(gs, freshId, M2)
  <2>1. \A id \in Nat : i \notin Membership[id]
    BY <1>5 DEF Membership, Members, Ended
  <2> HIDE DEF gs
  <2> QED BY <1>2, <1>4, <2>1, OnExact
<1>9. M2 \in Memberships
  BY <1>2, <1>3 DEF Memberships
<1> HIDE DEF gs, M2
<1>10. /\ groups' \in Seq(Records) /\ groups' # <<>> /\ freshId' \in Nat /\ repeated' \in BOOLEAN
       /\ Exact(groups', freshId', M2)
       /\ TwinsIn(groups') => TwinsIn(groups) \/ repeated'
       /\ repeated => repeated'
       /\ Fewer(groups)
  <2>0. gs # <<>> /\ DOMAIN gs = 1 .. n /\ repeated \in BOOLEAN
    BY <1>2, <1>4 DEF WaiterInv, WaiterTypeOK
  <2>1. TwinsIn(gs) <=> TwinsIn(groups)
    BY <1>2, <1>4 DEF TwinsIn
  <2>2. CASE groups[n].waiters = <<>>
    <3>1. groups' = gs /\ freshId' = freshId /\ repeated' = repeated
      BY <1>1, <2>2
    <3>2. Fewer(groups)
      BY <1>2, <1>4, <2>0, <3>1 DEF Fewer
    <3>3. Exact(groups', freshId', M2)
      BY <1>8, <3>1
    <3> QED BY <1>2, <1>4, <2>0, <2>1, <3>1, <3>2, <3>3
  <2>3. CASE groups[n].waiters # <<>>
    <3>1. /\ groups' = Append(gs, Group(freshId)) /\ freshId' = freshId + 1
          /\ repeated' = (repeated \/ groups[n].id = freshId)
      BY <1>1, <2>3
    <3>2. LET hs == Append(gs, Group(freshId)) IN
            /\ hs \in Seq(Records) /\ Exact(hs, freshId + 1, M2)
            /\ TwinsIn(hs) => TwinsIn(gs) \/ gs[Len(gs)].id = freshId
      BY <1>2, <1>4, <1>8, <1>9, <2>0, AppendExact
    <3>3. TwinsIn(groups') => TwinsIn(gs) \/ groups[n].id = freshId
      BY <1>3, <1>4, <3>1, <3>2
    <3>4. groups' # <<>> /\ groups' \in Seq(Records)
      BY <1>4, <3>1, <3>2
    <3>5. Fewer(groups)
      <4>1. /\ DOMAIN groups' = 1 .. n + 1 /\ \A m \in 1 .. n : groups'[m] = gs[m]
            /\ groups'[n + 1].waiters = <<>>
        BY <1>2, <1>4, <3>1 DEF Group
      <4> QED BY <1>2, <1>4, <4>1 DEF Fewer
    <3>6. Exact(groups', freshId', M2)
      BY <3>1, <3>2
    <3>7. freshId' \in Nat /\ repeated' \in BOOLEAN /\ (repeated => repeated')
      BY <1>2, <2>0, <3>1
    <3> QED BY <2>1, <3>1, <3>3, <3>4, <3>5, <3>6, <3>7
  <2> QED BY <2>2, <2>3
<1>11. WaiterTypeOK(Labels)'
  <2>1. ExecutorTypeOK({"ended", "d_yield"} \cup Labels)'
    BY <1>0, <1>1 DEF WaiterInv, WaiterTypeOK, ExecutorTypeOK, Places, Stages, Threads, Clients,
         Workers, Tasks, Flags, Waiting
  <2>2. group' \in [Tasks -> Nat] /\ since' \in [Tasks -> Nat]
    BY <1>1, <1>3 DEF WaiterInv, WaiterTypeOK
  <2> QED BY <1>0, <1>10, <2>1, <2>2, SeqOfRecords DEF WaiterInv, WaiterTypeOK, Clients, Tasks
<1>12. InOrder'
  <2> SUFFICES ASSUME NEW j \in Tasks, NEW k \in Tasks, j < k, stage'[k] # "new", stage'[j] = "new"
               PROVE  FALSE
    BY DEF InOrder, Tasks
  <2>1. j # i /\ stage[j] = "new"
    BY <1>6
  <2>2. k = i
    BY <1>6, <2>1 DEF WaiterInv, InOrder
  <2>3. j \in 1 .. i - 1
    BY <2>2 DEF Tasks
  <2> QED BY <1>5, <2>1, <2>3
<1>13. \A u \in Threads : pc'[u] = pc[u] \/ (pc[u] \notin Waiting /\ pc'[u] \notin Waiting)
  BY <1>1 DEF WaiterInv, WaiterTypeOK, ExecutorTypeOK
<1>14. \A k \in Tasks : stage[k] # "new" =>
         /\ stage'[k] # "new"
         /\ stage[k] \in {"done", "rejected"} => stage'[k] \in {"done", "rejected"}
         /\ stage'[k] \notin Ended => stage[k] \notin Ended /\ group'[k] = group[k]
  BY <1>5, <1>6
<1> QED
  BY <1>0, <1>2, <1>7, <1>10, <1>11, <1>12, <1>13, <1>14, TellStep

\* How decrement() changes what executes and waits.
LEMMA OffTypes ==
  ASSUME NEW Labels, WaiterInv(Labels), NEW t \in Threads, pc[t] \notin Waiting,
         groups' \in Seq(Records), groups' # <<>>, freshId' \in Nat,
         NEW label \in Places(Labels), label \notin Waiting,
         \/ pending' = pending
         \/ \E U : pending' = [u \in Threads |-> IF u \in U THEN AfterNotify(pending[u], ANYTHING)
                                                 ELSE pending[u]],
         pc' = [pc EXCEPT ![t] = label],
         UNCHANGED <<generation, result, calls, trouble>>,
         group' \in [Tasks -> Nat], since' \in [Tasks -> Nat],
         stage' \in [Tasks -> Stages], job' \in [Threads -> Tasks \cup {0}]
  PROVE  /\ WaiterTypeOK(Labels)'
         /\ \A u \in Threads : pc'[u] = pc[u] \/ (pc[u] \notin Waiting /\ pc'[u] \notin Waiting)
<1>1. /\ pending \in [Threads -> SUBSET Flags]
      /\ pc \in [Threads -> {"idle", "unborn"} \cup Waiting \cup ({"ended", "d_yield"} \cup Labels)]
  BY DEF WaiterInv, WaiterTypeOK, ExecutorTypeOK
<1>2. pending' \in [Threads -> SUBSET Flags]
  BY <1>1, StatusTypes
<1>3. pc' \in [Threads -> {"idle", "unborn"} \cup Waiting \cup ({"ended", "d_yield"} \cup Labels)]
  BY <1>1 DEF Places
<1>4. ExecutorTypeOK({"ended", "d_yield"} \cup Labels)'
  BY <1>2, <1>3 DEF ExecutorTypeOK, Threads, Clients, Workers, Tasks, Stages, Flags, Waiting
<1>5. WaiterTypeOK(Labels)'
  BY <1>4, SeqOfRecords DEF WaiterInv, WaiterTypeOK, calls, Clients, Tasks, States
<1> QED
  BY <1>1, <1>5

LEMMA SweepMoves ==
  ASSUME NEW gs \in Seq(Records), NEW t, NEW label, Sweep(t, gs, label)
  PROVE  /\ \E l \in {label, "d_yield"} : pc' = [pc EXCEPT ![t] = l]
         /\ \E U : pending' = [u \in Threads |-> IF u \in U THEN AfterNotify(pending[u], ANYTHING)
                                                 ELSE pending[u]]
<1>1. PICK n \in 1 .. Len(gs) + 1, again \in BOOLEAN : SweepTo(t, gs, label, n, again)
  BY SweepStops
<1>2. pc' = [pc EXCEPT ![t] = IF again THEN "d_yield" ELSE label]
  BY <1>1 DEF SweepTo
<1>3. \E l \in {label, "d_yield"} : pc' = [pc EXCEPT ![t] = l]
  <2>1. CASE again
    BY <1>2, <2>1
  <2>2. CASE ~again
    BY <1>2, <2>2
  <2> QED BY <2>1, <2>2
<1> DEFINE U == {u \in Clients : /\ ~Busy(u)
                                 /\ \E k \in 1 .. Len(gs) : /\ k < n \/ (k = n /\ again)
                                                            /\ u \in ToSet(gs[k].waiters)}
<1>4. pending' = [u \in Threads |-> IF u \in U THEN AfterNotify(pending[u], ANYTHING)
                                    ELSE pending[u]]
  <2>1. \A u : u \in U <=> /\ u \in Clients /\ ~Busy(u)
                           /\ \E k \in 1 .. Len(gs) : /\ k < n \/ (k = n /\ again)
                                                      /\ u \in ToSet(gs[k].waiters)
    OBVIOUS
  <2>2. pending' = [u \in Threads |->
          IF /\ u \in Clients /\ ~Busy(u)
             /\ \E k \in 1 .. Len(gs) : /\ k < n \/ (k = n /\ again)
                                        /\ u \in ToSet(gs[k].waiters)
          THEN AfterNotify(pending[u], ANYTHING) ELSE pending[u]]
    BY <1>1 DEF SweepTo
  <2> HIDE DEF U
  <2> QED BY <2>1, <2>2
<1> QED
  BY <1>3, <1>4

\* decrement() keeps the invariant.
LEMMA DecrementStep ==
  ASSUME NEW Labels, WaiterInv(Labels), NEW t \in Threads, pc[t] \notin Waiting,
         job[t] \in Tasks, stage[job[t]] \notin Ended, NEW to \in {"done", "rejected"},
         NEW label \in Places(Labels), label \notin Waiting, Decrement(t, to, label)
  PROVE  /\ WaiterInv(Labels)'
         /\ \E l \in {label, "d_yield"} : pc' = [pc EXCEPT ![t] = l]
<1> DEFINE i  == job[t]
           n  == Find(group[i])
           gs == [groups EXCEPT ![n].count = @ - 1]
<1>1. /\ IF n = 1 /\ gs[n].count = 0
         THEN Sweep(t, gs, label)
         ELSE groups' = gs /\ pc' = [pc EXCEPT ![t] = label] /\ freshId' = freshId /\ pending' = pending
      /\ stage' = [stage EXCEPT ![i] = to]
      /\ group' = [group EXCEPT ![i] = 0]
      /\ since' = [since EXCEPT ![i] = 0]
      /\ job' = [job EXCEPT ![t] = 0]
      /\ UNCHANGED <<generation, result, calls, trouble>>
  BY DEF Decrement, Goto
<1>2. /\ groups \in Seq(Records) /\ groups # <<>> /\ freshId \in Nat
      /\ DOMAIN groups = 1 .. Len(groups) /\ Len(groups) \in Nat /\ Len(groups) > 0
      /\ Membership \in Memberships /\ Exact(groups, freshId, Membership)
  BY GroupTypes
<1>3. group[i] \in Nat /\ i \in Membership[group[i]] /\ i \in Tasks
  BY MembershipTypes DEF WaiterInv, WaiterTypeOK
<1>4. n \in DOMAIN groups /\ groups[n].id = group[i] /\ \A m \in 1 .. n - 1 : groups[m].id # groups[n].id
  <2>1. \E m \in DOMAIN groups : groups[m].id = group[i]
    BY <1>2, <1>3 DEF Exact, Staying
  <2>2. /\ n \in 0 .. Len(groups)
        /\ n = 0 => \A m \in DOMAIN groups : groups[m].id # group[i]
        /\ n # 0 => /\ groups[n].id = group[i]
                    /\ \A m \in 1 .. n - 1 : groups[m].id # group[i]
    BY <1>2, FindFirst
  <2> HIDE DEF n
  <2> QED BY <1>2, <2>1, <2>2
<1> HIDE DEF n
<1>5. /\ gs \in Seq(Records) /\ Len(gs) = Len(groups)
      /\ \A m \in DOMAIN groups :
           /\ gs[m].id = groups[m].id /\ gs[m].waiters = groups[m].waiters
           /\ gs[m].count = IF m = n THEN groups[m].count - 1 ELSE groups[m].count
  <2>1. groups[n].count - 1 \in Int
    BY <1>2, <1>4, RecordTypes
  <2>2. LET hs == [groups EXCEPT ![n].count = groups[n].count - 1] IN
         /\ hs \in Seq(Records) /\ Len(hs) = Len(groups)
         /\ \A m \in DOMAIN groups :
              /\ hs[m].id = groups[m].id /\ hs[m].waiters = groups[m].waiters
              /\ hs[m].count = IF m = n THEN groups[n].count - 1 ELSE groups[m].count
    BY <1>2, <1>4, <2>1, CountChanged
  <2> QED BY <2>2
<1> HIDE DEF gs
<1>6. \A k \in Tasks : /\ stage'[k] = IF k = i THEN to ELSE stage[k]
                       /\ group'[k] = IF k = i THEN 0 ELSE group[k]
  BY <1>1 DEF WaiterInv, WaiterTypeOK, ExecutorTypeOK
<1> DEFINE M2 == [Membership EXCEPT ![groups[n].id] = @ \ {i}]
<1>7. Membership' = M2
  <2>1. \A id \in Nat : Members(id)' = IF id = groups[n].id THEN Members(id) \ {i} ELSE Members(id)
    <3>1. \A id \in Nat : Members(id)' = {k \in Tasks : stage'[k] \notin Ended /\ group'[k] = id}
      BY DEF Members, Ended, Tasks
    <3>2. to \in Ended
      BY DEF Ended
    <3>3. \A id \in Nat, k \in Tasks :
            stage'[k] \notin Ended /\ group'[k] = id <=> k # i /\ stage[k] \notin Ended /\ group[k] = id
      BY <1>6, <3>2
    <3>4. \A id \in Nat : i \in Members(id) => id = groups[n].id
      BY <1>4 DEF Members
    <3> QED BY <3>1, <3>3, <3>4 DEF Members
  <2>2. Membership' = [id \in Nat |-> Members(id)']
    BY DEF Membership
  <2>3. M2 = [id \in Nat |-> IF id = groups[n].id THEN Members(id) \ {i} ELSE Members(id)]
    BY <1>3, <1>4 DEF Membership
  <2> HIDE DEF M2
  <2> QED BY <2>1, <2>2, <2>3
<1>8. Exact(gs, freshId, M2)
  <2>1. i \in Membership[groups[n].id]
    BY <1>3, <1>4
  <2> QED BY <1>2, <1>4, <1>5, <2>1, OffExact
<1>9. Membership' \in Memberships
  BY <1>2, <1>3, <1>4, <1>7 DEF Memberships
<1> HIDE DEF M2
<1>10. gs # <<>> /\ DOMAIN gs = DOMAIN groups /\ (TwinsIn(gs) <=> TwinsIn(groups))
  BY <1>2, <1>5 DEF TwinsIn
<1>11. Exact(gs, freshId, Membership')
  BY <1>7, <1>8
<1>12. Clients \subseteq Threads
  BY DEF Threads
<1>13. /\ groups' \in Seq(Records) /\ groups' # <<>> /\ freshId' \in Nat
       /\ Exact(groups', freshId', Membership')
       /\ TwinsIn(groups') => TwinsIn(gs)
       /\ Fewer(gs)
       /\ ~TwinsIn(gs) => \A c \in Clients : pending'[c] = pending[c] \/ Noticed(c, gs)
       /\ \E l \in {label, "d_yield"} : pc' = [pc EXCEPT ![t] = l]
       /\ \/ pending' = pending
          \/ \E U : pending' = [u \in Threads |-> IF u \in U THEN AfterNotify(pending[u], ANYTHING)
                                                  ELSE pending[u]]
  <2>1. CASE Sweep(t, gs, label)
    <3>1. /\ \E l \in {label, "d_yield"} : pc' = [pc EXCEPT ![t] = l]
          /\ \E U : pending' = [u \in Threads |-> IF u \in U THEN AfterNotify(pending[u], ANYTHING)
                                                  ELSE pending[u]]
      BY <1>5, <2>1, SweepMoves
    <3>2. /\ groups' \in Seq(Records) /\ groups' # <<>> /\ freshId' \in Nat
          /\ Exact(groups', freshId', Membership')
          /\ TwinsIn(groups') => TwinsIn(gs)
          /\ Fewer(gs)
          /\ ~TwinsIn(gs) => \A c \in Clients : pending'[c] = pending[c] \/ Noticed(c, gs)
      BY <1>2, <1>5, <1>9, <1>10, <1>11, <1>12, <2>1, SweepExact
    <3> QED BY <3>1, <3>2
  <2>2. CASE groups' = gs /\ pc' = [pc EXCEPT ![t] = label] /\ freshId' = freshId /\ pending' = pending
    <3>1. Fewer(gs)
      BY <2>2 DEF Fewer
    <3>2. Exact(groups', freshId', Membership')
      BY <1>11, <2>2
    <3> QED BY <1>2, <1>5, <1>10, <2>2, <3>1, <3>2
  <2> QED BY <1>1, <2>1, <2>2
<1>14. PICK l \in {label, "d_yield"} : pc' = [pc EXCEPT ![t] = l]
  BY <1>13
<1>15. l \in Places(Labels) /\ l \notin Waiting
  BY DEF Places, Waiting
<1>16. /\ group' \in [Tasks -> Nat] /\ since' \in [Tasks -> Nat]
       /\ stage' \in [Tasks -> Stages] /\ job' \in [Threads -> Tasks \cup {0}]
  BY <1>1, <1>3 DEF WaiterInv, WaiterTypeOK, ExecutorTypeOK, Stages
<1>17. UNCHANGED <<generation, result, calls, trouble>>
  BY <1>1
<1>18. /\ WaiterTypeOK(Labels)'
       /\ \A u \in Threads : pc'[u] = pc[u] \/ (pc[u] \notin Waiting /\ pc'[u] \notin Waiting)
  BY <1>13, <1>14, <1>15, <1>16, <1>17, OffTypes
<1>19. InOrder'
  <2>1. \A k \in Tasks : stage'[k] = "new" <=> stage[k] = "new"
    BY <1>6 DEF Ended
  <2> QED BY <2>1 DEF WaiterInv, InOrder, Tasks
<1>20. \A k \in Tasks : stage[k] # "new" =>
         /\ stage'[k] # "new"
         /\ stage[k] \in {"done", "rejected"} => stage'[k] \in {"done", "rejected"}
         /\ stage'[k] \notin Ended => stage[k] \notin Ended /\ group'[k] = group[k]
  BY <1>6 DEF Ended
<1>21. UNCHANGED <<awaited, earlier, result, repeated>>
  BY <1>1 DEF calls
<1>22. WaiterInv(Labels)'
  BY <1>5, <1>10, <1>13, <1>18, <1>19, <1>20, <1>21, TellStep
<1> QED
  BY <1>14, <1>22

\* So does its loop, where it goes on after a moment.
LEMMA AgainStep ==
  ASSUME NEW Labels, WaiterInv(Labels), NEW t \in Threads,
         NEW label \in Places(Labels), label \notin Waiting, DecrementAgain(t, label)
  PROVE  /\ WaiterInv(Labels)'
         /\ \E l \in {label, "d_yield"} : pc' = [pc EXCEPT ![t] = l]
<1>1. /\ pc[t] = "d_yield" /\ Sweep(t, groups, label)
      /\ UNCHANGED <<generation, group, since, stage, job, result, calls, trouble>>
  BY DEF DecrementAgain
<1>2. /\ groups \in Seq(Records) /\ groups # <<>> /\ freshId \in Nat
      /\ Membership \in Memberships /\ Exact(groups, freshId, Membership)
  BY GroupTypes
<1>3. Membership' = Membership
  BY <1>1 DEF Membership, Members, Ended, Tasks
<1>4. /\ \E l \in {label, "d_yield"} : pc' = [pc EXCEPT ![t] = l]
      /\ \E U : pending' = [u \in Threads |-> IF u \in U THEN AfterNotify(pending[u], ANYTHING)
                                              ELSE pending[u]]
  BY <1>1, <1>2, SweepMoves
<1>5. /\ groups' \in Seq(Records) /\ groups' # <<>> /\ freshId' \in Nat
      /\ Exact(groups', freshId', Membership')
      /\ TwinsIn(groups') => TwinsIn(groups)
      /\ Fewer(groups)
      /\ ~TwinsIn(groups) => \A c \in Clients : pending'[c] = pending[c] \/ Noticed(c, groups)
  <2>1. Membership' \in Memberships /\ Exact(groups, freshId, Membership') /\ Clients \subseteq Threads
    BY <1>2, <1>3 DEF Threads
  <2> QED BY <1>1, <1>2, <2>1, SweepExact
<1>6. PICK l \in {label, "d_yield"} : pc' = [pc EXCEPT ![t] = l]
  BY <1>4
<1>7. l \in Places(Labels) /\ l \notin Waiting /\ pc[t] \notin Waiting
  BY <1>1 DEF Places, Waiting
<1>8. /\ group' \in [Tasks -> Nat] /\ since' \in [Tasks -> Nat]
      /\ stage' \in [Tasks -> Stages] /\ job' \in [Threads -> Tasks \cup {0}]
  BY <1>1 DEF WaiterInv, WaiterTypeOK, ExecutorTypeOK
<1>9. UNCHANGED <<generation, result, calls, trouble>>
  BY <1>1
<1>10. /\ WaiterTypeOK(Labels)'
       /\ \A u \in Threads : pc'[u] = pc[u] \/ (pc[u] \notin Waiting /\ pc'[u] \notin Waiting)
  BY <1>4, <1>5, <1>6, <1>7, <1>8, <1>9, OffTypes
<1>11. InOrder'
  BY <1>1 DEF WaiterInv, InOrder, Tasks
<1>12. \A k \in Tasks : stage[k] # "new" =>
         /\ stage'[k] # "new"
         /\ stage[k] \in {"done", "rejected"} => stage'[k] \in {"done", "rejected"}
         /\ stage'[k] \notin Ended => stage[k] \notin Ended /\ group'[k] = group[k]
  BY <1>1
<1>13. UNCHANGED <<awaited, earlier, result, repeated>>
  BY <1>1 DEF calls
<1>14. WaiterInv(Labels)'
  BY <1>2, <1>5, <1>10, <1>11, <1>12, <1>13, TellStep
<1> QED
  BY <1>6, <1>14

\* A list without the element at place k has the others, in their order.
LEMMA RemoveAtList ==
  ASSUME NEW S, NEW q \in Seq(S), NEW k \in 1 .. Len(q)
  PROVE  /\ RemoveAt(q, k) \in Seq(S)
         /\ Distinct(q) => /\ ToSet(RemoveAt(q, k)) = ToSet(q) \ {q[k]}
                           /\ Distinct(RemoveAt(q, k))
<1> DEFINE r == RemoveAt(q, k)
           over(m) == IF m < k THEN m ELSE m + 1
<1>1. Len(q) \in Nat /\ DOMAIN q = 1 .. Len(q)
  OBVIOUS
<1>2. /\ r \in Seq(S) /\ DOMAIN r = 1 .. Len(q) - 1
      /\ \A m \in 1 .. Len(q) - 1 : r[m] = q[over(m)]
  <2> DEFINE front == SubSeq(q, 1, k - 1)
             back  == SubSeq(q, k + 1, Len(q))
  <2>1. front \in Seq(S) /\ Len(front) = k - 1 /\ \A m \in 1 .. k - 1 : front[m] = q[m]
    OBVIOUS
  <2>2. back \in Seq(S) /\ Len(back) = Len(q) - k /\ \A m \in 1 .. Len(q) - k : back[m] = q[k + m]
    OBVIOUS
  <2>3. r = front \o back
    BY DEF RemoveAt
  <2> HIDE DEF front, back, r
  <2>4. /\ front \o back \in Seq(S)
        /\ Len(front \o back) = Len(front) + Len(back)
        /\ \A m \in 1 .. Len(front) + Len(back) :
             (front \o back)[m] = IF m <= Len(front) THEN front[m] ELSE back[m - Len(front)]
    BY <2>1, <2>2, ConcatProperties, Zenon
  <2>5. r \in Seq(S) /\ Len(r) = Len(q) - 1
    BY <1>1, <2>1, <2>2, <2>3, <2>4
  <2>6. ASSUME NEW m \in 1 .. Len(q) - 1 PROVE r[m] = q[over(m)]
    <3>1. r[m] = IF m <= k - 1 THEN front[m] ELSE back[m - (k - 1)]
      BY <1>1, <2>1, <2>2, <2>3, <2>4
    <3>2. CASE m < k
      BY <2>1, <3>1, <3>2
    <3>3. CASE ~(m < k)
      <4>1. m - (k - 1) \in 1 .. Len(q) - k /\ k + (m - (k - 1)) = m + 1
        BY <1>1, <3>3
      <4> QED BY <2>2, <3>1, <3>3, <4>1
    <3> QED BY <3>2, <3>3
  <2> QED BY <2>5, <2>6
<1> HIDE DEF r
<1>3. ASSUME Distinct(q)
      PROVE  ToSet(r) = ToSet(q) \ {q[k]} /\ Distinct(r)
  <2>1. \A m \in 1 .. Len(q) - 1 : over(m) \in 1 .. Len(q) /\ over(m) # k
    BY <1>1
  <2>2. \A m \in 1 .. Len(q) : m # k => \E j \in 1 .. Len(q) - 1 : over(j) = m
    <3> SUFFICES ASSUME NEW m \in 1 .. Len(q), m # k
                 PROVE  \E j \in 1 .. Len(q) - 1 : over(j) = m
      OBVIOUS
    <3>1. CASE m < k
      <4>1. m \in 1 .. Len(q) - 1 /\ over(m) = m
        BY <1>1, <3>1
      <4> QED BY <4>1
    <3>2. CASE m > k
      <4>1. m - 1 \in 1 .. Len(q) - 1 /\ over(m - 1) = m
        BY <1>1, <3>2
      <4> QED BY <4>1
    <3> QED BY <1>1, <3>1, <3>2
  <2>3. \A i, j \in 1 .. Len(q) - 1 : over(i) = over(j) => i = j
    BY <1>1
  <2> HIDE DEF over
  <2>4. Distinct(r)
    BY <1>1, <1>2, <1>3, <2>1, <2>3 DEF Distinct
  <2>5. ASSUME NEW x \in ToSet(r) PROVE x \in ToSet(q) \ {q[k]}
    <3>1. PICK m \in 1 .. Len(q) - 1 : x = q[over(m)]
      BY <1>2, <2>5 DEF ToSet
    <3> QED BY <1>1, <1>3, <2>1, <3>1 DEF ToSet, Distinct
  <2>6. ASSUME NEW x \in ToSet(q) \ {q[k]} PROVE x \in ToSet(r)
    <3>1. PICK m \in 1 .. Len(q) : x = q[m] /\ m # k
      BY <1>1, <2>6 DEF ToSet
    <3>2. PICK j \in 1 .. Len(q) - 1 : over(j) = m
      BY <2>2, <3>1
    <3> QED BY <1>2, <3>1, <3>2 DEF ToSet
  <2> QED BY <2>4, <2>5, <2>6
<1> QED
  BY <1>2, <1>3 DEF r

LEMMA RemoveFirstList ==
  ASSUME NEW S, NEW q \in Seq(S), NEW c
  PROVE  /\ RemoveFirst(q, c) \in Seq(S)
         /\ Distinct(q) => /\ ToSet(RemoveFirst(q, c)) = ToSet(q) \ {c}
                           /\ Distinct(RemoveFirst(q, c))
<1> DEFINE I == {i \in 1 .. Len(q) : q[i] = c}
<1>1. Len(q) \in Nat /\ DOMAIN q = 1 .. Len(q) /\ I \in SUBSET Nat
  OBVIOUS
<1>2. CASE I = {}
  <2>1. RemoveFirst(q, c) = q /\ c \notin ToSet(q)
    BY <1>1, <1>2 DEF RemoveFirst, ToSet
  <2> QED BY <2>1
<1>3. CASE I # {}
  <2>1. Min(I) \in I
    BY <1>1, <1>3, MinLeast
  <2>2. SelectInSeq(q, LAMBDA v : v = c) = Min(I)
    BY <1>3 DEF SelectInSeq
  <2>3. RemoveFirst(q, c) = RemoveAt(q, Min(I))
    BY <1>3, <2>2 DEF RemoveFirst
  <2>4. Min(I) \in 1 .. Len(q) /\ q[Min(I)] = c
    BY <2>1
  <2> HIDE DEF I
  <2> QED BY <2>3, <2>4, RemoveAtList
<1> QED
  BY <1>2, <1>3

\* The tasks that have been submitted are the first ones.
LEMMA PrefixCard ==
  ASSUME InOrder
  PROVE  LET e == Cardinality({i \in Tasks : stage[i] # "new"}) IN
         /\ e \in 0 .. MaxTasks
         /\ \A i \in 1 .. e : i \in Tasks /\ stage[i] # "new"
<1> DEFINE S == {i \in Tasks : stage[i] # "new"}
           e == Cardinality(S)
<1>1. Tasks = 1 .. MaxTasks /\ MaxTasks \in Nat
  BY ExecutorAssumption DEF Tasks
<1>2. IsFiniteSet(1 .. MaxTasks) /\ Cardinality(1 .. MaxTasks) = MaxTasks
  BY <1>1, UptoFinite
<1>3. S \in SUBSET (1 .. MaxTasks)
  BY <1>1
<1>4. e <= MaxTasks /\ e \in Nat
  BY <1>2, <1>3, FS_Subset, FS_CardinalityType
<1>5. ASSUME NEW j \in 1 .. e, j \notin S PROVE FALSE
  <2>1. j \in Tasks /\ stage[j] = "new" /\ j - 1 \in Nat
    BY <1>1, <1>4, <1>5
  <2>2. \A i \in S : i < j
    BY <1>1, <2>1 DEF InOrder
  <2>3. S \in SUBSET (1 .. j - 1)
    BY <1>1, <2>1, <2>2
  <2>4. IsFiniteSet(1 .. j - 1) /\ Cardinality(1 .. j - 1) = j - 1
    BY <2>1, UptoFinite
  <2>5. e <= j - 1
    BY <2>3, <2>4, FS_Subset
  <2> QED BY <1>4, <2>1, <2>5
<1> HIDE DEF e
<1>6. \A i \in 1 .. e : i \in S
  BY <1>5
<1> QED
  BY <1>1, <1>4, <1>6 DEF e

\* A step of a thread that waits, other than those that change a list.
LEMMA MoveStep ==
  ASSUME NEW Labels, WaiterInv(Labels), NEW c \in Clients, pc[c] \in Waiting,
         UNCHANGED <<groups, freshId, generation, group, since, stage, job, calls, trouble>>,
         NEW l \in Waiting, pc' = [pc EXCEPT ![c] = l],
         NEW p \in SUBSET Flags, pending' = [pending EXCEPT ![c] = p],
         result' \in [Clients -> States], \A d \in Clients \ {c} : result'[d] = result[d],
         Told(c)' => Told(c)
  PROVE  WaiterInv(Labels)'
<1>1. UNCHANGED <<awaited, earlier, repeated>>
  BY DEF calls
<1>2. c \in Threads
  BY DEF Threads
<1>3. WaiterTypeOK(Labels)'
  <2>1. ExecutorTypeOK({"ended", "d_yield"} \cup Labels)'
    BY <1>2 DEF WaiterInv, WaiterTypeOK, ExecutorTypeOK, Threads, Clients, Workers, Tasks, Stages,
         Flags, Waiting
  <2> QED BY <1>1, <2>1 DEF WaiterInv, WaiterTypeOK, Clients, Tasks, States
<1>4. Membership' = Membership
  BY DEF Membership, Members, Ended, Tasks
<1>5. Exact(groups', freshId', Membership') /\ (TwinsIn(groups') => repeated')
  BY <1>1, <1>4 DEF WaiterInv
<1>6. InOrder'
  BY DEF WaiterInv, InOrder, Tasks
<1>7. \A d \in Clients : /\ pc'[d] = IF d = c THEN l ELSE pc[d]
                         /\ pending'[d] = IF d = c THEN p ELSE pending[d]
                         /\ pc'[d] \in Waiting <=> pc[d] \in Waiting
  BY <1>2 DEF WaiterInv, WaiterTypeOK, ExecutorTypeOK, Threads
<1>8. EarlierInv'
  <2> SUFFICES ASSUME NEW d \in Clients, pc'[d] \in Waiting, NEW i \in 1 .. earlier[d]
               PROVE  /\ i \in Tasks /\ stage'[i] # "new"
                      /\ stage'[i] \notin Ended => group'[i] <= awaited[d]
    BY <1>1 DEF EarlierInv, Clients, Tasks, Waiting, Ended
  <2> QED BY <1>7 DEF WaiterInv, EarlierInv
<1>9. ASSUME ~repeated' PROVE ListedInv'
  <2>1. ListedInv
    BY <1>1, <1>9 DEF WaiterInv
  <2>2. \A n \in DOMAIN groups : \A d \in ToSet(groups[n].waiters) : d \in Clients
    <3>1. \A n \in DOMAIN groups : groups[n].waiters \in Seq(Clients)
      BY GroupTypes, RecordTypes
    <3> QED BY <3>1 DEF ToSet
  <2> QED BY <1>1, <1>7, <2>1, <2>2 DEF ListedInv, Distinct, ToSet, Waiting
<1>10. ASSUME ~repeated' PROVE ToldInv'
  <2>1. ToldInv
    BY <1>1, <1>10 DEF WaiterInv
  <2>2. \A d \in Clients : Told(d)' => Told(d)
    BY <1>7 DEF Told
  <2> QED BY <1>1, <2>1, <2>2 DEF ToldInv, Clients
<1> QED
  BY <1>3, <1>5, <1>6, <1>8, <1>9, <1>10 DEF WaiterInv

LEMMA ReportStep ==
  ASSUME NEW Labels, WaiterInv(Labels), NEW c \in Clients, pc[c] \in Waiting,
         NEW p \in SUBSET Flags, NEW l \in {"w_woken", "w_return"}, Report(c, p, l),
         SIGNALED \in p => Told(c)
  PROVE  WaiterInv(Labels)'
<1>1. /\ UNCHANGED <<groups, freshId, generation, group, since, stage, job, calls, trouble>>
      /\ pc' = [pc EXCEPT ![c] = l]
      /\ pending' = [pending EXCEPT ![c] = AfterNext(p, ANYTHING)]
      /\ result' = [result EXCEPT ![c] = NextState(p, ANYTHING)]
  BY DEF Report, Goto
<1>2. result' \in [Clients -> States]
  BY <1>1, StatusTypes DEF WaiterInv, WaiterTypeOK
<1>3. AfterNext(p, ANYTHING) \in SUBSET Flags
  BY StatusTypes
<1>4. (SIGNALED \in AfterNext(p, ANYTHING) \/ NextState(p, ANYTHING) = SIGNALED) => SIGNALED \in p
  BY DEF AfterNext, NextState, SIGNALED, TIMEDOUT, INTERRUPTED, INVALID
<1>5. l \in Waiting
  BY DEF Waiting
<1>6. pc'[c] = l /\ \A d \in Clients \ {c} : result'[d] = result[d]
  BY <1>1 DEF WaiterInv, WaiterTypeOK, ExecutorTypeOK, Threads
<1>7. result'[c] = NextState(p, ANYTHING)
  BY <1>1 DEF WaiterInv, WaiterTypeOK
<1>8. Told(c)' => Told(c)
  BY <1>4, <1>6, <1>7 DEF Told
<1> QED
  BY <1>1, <1>2, <1>3, <1>5, <1>6, <1>8, MoveStep

LEMMA WaitMoves ==
  ASSUME NEW Labels, WaiterInv(Labels), NEW c \in Clients,
         \/ WaitSkip(c) \/ WaitSleep(c) \/ WaitWake(c) \/ WaitRelock(c)
         \/ WaitExpire(c) \/ InterruptClient(c)
  PROVE  WaiterInv(Labels)'
<1>1. /\ pending[c] \in SUBSET Flags /\ pc \in [Threads -> {pc[t] : t \in Threads}]
      /\ pending = [pending EXCEPT ![c] = pending[c]]
      /\ result \in [Clients -> States]
  BY DEF WaiterInv, WaiterTypeOK, ExecutorTypeOK, Threads
<1>2. SIGNALED \in pending[c] /\ pc[c] \in {"w_enter", "w_sleep"} => Told(c)
  BY DEF Told
<1>3. c \in Threads
  BY DEF Threads
<1>4. CASE WaitSkip(c)
  <2>1. /\ pc[c] \in Waiting /\ Report(c, pending[c], "w_return")
        /\ SIGNALED \in pending[c] => Told(c)
    BY <1>2, <1>4 DEF WaitSkip, Waiting
  <2> QED BY <1>1, <2>1, ReportStep
<1>5. CASE WaitSleep(c)
  <2>1. /\ pc[c] \in Waiting /\ pc[c] = "w_enter" /\ pc' = [pc EXCEPT ![c] = "w_sleep"]
        /\ UNCHANGED <<groups, freshId, generation, group, since, stage, job, calls, trouble>>
        /\ pending' = pending /\ result' = result
    BY <1>5 DEF WaitSleep, Waiting, Goto
  <2>2. Told(c)' => Told(c)
    BY <1>1, <1>3, <2>1 DEF Told
  <2>3. pending' = [pending EXCEPT ![c] = pending[c]] /\ "w_sleep" \in Waiting /\ result' \in [Clients -> States]
    BY <1>1, <2>1 DEF Waiting
  <2> QED BY <1>1, <2>1, <2>2, <2>3, MoveStep
<1>6. CASE WaitWake(c)
  <2>1. /\ pc[c] \in Waiting /\ Report(c, pending[c], "w_woken")
        /\ SIGNALED \in pending[c] => Told(c)
    BY <1>2, <1>6 DEF WaitWake, Waiting
  <2> QED BY <1>1, <2>1, ReportStep
<1>7. CASE WaitRelock(c)
  <2>1. /\ pc[c] \in Waiting /\ pc[c] = "w_woken" /\ pc' = [pc EXCEPT ![c] = "w_return"]
        /\ UNCHANGED <<groups, freshId, generation, group, since, stage, job, calls, trouble>>
        /\ pending' = pending /\ result' = result
    BY <1>7 DEF WaitRelock, Waiting, Goto
  <2>2. Told(c)' => Told(c)
    BY <1>1, <1>3, <2>1 DEF Told
  <2>3. pending' = [pending EXCEPT ![c] = pending[c]] /\ "w_return" \in Waiting /\ result' \in [Clients -> States]
    BY <1>1, <2>1 DEF Waiting
  <2> QED BY <1>1, <2>1, <2>2, <2>3, MoveStep
<1>8. CASE WaitExpire(c)
  <2>1. /\ pc[c] \in Waiting /\ Report(c, pending[c] \cup {TIMEDOUT}, "w_woken")
        /\ pending[c] \cup {TIMEDOUT} \in SUBSET Flags
    BY <1>1, <1>8 DEF WaitExpire, Waiting, Flags
  <2>2. SIGNALED \in pending[c] \cup {TIMEDOUT} => Told(c)
    BY <1>2, <1>8 DEF WaitExpire, SIGNALED, TIMEDOUT
  <2> QED BY <2>1, <2>2, ReportStep
<1>9. CASE InterruptClient(c)
  <2>1. /\ pc[c] \in Waiting
        /\ UNCHANGED <<groups, freshId, generation, group, since, stage, job, calls, trouble>>
        /\ pending' = [pending EXCEPT ![c] = AfterInterrupt(pending[c], ANYTHING)]
        /\ pc' = pc /\ result' = result
    BY <1>9 DEF InterruptClient
  <2>2. pc' = [pc EXCEPT ![c] = pc[c]] /\ result' \in [Clients -> States]
    BY <1>1, <2>1
  <2>3. AfterInterrupt(pending[c], ANYTHING) \in SUBSET Flags
    BY <1>1, StatusTypes
  <2>4. Told(c)' => Told(c)
    <3>1. pending'[c] = AfterInterrupt(pending[c], ANYTHING)
      BY <1>3, <2>1 DEF WaiterInv, WaiterTypeOK, ExecutorTypeOK
    <3> QED BY <2>1, <3>1 DEF Told, AfterInterrupt, SIGNALED, INTERRUPTED
  <2> QED BY <2>1, <2>2, <2>3, <2>4, MoveStep
<1> QED
  BY <1>4, <1>5, <1>6, <1>7, <1>8, <1>9

LEMMA AppendList ==
  ASSUME NEW S, NEW q \in Seq(S), NEW c \in S
  PROVE  /\ ToSet(Append(q, c)) = ToSet(q) \cup {c}
         /\ Distinct(q) /\ c \notin ToSet(q) => Distinct(Append(q, c))
<1> DEFINE a == Append(q, c)
<1>1. Len(q) \in Nat /\ DOMAIN q = 1 .. Len(q)
  OBVIOUS
<1>2. /\ DOMAIN a = 1 .. Len(q) + 1 /\ a[Len(q) + 1] = c
      /\ \A i \in 1 .. Len(q) : a[i] = q[i]
  OBVIOUS
<1> HIDE DEF a
<1>3. ToSet(a) = ToSet(q) \cup {c}
  <2>1. ASSUME NEW x \in ToSet(a) PROVE x \in ToSet(q) \cup {c}
    <3>1. PICK i \in 1 .. Len(q) + 1 : x = a[i]
      BY <1>2, <2>1 DEF ToSet
    <3> QED BY <1>1, <1>2, <3>1 DEF ToSet
  <2>2. c \in ToSet(a)
    <3>1. Len(q) + 1 \in 1 .. Len(q) + 1
      BY <1>1
    <3> QED BY <1>2, <3>1 DEF ToSet
  <2>3. ASSUME NEW x \in ToSet(q) PROVE x \in ToSet(a)
    <3>1. PICK i \in 1 .. Len(q) : x = q[i]
      BY <1>1, <2>3 DEF ToSet
    <3>2. i \in DOMAIN a /\ a[i] = x
      BY <1>1, <1>2, <3>1
    <3> QED BY <3>2 DEF ToSet
  <2> QED BY <2>1, <2>2, <2>3
<1>4. Distinct(q) /\ c \notin ToSet(q) => Distinct(a)
  BY <1>1, <1>2 DEF ToSet, Distinct
<1> QED
  BY <1>3, <1>4 DEF a

\* wait() enters the last group.
LEMMA CallStep ==
  ASSUME NEW Labels, WaiterInv(Labels), NEW c \in Clients, pc[c] \notin Waiting,
         NEW m \in Nat, m = Len(groups),
         groups' = [groups EXCEPT ![m].waiters = Append(@, c)],
         awaited' = [awaited EXCEPT ![c] = groups[m].id],
         earlier' = [earlier EXCEPT ![c] =
           IF SIGNALED \in pending[c] THEN 0 ELSE Cardinality({i \in Tasks : stage[i] # "new"})],
         pc' = [pc EXCEPT ![c] = "w_enter"],
         UNCHANGED <<freshId, generation, group, since, stage, job, pending, result, trouble,
                     repeated>>
  PROVE  WaiterInv(Labels)'
<1>1. /\ groups \in Seq(Records) /\ groups # <<>> /\ freshId \in Nat
      /\ DOMAIN groups = 1 .. m /\ m > 0
      /\ Membership \in Memberships /\ Exact(groups, freshId, Membership)
  BY GroupTypes
<1>2. \A n \in 1 .. m : groups[n].id \in Nat /\ groups[n].waiters \in Seq(Clients)
  BY <1>1, RecordTypes
<1>3. c \in Threads /\ m \in 1 .. m
  BY <1>1 DEF Threads
<1>4. /\ groups' \in Seq(Records) /\ Len(groups') = m /\ DOMAIN groups' = 1 .. m
      /\ \A n \in 1 .. m :
           /\ groups'[n].id = groups[n].id /\ groups'[n].count = groups[n].count
           /\ groups'[n].waiters = IF n = m THEN Append(groups[n].waiters, c) ELSE groups[n].waiters
  <2> DEFINE q == Append(groups[m].waiters, c)
             hs == [groups EXCEPT ![m].waiters = q]
  <2>1. groups' = hs
    OBVIOUS
  <2>2. q \in Seq(Clients)
    BY <1>2, <1>3
  <2> HIDE DEF q
  <2>3. groups \in Seq(Records) /\ m \in DOMAIN groups
    BY <1>1, <1>3
  <2>4. /\ hs \in Seq(Records) /\ Len(hs) = Len(groups)
        /\ \A n \in DOMAIN groups :
             /\ hs[n].id = groups[n].id /\ hs[n].count = groups[n].count
             /\ hs[n].waiters = IF n = m THEN q ELSE groups[n].waiters
    BY <2>2, <2>3, WaitersChanged
  <2>5. groups' \in Seq(Records) /\ Len(groups') = m
    BY <2>1, <2>4
  <2> HIDE DEF hs
  <2> QED BY <1>1, <2>1, <2>4, <2>5 DEF q
<1>5. Membership' = Membership
  BY DEF Membership, Members, Ended, Tasks
<1>6. Exact(groups', freshId', Membership')
  BY <1>1, <1>4, <1>5, SameExact
<1>7. TwinsIn(groups') => repeated'
  BY <1>1, <1>4 DEF WaiterInv, TwinsIn
<1>8. InOrder'
  BY DEF WaiterInv, InOrder, Tasks
<1> DEFINE f == Cardinality({i \in Tasks : stage[i] # "new"})
           e == IF SIGNALED \in pending[c] THEN 0 ELSE f
<1>9. e \in 0 .. MaxTasks /\ \A i \in 1 .. e : i \in Tasks /\ stage[i] # "new"
  <2>1. f \in 0 .. MaxTasks /\ \A i \in 1 .. f : i \in Tasks /\ stage[i] # "new"
    BY PrefixCard DEF WaiterInv
  <2> HIDE DEF f
  <2> QED BY <2>1, ExecutorAssumption
<1>16. SIGNALED \in pending[c] => e = 0
  OBVIOUS
<1> HIDE DEF e, f
<1>10. earlier' = [earlier EXCEPT ![c] = e]
  BY DEF e, f
<1>11. \A d \in Clients :
         /\ awaited'[d] = IF d = c THEN groups[m].id ELSE awaited[d]
         /\ earlier'[d] = IF d = c THEN e ELSE earlier[d]
         /\ pc'[d] = IF d = c THEN "w_enter" ELSE pc[d]
  BY <1>3, <1>10 DEF WaiterInv, WaiterTypeOK, ExecutorTypeOK, Threads
<1>12. WaiterTypeOK(Labels)'
  <2>1. ExecutorTypeOK({"ended", "d_yield"} \cup Labels)'
    BY DEF WaiterInv, WaiterTypeOK, ExecutorTypeOK, Threads, Clients, Workers, Tasks, Stages,
         Flags, Waiting
  <2>2. awaited' \in [Clients -> Nat]
    BY <1>2, <1>3 DEF WaiterInv, WaiterTypeOK
  <2>3. earlier' \in [Clients -> 0 .. MaxTasks]
    BY <1>9, <1>10 DEF WaiterInv, WaiterTypeOK
  <2>4. groups' # <<>>
    BY <1>1, <1>4
  <2> QED BY <1>4, <2>1, <2>2, <2>3, <2>4, SeqOfRecords
          DEF WaiterInv, WaiterTypeOK, Clients, Tasks, States
<1>13. EarlierInv'
  <2> SUFFICES ASSUME NEW d \in Clients, pc'[d] \in Waiting, NEW i \in 1 .. earlier'[d]
               PROVE  /\ i \in Tasks /\ stage[i] # "new"
                      /\ stage[i] \notin Ended => group[i] <= awaited'[d]
    BY DEF EarlierInv, Clients, Tasks, Waiting, Ended
  <2>1. CASE d = c
    <3>1. i \in Tasks /\ stage[i] # "new" /\ awaited'[d] = groups[m].id
      BY <1>9, <1>11, <2>1
    <3>2. ASSUME stage[i] \notin Ended PROVE group[i] <= groups[m].id
      <4>1. group[i] \in Nat /\ Membership[group[i]] # {}
        BY <3>1, <3>2, MembershipTypes DEF WaiterInv, WaiterTypeOK
      <4>2. PICK n \in 1 .. m : groups[n].id = group[i]
        BY <1>1, <4>1 DEF Exact, Staying
      <4>3. n < m => groups[n].id < groups[m].id \/ groups[n].id = groups[m].id
        BY <1>1, <1>3 DEF Exact, Orderly
      <4> QED BY <1>2, <1>3, <4>2, <4>3
    <3> QED BY <3>1, <3>2
  <2>2. CASE d # c
    BY <1>11, <2>2 DEF WaiterInv, EarlierInv
  <2> QED BY <2>1, <2>2
<1>14. ASSUME ~repeated' PROVE ListedInv'
  <2>1. ListedInv
    BY <1>14 DEF WaiterInv
  <2>2. \A n \in 1 .. m : c \notin ToSet(groups[n].waiters)
    BY <1>1, <2>1 DEF ListedInv
  <2> SUFFICES ASSUME NEW n \in 1 .. m
               PROVE  /\ Distinct(groups'[n].waiters)
                      /\ \A d \in ToSet(groups'[n].waiters) :
                           pc'[d] \in Waiting /\ awaited'[d] = groups'[n].id
    BY <1>4 DEF ListedInv, Distinct, ToSet, Waiting
  <2>3. /\ Distinct(groups[n].waiters)
        /\ \A d \in ToSet(groups[n].waiters) :
             d \in Clients /\ d # c /\ pc'[d] \in Waiting /\ awaited'[d] = groups'[n].id
    <3>1. \A d \in ToSet(groups[n].waiters) : d \in Clients /\ d # c
      BY <1>2, <2>2 DEF ToSet
    <3> QED BY <1>1, <1>4, <1>11, <2>1, <3>1 DEF ListedInv
  <2>4. CASE n # m
    BY <1>4, <2>3, <2>4
  <2>5. CASE n = m
    <3> DEFINE q == groups[n].waiters
    <3>1. q \in Seq(Clients) /\ groups'[n].waiters = Append(q, c)
      BY <1>2, <1>4, <2>5
    <3> HIDE DEF q
    <3>2. /\ ToSet(Append(q, c)) = ToSet(q) \cup {c}
          /\ Distinct(q) /\ c \notin ToSet(q) => Distinct(Append(q, c))
      BY <3>1, AppendList
    <3>4. pc'[c] \in Waiting /\ awaited'[c] = groups'[n].id
      BY <1>4, <1>11, <2>5 DEF Waiting
    <3> QED BY <2>2, <2>3, <3>1, <3>2, <3>4 DEF q
  <2> QED BY <2>4, <2>5
<1>15. ASSUME ~repeated' PROVE ToldInv'
  <2>1. ToldInv
    BY <1>15 DEF WaiterInv
  <2> SUFFICES ASSUME NEW d \in Clients, Told(d)', NEW i \in 1 .. earlier'[d]
               PROVE  stage[i] \in {"done", "rejected"}
    BY DEF ToldInv, Clients
  <2>2. CASE d = c
    <3>1. pc'[c] = "w_enter" /\ earlier'[c] = e
      BY <1>11
    <3>2. SIGNALED \in pending[c]
      BY <2>2, <3>1 DEF Told
    <3> QED BY <1>16, <2>2, <3>1, <3>2
  <2>3. CASE d # c
    BY <1>11, <2>1, <2>3 DEF ToldInv, Told
  <2> QED BY <2>2, <2>3
<1> QED
  BY <1>6, <1>7, <1>8, <1>12, <1>13, <1>14, <1>15 DEF WaiterInv

\* wait() leaves the group.
LEMMA ReturnStep ==
  ASSUME NEW Labels, WaiterInv(Labels), NEW c \in Clients, WaitReturn(c)
  PROVE  WaiterInv(Labels)'
<1> DEFINE n == Find(awaited[c])
<1>0. /\ groups \in Seq(Records) /\ groups # <<>> /\ freshId \in Nat
      /\ DOMAIN groups = 1 .. Len(groups) /\ Len(groups) \in Nat
      /\ Membership \in Memberships /\ Exact(groups, freshId, Membership)
  BY GroupTypes
<1>1. /\ pc[c] = "w_return"
      /\ groups' = IF n = 0 THEN groups ELSE [groups EXCEPT ![n].waiters = RemoveFirst(@, c)]
      /\ result' = [result EXCEPT ![c] = INVALID]
      /\ awaited' = [awaited EXCEPT ![c] = 0]
      /\ earlier' = [earlier EXCEPT ![c] = 0]
      /\ pc' = [pc EXCEPT ![c] = "idle"]
      /\ UNCHANGED <<freshId, generation, group, since, stage, job, pending, trouble, repeated>>
  BY DEF WaitReturn, Goto
<1>2. /\ n \in 0 .. Len(groups)
      /\ n = 0 => \A k \in DOMAIN groups : groups[k].id # awaited[c]
      /\ n # 0 => groups[n].id = awaited[c]
  BY <1>0, FindFirst
<1> HIDE DEF n
<1>3. \A k \in 1 .. Len(groups) : groups[k].id \in Nat /\ groups[k].waiters \in Seq(Clients)
  BY <1>0, RecordTypes
<1>4. c \in Threads
  BY DEF Threads
<1>5. /\ groups' \in Seq(Records) /\ Len(groups') = Len(groups) /\ DOMAIN groups' = 1 .. Len(groups)
      /\ \A k \in 1 .. Len(groups) :
           /\ groups'[k].id = groups[k].id /\ groups'[k].count = groups[k].count
           /\ groups'[k].waiters = IF k = n THEN RemoveFirst(groups[k].waiters, c)
                                   ELSE groups[k].waiters
  <2>1. CASE n = 0
    BY <1>0, <1>1, <2>1
  <2>2. CASE n # 0
    <3> DEFINE q == RemoveFirst(groups[n].waiters, c)
               hs == [groups EXCEPT ![n].waiters = q]
    <3>1. groups' = hs
      BY <1>1, <2>2
    <3>2. q \in Seq(Clients)
      <4>1. groups[n].waiters \in Seq(Clients)
        BY <1>0, <1>2, <1>3, <2>2
      <4> QED BY <4>1, RemoveFirstList
    <3> HIDE DEF q
    <3>3. groups \in Seq(Records) /\ n \in DOMAIN groups
      BY <1>0, <1>2, <2>2
    <3>4. /\ hs \in Seq(Records) /\ Len(hs) = Len(groups)
          /\ \A k \in DOMAIN groups :
               /\ hs[k].id = groups[k].id /\ hs[k].count = groups[k].count
               /\ hs[k].waiters = IF k = n THEN q ELSE groups[k].waiters
      BY <3>2, <3>3, WaitersChanged
    <3>5. groups' \in Seq(Records) /\ Len(groups') = Len(groups)
      BY <3>1, <3>4
    <3> HIDE DEF hs
    <3> QED BY <1>0, <3>1, <3>4, <3>5 DEF q
  <2> QED BY <2>1, <2>2
<1>6. \A k \in 1 .. Len(groups) :
        /\ k # n => groups'[k].waiters = groups[k].waiters
        /\ k = n /\ Distinct(groups[k].waiters) =>
             /\ ToSet(groups'[k].waiters) = ToSet(groups[k].waiters) \ {c}
             /\ Distinct(groups'[k].waiters)
  BY <1>3, <1>5, RemoveFirstList
<1>7. Membership' = Membership
  BY <1>1 DEF Membership, Members, Ended, Tasks
<1>8. Exact(groups', freshId', Membership')
  <2>1. \A k \in DOMAIN groups : groups'[k].id = groups[k].id /\ groups'[k].count = groups[k].count
    BY <1>0, <1>5
  <2>2. Exact(groups', freshId, Membership)
    BY <1>0, <1>5, <2>1, SameExact
  <2> QED BY <1>1, <1>7, <2>2
<1>9. TwinsIn(groups') => repeated'
  <2>1. TwinsIn(groups') => TwinsIn(groups)
    BY <1>0, <1>5 DEF TwinsIn
  <2> QED BY <1>1, <2>1 DEF WaiterInv
<1>10. InOrder'
  BY <1>1 DEF WaiterInv, InOrder, Tasks
<1>11. \A d \in Clients :
         /\ d # c => awaited'[d] = awaited[d] /\ earlier'[d] = earlier[d] /\ pc'[d] = pc[d]
         /\ pc'[c] = "idle"
  BY <1>1, <1>4 DEF WaiterInv, WaiterTypeOK, ExecutorTypeOK, Threads
<1>12. WaiterTypeOK(Labels)'
  <2>1. ExecutorTypeOK({"ended", "d_yield"} \cup Labels)'
    BY <1>1 DEF WaiterInv, WaiterTypeOK, ExecutorTypeOK, Threads, Clients, Workers, Tasks, Stages,
         Flags, Waiting
  <2>2. awaited' \in [Clients -> Nat] /\ result' \in [Clients -> States]
    BY <1>1 DEF WaiterInv, WaiterTypeOK, States
  <2>3. earlier' \in [Clients -> 0 .. MaxTasks]
    BY <1>1, ExecutorAssumption DEF WaiterInv, WaiterTypeOK
  <2>4. groups' # <<>>
    BY <1>0, <1>5
  <2>5. /\ freshId' \in Nat /\ generation' \in Nat /\ repeated' \in BOOLEAN
        /\ group' \in [Tasks -> Nat] /\ since' \in [Tasks -> Nat]
    BY <1>1 DEF WaiterInv, WaiterTypeOK
  <2> QED BY <1>5, <2>1, <2>2, <2>3, <2>4, <2>5, SeqOfRecords
          DEF WaiterTypeOK, Clients, Tasks, States
<1>13. EarlierInv'
  <2> SUFFICES ASSUME NEW d \in Clients, pc'[d] \in Waiting, NEW i \in 1 .. earlier'[d]
               PROVE  /\ i \in Tasks /\ stage[i] # "new"
                      /\ stage[i] \notin Ended => group[i] <= awaited'[d]
    BY <1>1 DEF EarlierInv, Clients, Tasks, Waiting, Ended
  <2>1. d # c
    BY <1>11 DEF Waiting
  <2> QED BY <1>11, <2>1 DEF WaiterInv, EarlierInv
<1>14. ASSUME ~repeated' PROVE ListedInv'
  <2>1. ListedInv /\ ~TwinsIn(groups)
    BY <1>1, <1>14 DEF WaiterInv
  <2> SUFFICES ASSUME NEW k \in 1 .. Len(groups)
               PROVE  /\ Distinct(groups'[k].waiters)
                      /\ \A d \in ToSet(groups'[k].waiters) :
                           d # c /\ pc'[d] \in Waiting /\ awaited'[d] = groups'[k].id
    BY <1>5 DEF ListedInv, Distinct, ToSet, Waiting
  <2>2. /\ Distinct(groups[k].waiters)
        /\ \A d \in ToSet(groups[k].waiters) :
             d \in Clients /\ pc[d] \in Waiting /\ awaited[d] = groups[k].id
    <3>1. \A d \in ToSet(groups[k].waiters) : d \in Clients
      BY <1>3 DEF ToSet
    <3> QED BY <1>0, <2>1, <3>1 DEF ListedInv
  <2>3. c \in ToSet(groups[k].waiters) => k = n
    <3> SUFFICES ASSUME c \in ToSet(groups[k].waiters), k # n PROVE FALSE
      OBVIOUS
    <3>1. groups[k].id = awaited[c] /\ n # 0 /\ groups[n].id = groups[k].id /\ n \in 1 .. Len(groups)
      BY <1>0, <1>2, <2>2
    <3>2. \A i, j \in 1 .. Len(groups) : i < j => groups[i].id < groups[j].id
      BY <1>0, <2>1 DEF Exact, Orderly, TwinsIn
    <3>3. k < n \/ n < k
      BY <1>0, <3>1
    <3> QED BY <1>3, <3>1, <3>2, <3>3
  <2>4. CASE k = n
    <3>1. Distinct(groups'[k].waiters) /\ ToSet(groups'[k].waiters) = ToSet(groups[k].waiters) \ {c}
      BY <1>6, <2>2, <2>4
    <3> QED BY <1>5, <1>11, <2>2, <3>1
  <2>5. CASE k # n
    <3>1. groups'[k].waiters = groups[k].waiters /\ c \notin ToSet(groups[k].waiters)
      BY <1>6, <2>3, <2>5
    <3> QED BY <1>5, <1>11, <2>2, <3>1
  <2> QED BY <2>4, <2>5
<1>15. ASSUME ~repeated' PROVE ToldInv'
  <2>1. ToldInv
    BY <1>1, <1>15 DEF WaiterInv
  <2>2. \A d \in Clients \ {c} : result'[d] = result[d]
    BY <1>1 DEF WaiterInv, WaiterTypeOK
  <2> SUFFICES ASSUME NEW d \in Clients, Told(d)', NEW i \in 1 .. earlier'[d]
               PROVE  stage[i] \in {"done", "rejected"}
    BY <1>1 DEF ToldInv, Clients
  <2>3. d # c
    BY <1>11 DEF Told
  <2> QED BY <1>1, <1>11, <2>1, <2>2, <2>3 DEF ToldInv, Told
<1> QED
  BY <1>8, <1>9, <1>10, <1>12, <1>13, <1>14, <1>15 DEF WaiterInv

-----------------------------------------------------------------------------
\* It holds at the start,
LEMMA WaiterStart ==
  ASSUME NEW Labels, WaiterInit, pc \in [Threads -> Places(Labels)], Labels \cap Waiting = {}
  PROVE  WaiterInv(Labels)
<1> DEFINE gs == <<Group(0)>>
<1>1. gs \in Seq(Records) /\ Len(gs) = 1 /\ DOMAIN gs = {1} /\ gs[1] = Group(0) /\ gs # <<>>
  BY DEF Group, Records
<1>2. groups = gs /\ freshId = 1 /\ repeated = FALSE
  BY DEF WaiterInit
<1>3. WaiterTypeOK(Labels)
  <2>1. ExecutorTypeOK({"ended", "d_yield"} \cup Labels)
    BY DEF WaiterInit, ExecutorInit, ExecutorTypeOK, Places, Stages
  <2>2. 0 \in 0 .. MaxTasks
    BY ExecutorAssumption
  <2>3. groups \in Seq(Records) /\ groups # <<>> /\ freshId \in Nat /\ repeated \in BOOLEAN
    BY <1>1, <1>2
  <2>4. /\ generation \in Nat /\ group \in [Tasks -> Nat] /\ since \in [Tasks -> Nat]
        /\ result \in [Clients -> States] /\ awaited \in [Clients -> Nat]
        /\ earlier \in [Clients -> 0 .. MaxTasks]
    BY <2>2 DEF WaiterInit, States
  <2> QED BY <2>1, <2>3, <2>4, SeqOfRecords DEF WaiterTypeOK
<1>4. \A id \in Nat : Membership[id] = {}
  BY DEF Membership, Members, WaiterInit, ExecutorInit, Ended
<1>5. Exact(groups, freshId, Membership)
  <2>1. gs[1].id = 0 /\ gs[1].count = 0 /\ ~TwinsIn(gs)
    BY <1>1 DEF Group, TwinsIn
  <2>2. Cardinality(Membership[0]) = 0
    BY <1>4, FS_EmptySet
  <2> HIDE DEF gs
  <2>3. Orderly(gs, 1) /\ Matching(gs, Membership)
    BY <1>1, <2>1, <2>2 DEF Orderly, Matching
  <2>4. Staying(gs, Membership)
    BY <1>4 DEF Staying
  <2> QED BY <1>2, <2>3, <2>4 DEF Exact
<1>6. ~TwinsIn(groups) /\ \A n \in DOMAIN groups : groups[n].waiters = <<>>
  BY <1>1, <1>2 DEF TwinsIn, Group
<1>7. \A c \in Clients : pc[c] \notin Waiting /\ pending[c] = {}
  BY DEF WaiterInit, ExecutorInit, Threads, Places, Waiting
<1>8. InOrder /\ EarlierInv
  BY <1>7 DEF InOrder, EarlierInv, WaiterInit, ExecutorInit
<1>9. ListedInv
  BY <1>6 DEF ListedInv, Distinct, ToSet
<1>10. ToldInv
  BY <1>7 DEF ToldInv, Told, Waiting
<1> QED
  BY <1>3, <1>5, <1>6, <1>8, <1>9, <1>10 DEF WaiterInv

-----------------------------------------------------------------------------
(* The instances share the names of WaiterQueue. *)

LEMMA PoolNames ==
  /\ Pool!Clients = Clients /\ Pool!Tasks = Tasks /\ Pool!Workers = Workers
  /\ Pool!Threads = Threads /\ Pool!Flags = Flags /\ Pool!States = States
  /\ \A L : Pool!WaiterTypeOK(L) <=> WaiterTypeOK(L)
  /\ \A t, l : Pool!Goto(t, l) <=> Goto(t, l)
  /\ Pool!WaiterInit <=> WaiterInit
  /\ Pool!NextGeneration <=> NextGeneration
  BY DEF Pool!Clients, Clients, Pool!Tasks, Tasks, Pool!Workers, Workers, Pool!Threads, Threads,
    Pool!Flags, Flags, Pool!SIGNALED, SIGNALED, Pool!INTERRUPTED, INTERRUPTED, Pool!TIMEDOUT, TIMEDOUT,
    Pool!CANCELED, CANCELED, Pool!INVALID, INVALID, Pool!States, States, 
    Pool!WaiterTypeOK, WaiterTypeOK, Pool!ExecutorTypeOK, ExecutorTypeOK, Pool!Stages, Stages, Pool!Waiting, Waiting,
    Pool!Goto, Goto, Pool!WaiterInit, WaiterInit, Pool!ExecutorInit, ExecutorInit, Pool!Group, Group,
    Pool!NextGeneration, NextGeneration, Pool!calls, calls

LEMMA PoolStatus ==
  /\ \A p, m : Pool!AfterNotify(p, m) = AfterNotify(p, m)
  /\ \A p, m : Pool!AfterInterrupt(p, m) = AfterInterrupt(p, m)
  /\ \A p, m : Pool!AfterCancel(p, m) = AfterCancel(p, m)
  /\ \A p, m : Pool!AfterNext(p, m) = AfterNext(p, m)
  /\ \A p, m : Pool!NextState(p, m) = NextState(p, m)
  /\ \A p : Pool!AfterIsInterrupted(p) = AfterIsInterrupted(p)
  /\ \A p, m, i : Pool!Pending(p, m, i) <=> Pending(p, m, i)
  /\ Pool!ANYTHING = ANYTHING
  BY DEF Pool!AfterNotify, AfterNotify, Pool!AfterInterrupt, AfterInterrupt, Pool!AfterCancel, AfterCancel,
    Pool!AfterNext, AfterNext, Pool!NextState, NextState, Pool!AfterIsInterrupted, AfterIsInterrupted,
    Pool!Pending, Pending, Pool!ANYTHING, ANYTHING, Pool!Notifiable, Notifiable, Pool!Interruptible, Interruptible,
    Pool!Flags, Flags, Pool!SIGNALED, SIGNALED, Pool!INTERRUPTED, INTERRUPTED, Pool!TIMEDOUT, TIMEDOUT,
    Pool!CANCELED, CANCELED, Pool!INVALID, INVALID

LEMMA PoolFind ==
  \A id : Pool!Find(id) = Find(id)
  BY DEF Pool!Find, Find, Pool!SelectInSeq, SelectInSeq, Pool!Min, Min

LEMMA PoolSweep ==
  \A t, gs, l : Pool!Sweep(t, gs, l) <=> Sweep(t, gs, l)
<1> TAKE t, gs, l
<1>1. \A q, S : Pool!Among(q, S) = Among(q, S)
  BY DEF Pool!Among, Among, Pool!Cardinality, Cardinality
<1>2. /\ \A S : Pool!Min(S) = Min(S)
      /\ \A c : Pool!Busy(c) <=> Busy(c)
      /\ \A q : Pool!ToSet(q) = ToSet(q)
      /\ \A n : Pool!Group(n) = Group(n)
  BY DEF Pool!Min, Min, Pool!Busy, Busy, Pool!ToSet, ToSet, Pool!Group, Group
<1>3. \A g : Pool!Complete(g) <=> Complete(g)
  BY <1>2 DEF Pool!Complete, Complete
<1> QED BY <1>1, <1>2, <1>3, PoolNames, PoolStatus DEF Pool!Sweep, Sweep

LEMMA PoolWaits ==
  /\ \A c : Pool!Wait(c) <=> Wait(c)
  /\ \A c : Pool!WaitExpire(c) <=> WaitExpire(c)
  /\ \A c : Pool!InterruptClient(c) <=> InterruptClient(c)
<1>1. \A c, p, l : Pool!Report(c, p, l) <=> Report(c, p, l)
  BY PoolNames, PoolStatus DEF Pool!Report, Report, Pool!calls, calls
<1>2. /\ \A c : Pool!WaitExpire(c) <=> WaitExpire(c)
      /\ \A c : Pool!InterruptClient(c) <=> InterruptClient(c)
  BY <1>1, PoolNames, PoolStatus DEF Pool!WaitExpire, WaitExpire, Pool!InterruptClient, InterruptClient, Pool!calls, calls,
    Pool!TIMEDOUT, TIMEDOUT, Pool!Waiting, Waiting
<1>3. \A c : Pool!WaitReturn(c) <=> WaitReturn(c)
  <2>1. \A q, c : Pool!RemoveFirst(q, c) = RemoveFirst(q, c)
    BY DEF Pool!RemoveFirst, RemoveFirst, Pool!RemoveAt, RemoveAt,
           Pool!SelectInSeq, SelectInSeq, Pool!Min, Min
  <2> QED BY <2>1, PoolNames, PoolFind DEF Pool!WaitReturn, WaitReturn, Pool!INVALID, INVALID
<1> QED BY <1>1, <1>2, <1>3, PoolNames, PoolStatus DEF Pool!Wait, Wait, Pool!WaitSkip, WaitSkip, Pool!WaitSleep, WaitSleep,
   Pool!WaitWake, WaitWake, Pool!WaitRelock, WaitRelock, Pool!calls, calls

LEMMA PoolCounts ==
  /\ \A t, l : Pool!Increment(t, l) <=> Increment(t, l)
  /\ \A t, to, l : Pool!Decrement(t, to, l) <=> Decrement(t, to, l)
  /\ \A t, l : Pool!DecrementAgain(t, l) <=> DecrementAgain(t, l)
<1>1. \A i : Pool!NextTask(i) <=> NextTask(i)
  BY DEF Pool!NextTask, NextTask
<1>2. \A n : Pool!Group(n) = Group(n)
  BY DEF Pool!Group, Group
<1>3. \A t, l : Pool!Increment(t, l) <=> Increment(t, l)
  BY <1>1, <1>2, PoolNames DEF Pool!Increment, Increment
<1> QED BY <1>3, PoolNames, PoolSweep, PoolFind DEF Pool!Decrement, Decrement, Pool!DecrementAgain, DecrementAgain, Pool!calls, calls

LEMMA PoolLists ==
  /\ \A q, t : Pool!Unlisted(q, t) = Unlisted(q, t)
  /\ \A q : Pool!InterruptThreads(q) <=> InterruptThreads(q)
<1>1. \A q, S : Pool!Among(q, S) = Among(q, S)
  BY DEF Pool!Among, Among, Pool!Cardinality, Cardinality
<1>2. \A q : Pool!ToSet(q) = ToSet(q)
  BY DEF Pool!ToSet, ToSet
<1> QED
  BY <1>1, <1>2, PoolNames, PoolStatus
  DEF Pool!Unlisted, Unlisted, Pool!InterruptThreads, InterruptThreads

-----------------------------------------------------------------------------
(* PoolExecutor *)

LEMMA InvTypes ==
  ASSUME NEW Labels, WaiterInv(Labels)
  PROVE  /\ pc \in [Threads -> Places(Labels) \cup Waiting]
         /\ pending \in [Threads -> SUBSET Flags]
         /\ stage \in [Tasks -> Stages] /\ job \in [Threads -> Tasks \cup {0}]
         /\ group \in [Tasks -> Nat] /\ since \in [Tasks -> Nat] /\ generation \in Nat
         /\ result \in [Clients -> States]
  BY DEF WaiterInv, WaiterTypeOK, ExecutorTypeOK, Places

LEMMA Kinds ==
  /\ Clients \subseteq Threads /\ Workers \subseteq Threads /\ Workers = Tasks
  /\ Clients \cap Workers = {} /\ Tasks \subseteq Nat /\ 0 \notin Tasks
  BY ExecutorAssumption DEF Threads, Workers, Tasks

LEMMA UnlistedType ==
  ASSUME NEW q \in Seq(Workers), NEW t
  PROVE  Unlisted(q, t) \in Seq(Workers)
<1> DEFINE kept == Among(q, Workers \ {t})
<1>1. kept \in Seq(Workers)
  BY AmongList
<1> HIDE DEF kept
<1>2. SubSeq(q, Len(kept) + 1, Len(q)) \in Seq(Workers)
  BY <1>1
<1> QED
  BY <1>1, <1>2 DEF Unlisted, kept

\* The tasks that threads have in hand are under way, and each has its own.
JobsInv(HasJob) ==
  /\ \A t \in Threads : job[t] # 0 => stage[job[t]] \notin Ended
  /\ \A t, u \in Threads : t # u /\ job[t] # 0 => job[t] # job[u]
  /\ \A t \in Threads : pc[t] \in HasJob => job[t] # 0

PoolLabels == {"e_add", "i_signal", "z_spawn", "born", "draw", "check", "mark", "clear", "run"}
PoolJobs   == {"e_add", "check", "mark", "clear", "run"}

PoolTypes ==
  /\ taskQueue \in Seq(Tasks) /\ canceled \in BOOLEAN /\ threads \in Seq(Workers)
  /\ size \in 1 .. MaxSize /\ left \in [Clients -> 0 .. MaxSize]

\* A queued task is queued once, and nobody has it in hand.
QueueInv ==
  /\ Distinct(taskQueue)
  /\ \A i \in ToSet(taskQueue) : stage[i] \notin Ended /\ \A t \in Threads : job[t] # i

SpawnInv == \A c \in Clients : pc[c] = "z_spawn" => left[c] > 0

\* A thread that is about to interrupt itself has a task from before an interrupt().
SinceInv ==
  /\ \A i \in Tasks : since[i] <= generation
  /\ \A w \in Workers : pc[w] = "mark" => since[job[w]] < generation

PoolInv ==
  /\ WaiterInv(PoolLabels) /\ PoolTypes
  /\ JobsInv(PoolJobs) /\ QueueInv /\ SpawnInv /\ SinceInv
  /\ trouble # "cuts"

\* No thread begins a task in this step.
NoneBegins == \A w \in Workers : pc'[w] = "run" => pc[w] = "run"

LEMMA PoolApart == PoolLabels \cap Waiting = {} /\ PoolJobs \subseteq PoolLabels
  BY DEF PoolLabels, PoolJobs, Waiting

\* A step that moves no task.
LEMMA PoolKept ==
  ASSUME PoolInv, WaiterInv(PoolLabels)', PoolTypes', SpawnInv',
         UNCHANGED <<job, taskQueue, since, trouble>>, generation' >= generation,
         \A i \in Tasks : stage[i] \notin Ended => stage'[i] \notin Ended,
         \A t \in Threads : \/ pc'[t] = pc[t]
                            \/ /\ pc'[t] \in PoolJobs => pc[t] \in PoolJobs
                               /\ pc'[t] = "mark" => since[job[t]] < generation'
  PROVE  PoolInv'
<1>1. JobsInv(PoolJobs)'
  <2>1. \A t \in Threads : job[t] # 0 => stage'[job[t]] \notin Ended
    BY InvTypes DEF PoolInv, JobsInv
  <2>2. \A t \in Threads : pc'[t] \in PoolJobs => job[t] # 0
    BY DEF PoolInv, JobsInv
  <2> QED BY <2>1, <2>2 DEF PoolInv, JobsInv, Threads, Clients, Workers, Tasks, Ended, PoolJobs
<1>2. QueueInv'
  <2>1. \A i \in ToSet(taskQueue) : i \in Tasks
    BY DEF PoolInv, PoolTypes, ToSet
  <2> QED BY <2>1 DEF PoolInv, QueueInv, Distinct, ToSet, Ended, Threads, Clients, Workers, Tasks
<1>3. SinceInv'
  <2>1. /\ generation \in Nat /\ generation' \in Nat /\ \A i \in Tasks : since[i] \in Nat
    BY InvTypes DEF PoolInv, WaiterInv, WaiterTypeOK
  <2>2. \A w \in Workers : w \in Threads /\ (pc[w] = "mark" => job[w] \in Tasks)
    BY InvTypes, Kinds DEF PoolInv, JobsInv, PoolJobs
  <2>3. \A i \in Tasks : since[i] <= generation'
    BY <2>1 DEF PoolInv, SinceInv
  <2>4. ASSUME NEW w \in Workers, pc'[w] = "mark" PROVE since[job[w]] < generation'
    <3>1. CASE pc'[w] = pc[w]
      <4>1. since[job[w]] < generation /\ since[job[w]] \in Nat
        BY <2>1, <2>2, <2>4, <3>1 DEF PoolInv, SinceInv
      <4> QED BY <2>1, <4>1
    <3>2. CASE pc'[w] # pc[w]
      BY <2>2, <2>4, <3>2
    <3> QED BY <3>1, <3>2
  <2> QED BY <2>3, <2>4 DEF SinceInv, Workers, Tasks
<1> QED
  BY <1>1, <1>2, <1>3 DEF PoolInv

\* Nor the groups.
LEMMA PoolOther ==
  ASSUME PoolInv, UNCHANGED <<groups, freshId, group, since, result, calls, trouble>>,
         UNCHANGED <<job, taskQueue>>, generation' \in Nat, generation' >= generation,
         stage' \in [Tasks -> Stages],
         \A i \in Tasks : stage'[i] = stage[i] \/ (stage[i] \notin Ended /\ stage'[i] \notin Ended),
         pc' \in [Threads -> Places(PoolLabels) \cup Waiting],
         pending' \in [Threads -> SUBSET Flags],
         \A c \in Clients : pending'[c] = pending[c],
         \A t \in Threads : \/ pc'[t] = pc[t]
                            \/ /\ pc[t] \notin Waiting /\ pc'[t] \notin Waiting
                               /\ pc'[t] \in PoolJobs => pc[t] \in PoolJobs
                               /\ pc'[t] = "mark" => since[job[t]] < generation',
         PoolTypes', SpawnInv'
  PROVE  PoolInv'
<1>1. since' \in [Tasks -> Nat] /\ job' \in [Threads -> Tasks \cup {0}]
  BY InvTypes DEF PoolInv
<1>2. UNCHANGED <<groups, freshId, group, result, calls, trouble>>
  OBVIOUS
<1>3. \A t \in Threads : pc'[t] = pc[t] \/ (pc[t] \notin Waiting /\ pc'[t] \notin Waiting)
  OBVIOUS
<1>4. WaiterInv(PoolLabels)'
  BY <1>1, <1>2, <1>3, OtherStep DEF PoolInv
<1>5. \A i \in Tasks : stage[i] \notin Ended => stage'[i] \notin Ended
  OBVIOUS
<1>6. UNCHANGED <<job, taskQueue, since, trouble>>
  OBVIOUS
<1>7. \A t \in Threads : \/ pc'[t] = pc[t]
                         \/ /\ pc'[t] \in PoolJobs => pc[t] \in PoolJobs
                            /\ pc'[t] = "mark" => since[job[t]] < generation'
  OBVIOUS
<1> QED
  BY <1>4, <1>5, <1>6, <1>7, PoolKept

\* wait() in a pool.
LEMMA PoolWaitStep ==
  ASSUME PoolInv, NEW c \in Clients, UNCHANGED Pool!poolVars,
         Pool!Wait(c) \/ Pool!WaitCall(c) \/ Pool!WaitExpire(c) \/ Pool!InterruptClient(c)
  PROVE  PoolInv' /\ NoneBegins
<1>1. UNCHANGED <<taskQueue, canceled, threads, size, left>>
  BY DEF Pool!poolVars
<1>2. WaiterInv(PoolLabels) /\ pc \in [Threads -> Places(PoolLabels) \cup Waiting] /\ c \in Threads
  BY InvTypes, Kinds DEF PoolInv
<1>3. /\ WaiterInv(PoolLabels)'
      /\ UNCHANGED <<generation, group, since, stage, job, trouble>>
      /\ \E l \in Waiting \cup {"idle"} : pc' = [pc EXCEPT ![c] = l]
  <2>1. CASE Pool!WaitCall(c)
    <3>1. /\ pc[c] \notin Waiting
          /\ groups' = [groups EXCEPT ![Len(groups)].waiters = Append(@, c)]
          /\ awaited' = [awaited EXCEPT ![c] = groups[Len(groups)].id]
          /\ earlier' = [earlier EXCEPT ![c] =
               IF SIGNALED \in pending[c] THEN 0 ELSE Cardinality({i \in Tasks : stage[i] # "new"})]
          /\ pc' = [pc EXCEPT ![c] = "w_enter"]
          /\ UNCHANGED <<freshId, generation, group, since, stage, job, pending, result, trouble,
                         repeated>>
      BY <2>1, PoolNames
         DEF Pool!WaitCall, Goto, Waiting, Pool!Cardinality, Cardinality, Pool!SIGNALED, SIGNALED
    <3>2. Len(groups) \in Nat
      BY <1>2, GroupTypes
    <3>3. WaiterInv(PoolLabels)'
      BY <1>2, <3>1, <3>2, CallStep
    <3> QED BY <3>1, <3>3 DEF Waiting
  <2>2. CASE WaitReturn(c)
    <3>1. WaiterInv(PoolLabels)'
      BY <1>2, <2>2, ReturnStep
    <3> QED BY <2>2, <3>1 DEF WaitReturn, Goto
  <2>3. CASE \/ WaitSkip(c) \/ WaitSleep(c) \/ WaitWake(c) \/ WaitRelock(c)
             \/ WaitExpire(c) \/ InterruptClient(c)
    <3>1. WaiterInv(PoolLabels)'
      BY <1>2, <2>3, WaitMoves
    <3>2. pc = [pc EXCEPT ![c] = pc[c]]
      BY <1>2
    <3>3. /\ UNCHANGED <<generation, group, since, stage, job, trouble>>
          /\ \E l \in Waiting \cup {"idle"} : pc' = [pc EXCEPT ![c] = l]
      BY <2>3, <3>2 DEF WaitSkip, WaitSleep, WaitWake, WaitRelock, WaitExpire, InterruptClient,
           Report, Goto, Waiting
    <3> QED BY <3>1, <3>3
  <2> QED BY <2>1, <2>2, <2>3, PoolWaits DEF Wait
<1>4. PICK l \in Waiting \cup {"idle"} : pc' = [pc EXCEPT ![c] = l]
  BY <1>3
<1>5. l \notin PoolJobs \cup {"z_spawn", "mark", "run"}
  BY DEF Waiting, PoolJobs
<1>6. \A t \in Threads : pc'[t] = pc[t] \/ pc'[t] = l
  BY <1>2, <1>4
<1>7. PoolTypes' /\ SpawnInv' /\ generation' >= generation
  <2>1. SpawnInv'
    BY <1>1, <1>5, <1>6, Kinds DEF PoolInv, SpawnInv, Clients
  <2>2. generation \in Nat
    BY InvTypes DEF PoolInv
  <2> QED BY <1>1, <1>3, <2>1, <2>2 DEF PoolInv, PoolTypes, Tasks, Workers, Clients
<1>8. UNCHANGED <<job, taskQueue, since, trouble>>
  BY <1>1, <1>3
<1>9. \A i \in Tasks : stage[i] \notin Ended => stage'[i] \notin Ended
  BY <1>3
<1>10. \A t \in Threads : \/ pc'[t] = pc[t]
                          \/ /\ pc'[t] \in PoolJobs => pc[t] \in PoolJobs
                             /\ pc'[t] = "mark" => since[job[t]] < generation'
  BY <1>5, <1>6
<1>11. PoolInv'
  BY <1>3, <1>7, <1>8, <1>9, <1>10, PoolKept
<1> QED
  BY <1>5, <1>6, <1>11, Kinds DEF NoneBegins

\* The steps of a pool that leave the groups and the tasks alone, up to their stages.
LEMMA PoolQuietStep ==
  ASSUME PoolInv,
         \/ \E c \in Clients :
              \/ Pool!InterruptAll(c) \/ Pool!Spawn(c) \/ Pool!InterruptBegin(c) \/ Pool!Cancel(c)
              \/ \E n \in 1 .. MaxSize : Pool!Resize(c, n)
         \/ \E w \in Workers :
              \/ Pool!Register(w) \/ Pool!Leave(w) \/ Pool!DrawCanceled(w)
              \/ Pool!DrawInterrupted(w) \/ Pool!Check(w)
  PROVE  PoolInv' /\ NoneBegins
<1>1. /\ pc \in [Threads -> Places(PoolLabels) \cup Waiting]
      /\ pending \in [Threads -> SUBSET Flags]
      /\ stage \in [Tasks -> Stages] /\ job \in [Threads -> Tasks \cup {0}]
      /\ group \in [Tasks -> Nat] /\ since \in [Tasks -> Nat] /\ generation \in Nat
  BY InvTypes DEF PoolInv
<1>2. PoolTypes /\ SpawnInv /\ PoolTypes /\ MaxSize \in 1 .. MaxTasks
  BY PoolAssumption DEF PoolInv
<1>3. /\ {"idle", "draw", "ended", "clear", "mark", "z_spawn", "i_signal", "born"} \subseteq Places(PoolLabels)
      /\ {"idle", "draw", "ended", "clear", "mark", "z_spawn", "i_signal", "born", "check", "unborn"} \cap Waiting = {}
      /\ {"idle", "draw", "ended", "z_spawn", "i_signal", "born"} \cap PoolJobs = {} /\ "check" \in PoolJobs
  BY DEF Places, PoolLabels, Waiting, PoolJobs
<1>4. ASSUME NEW c \in Clients, Pool!InterruptAll(c)
      PROVE  PoolInv' /\ NoneBegins
  <2>1. /\ pc[c] = "i_signal" /\ InterruptThreads(threads) /\ pc' = [pc EXCEPT ![c] = "idle"]
        /\ UNCHANGED <<groups, freshId, generation, group, since, stage, job, result,
                       calls, trouble, taskQueue, canceled, threads, size, left>>
    BY <1>4, PoolLists, PoolNames DEF Pool!InterruptAll, Goto, Pool!calls, calls, Pool!poolVars
  <2>2. /\ pending' \in [Threads -> SUBSET Flags]
        /\ \A d \in Clients : pending'[d] = pending[d]
    <3>1. \A t \in Threads : AfterInterrupt(pending[t], ANYTHING) \in SUBSET Flags
      BY <1>1, StatusTypes
    <3>2. \A d \in Clients : d \notin ToSet(threads) /\ d \in Threads
      BY <1>2, Kinds DEF PoolTypes, ToSet
    <3> QED BY <1>1, <2>1, <3>1, <3>2 DEF InterruptThreads
  <2>3. PoolTypes' /\ SpawnInv'
    BY <1>1, <1>2, <2>1, Kinds DEF PoolTypes, SpawnInv, Tasks, Workers, Clients
  <2>4. PoolInv'
    <3>1. /\ pc' \in [Threads -> Places(PoolLabels) \cup Waiting]
          /\ \A t \in Threads : pc'[t] = pc[t] \/ (t = c /\ pc'[t] = "idle" /\ pc[t] = "i_signal")
      BY <1>1, <1>3, <2>1, Kinds
    <3> QED BY <1>1, <1>3, <2>1, <2>2, <2>3, <3>1, PoolOther
  <2> QED BY <1>1, <2>1, <2>4, Kinds DEF NoneBegins
<1>5. ASSUME NEW c \in Clients, Pool!Spawn(c)
      PROVE  PoolInv' /\ NoneBegins
  <2> DEFINE w == Min(Pool!Unborn)
  <2>1. /\ pc[c] = "z_spawn" /\ Pool!Unborn # {}
        /\ left' = [left EXCEPT ![c] = @ - 1]
        /\ pc' = [pc EXCEPT ![c] = IF left[c] = 1 THEN "idle" ELSE @, ![w] = "born"]
        /\ UNCHANGED <<groups, freshId, generation, group, since, stage, job, pending,
                       result, calls, trouble, taskQueue, canceled, threads, size>>
    BY <1>5 DEF Pool!Spawn, Pool!calls, calls, Pool!Min, Min
  <2>2. w \in Workers /\ w \in Threads /\ pc[w] = "unborn"
    <3>1. Pool!Unborn \in SUBSET Nat
      BY <1>2 DEF Pool!Unborn
    <3>2. w \in Pool!Unborn
      BY <2>1, <3>1, MinLeast
    <3>3. 1 .. MaxSize \subseteq Tasks
      BY <1>2, ExecutorAssumption DEF Tasks
    <3> HIDE DEF w
    <3> QED BY <3>2, <3>3, Kinds DEF Pool!Unborn
  <2> HIDE DEF w
  <2>3. left[c] \in 1 .. MaxSize /\ c # w /\ c \in Threads
    BY <1>2, <2>1, <2>2, Kinds DEF SpawnInv, PoolTypes
  <2>4. /\ left' \in [Clients -> 0 .. MaxSize]
        /\ \A d \in Clients : left'[d] = IF d = c THEN left[c] - 1 ELSE left[d]
    BY <1>2, <2>1, <2>3 DEF PoolTypes
  <2>5. \A t \in Threads :
          pc'[t] = IF t = w THEN "born"
                   ELSE IF t = c THEN IF left[c] = 1 THEN "idle" ELSE "z_spawn" ELSE pc[t]
    BY <1>1, <2>1, <2>2, <2>3
  <2>6. PoolTypes' /\ SpawnInv'
    <3>1. ASSUME NEW d \in Clients, pc'[d] = "z_spawn" PROVE left'[d] > 0
      <4>1. d \in Threads /\ d # w
        BY <2>2, Kinds
      <4>2. CASE d = c
        BY <2>3, <2>4, <2>5, <3>1, <4>1, <4>2
      <4>3. CASE d # c
        BY <1>2, <2>4, <2>5, <3>1, <4>1, <4>3 DEF SpawnInv
      <4> QED BY <4>2, <4>3
    <3>2. SpawnInv'
      BY <3>1 DEF SpawnInv, Clients
    <3> QED BY <1>2, <2>1, <2>4, <3>2 DEF PoolTypes, Tasks, Workers, Clients
  <2>7. pc' \in [Threads -> Places(PoolLabels) \cup Waiting]
    BY <1>1, <1>3, <2>1, <2>2, <2>3
  <2>8. \A t \in Threads : \/ pc'[t] = pc[t]
                           \/ /\ pc[t] \notin Waiting /\ pc'[t] \notin Waiting
                              /\ pc'[t] \notin PoolJobs /\ pc'[t] # "mark"
    <3> TAKE t \in Threads
    <3>1. CASE t = w
      BY <1>3, <2>2, <2>5, <3>1
    <3>2. CASE t = c /\ t # w
      <4>1. pc[t] = "z_spawn" /\ pc'[t] \in {"idle", "z_spawn"}
        BY <2>1, <2>5, <3>2
      <4>2. {"idle", "z_spawn"} \cap PoolJobs = {} /\ {"idle", "z_spawn"} \cap Waiting = {}
        BY DEF PoolJobs, Waiting
      <4> QED BY <4>1, <4>2
    <3>3. CASE t # c /\ t # w
      BY <2>5, <3>3
    <3> QED BY <3>1, <3>2, <3>3
  <2>9. PoolInv'
    BY <1>1, <2>1, <2>6, <2>7, <2>8, PoolOther
  <2> QED BY <2>5, <2>9, Kinds DEF NoneBegins
<1>6. ASSUME NEW c \in Clients, Pool!InterruptBegin(c)
      PROVE  PoolInv' /\ NoneBegins
  <2>1. /\ pc[c] = "idle" /\ pc' = [pc EXCEPT ![c] = "i_signal"] /\ generation' = generation + 1
        /\ UNCHANGED <<groups, freshId, group, since, stage, job, pending, result,
                       calls, trouble, taskQueue, canceled, threads, size, left>>
    BY <1>6, PoolNames DEF Pool!InterruptBegin, Goto, NextGeneration, Pool!poolVars
  <2>2. PoolTypes' /\ SpawnInv'
    BY <1>1, <1>2, <2>1, Kinds DEF PoolTypes, SpawnInv, Tasks, Workers, Clients
  <2>3. PoolInv'
    BY <1>1, <1>3, <2>1, <2>2, Kinds, PoolOther
  <2> QED BY <1>1, <2>1, <2>3, Kinds DEF NoneBegins
<1>7. ASSUME NEW c \in Clients, Pool!Cancel(c)
      PROVE  PoolInv' /\ NoneBegins
  <2>1. /\ canceled' = TRUE
        /\ UNCHANGED <<groups, freshId, generation, group, since, result, calls, stage, job,
                       pending, pc, trouble, taskQueue, threads, size, left>>
    BY <1>7 DEF Pool!Cancel, Pool!waiterVars, Pool!executorVars, Pool!calls, calls
  <2>2. PoolTypes' /\ SpawnInv'
    BY <1>2, <2>1 DEF PoolTypes, SpawnInv, Tasks, Workers, Clients
  <2>3. PoolInv'
    BY <1>1, <2>1, <2>2, PoolOther
  <2> QED BY <2>1, <2>3 DEF NoneBegins
<1>8. ASSUME NEW c \in Clients, NEW n \in 1 .. MaxSize, Pool!Resize(c, n)
      PROVE  PoolInv' /\ NoneBegins
  <2> DEFINE l == IF size < n THEN "z_spawn" ELSE "idle"
  <2>1. /\ pc[c] = "idle" /\ size' = n
        /\ left' = [left EXCEPT ![c] = IF size < n THEN n - size ELSE 0]
        /\ pc' = [pc EXCEPT ![c] = l]
        /\ UNCHANGED <<groups, freshId, generation, group, since, stage, job, pending,
                       result, calls, trouble, taskQueue, canceled, threads>>
    BY <1>8, PoolNames DEF Pool!Resize, Goto, Pool!calls, calls
  <2>2. size \in 1 .. MaxSize /\ (size < n => n - size \in 1 .. MaxSize) /\ 0 \in 0 .. MaxSize
    BY <1>2 DEF PoolTypes
  <2>3. left' \in [Clients -> 0 .. MaxSize]
    BY <1>2, <2>1, <2>2 DEF PoolTypes
  <2>4. PoolTypes' /\ SpawnInv'
    <3>1. SpawnInv'
      BY <1>1, <1>2, <2>1, <2>2, Kinds DEF PoolTypes, SpawnInv, Clients
    <3> QED BY <1>2, <2>1, <2>3, <3>1 DEF PoolTypes, Tasks, Workers, Clients
  <2>5. PoolInv'
    BY <1>1, <1>3, <2>1, <2>4, Kinds, PoolOther
  <2> QED BY <1>1, <2>1, <2>5, Kinds DEF NoneBegins
<1>9. ASSUME NEW w \in Workers, Pool!Register(w)
      PROVE  PoolInv' /\ NoneBegins
  <2>1. /\ pc[w] = "born" /\ threads' = Append(threads, w)
        /\ pending' = [pending EXCEPT ![w] = IF Pool!TooMany THEN AfterCancel(@, ANYTHING) ELSE @]
        /\ pc' = [pc EXCEPT ![w] = "draw"]
        /\ UNCHANGED <<groups, freshId, generation, group, since, stage, job, result,
                       calls, trouble, taskQueue, canceled, size, left>>
    BY <1>9, PoolNames, PoolStatus DEF Pool!Register, Goto, Pool!calls, calls
  <2>2. /\ pending' \in [Threads -> SUBSET Flags]
        /\ \A d \in Clients : pending'[d] = pending[d]
    <3>1. AfterCancel(pending[w], ANYTHING) \in SUBSET Flags
      BY <1>1, Kinds, StatusTypes
    <3> QED BY <1>1, <2>1, <3>1, Kinds
  <2>3. PoolTypes' /\ SpawnInv'
    BY <1>1, <1>2, <2>1, Kinds DEF PoolTypes, SpawnInv, Tasks, Workers, Clients
  <2>4. PoolInv'
    BY <1>1, <1>3, <2>1, <2>2, <2>3, Kinds, PoolOther
  <2> QED BY <1>1, <2>1, <2>4, Kinds DEF NoneBegins
<1>10. ASSUME NEW w \in Workers, Pool!Leave(w)
       PROVE  PoolInv' /\ NoneBegins
  <2>1. /\ pc[w] = "draw" /\ threads' = Unlisted(threads, w) /\ pc' = [pc EXCEPT ![w] = "ended"]
        /\ UNCHANGED <<groups, freshId, generation, group, since, stage, job, pending, result,
                       calls, trouble, taskQueue, canceled, size, left>>
    BY <1>10, PoolNames, PoolLists DEF Pool!Leave, Goto, Pool!calls, calls
  <2>2. threads' \in Seq(Workers)
    BY <1>2, <2>1, UnlistedType DEF PoolTypes
  <2>3. PoolTypes' /\ SpawnInv'
    BY <1>1, <1>2, <2>1, <2>2, Kinds DEF PoolTypes, SpawnInv, Tasks, Workers, Clients
  <2>4. PoolInv'
    BY <1>1, <1>3, <2>1, <2>3, Kinds, PoolOther
  <2> QED BY <1>1, <2>1, <2>4, Kinds DEF NoneBegins
<1>11. ASSUME NEW w \in Workers, Pool!DrawCanceled(w) \/ Pool!DrawInterrupted(w)
       PROVE  PoolInv' /\ NoneBegins
  <2>1. /\ pc[w] = "draw" /\ pc' \in {pc, [pc EXCEPT ![w] = "ended"]}
        /\ pending' \in {pending, [pending EXCEPT ![w] = @ \ {INTERRUPTED}]}
        /\ UNCHANGED <<groups, freshId, generation, group, since, stage, job, result,
                       calls, trouble, taskQueue, canceled, threads, size, left>>
    BY <1>11, PoolNames DEF Pool!DrawCanceled, Pool!DrawInterrupted, Goto, Pool!calls, calls,
         Pool!poolVars, Pool!INTERRUPTED, INTERRUPTED
  <2>2. /\ pending' \in [Threads -> SUBSET Flags]
        /\ \A d \in Clients : pending'[d] = pending[d]
    BY <1>1, <2>1, Kinds
  <2>3. PoolTypes' /\ SpawnInv'
    BY <1>1, <1>2, <2>1, Kinds DEF PoolTypes, SpawnInv, Tasks, Workers, Clients
  <2>4. PoolInv'
    BY <1>1, <1>3, <2>1, <2>2, <2>3, Kinds, PoolOther
  <2> QED BY <1>1, <2>1, <2>4, Kinds DEF NoneBegins
<1>12. ASSUME NEW w \in Workers, Pool!Check(w)
       PROVE  PoolInv' /\ NoneBegins
  <2> DEFINE l == IF since[job[w]] = generation THEN "clear" ELSE "mark"
  <2>1. /\ pc[w] = "check" /\ pc' = [pc EXCEPT ![w] = l]
        /\ UNCHANGED <<groups, freshId, generation, group, since, stage, job, pending, result,
                       calls, trouble, taskQueue, canceled, threads, size, left>>
    BY <1>12, PoolNames DEF Pool!Check, Goto, Pool!calls, calls, Pool!poolVars
  <2>2. l = "mark" => since[job[w]] < generation
    <3>1. job[w] \in Tasks
      BY <1>1, <1>3, <2>1, Kinds DEF PoolInv, JobsInv
    <3>2. since[job[w]] <= generation /\ since[job[w]] \in Nat
      BY <1>1, <3>1 DEF PoolInv, SinceInv
    <3> QED BY <1>1, <3>2
  <2>3. PoolTypes' /\ SpawnInv'
    BY <1>1, <1>2, <2>1, Kinds DEF PoolTypes, SpawnInv, Tasks, Workers, Clients
  <2>4. l \in {"clear", "mark"}
    OBVIOUS
  <2> HIDE DEF l
  <2>5. PoolInv'
    BY <1>1, <1>3, <2>1, <2>2, <2>3, <2>4, Kinds, PoolOther
  <2> QED BY <1>1, <2>1, <2>4, <2>5, Kinds DEF NoneBegins
<1> QED
  BY <1>4, <1>5, <1>6, <1>7, <1>8, <1>9, <1>10, <1>11, <1>12

\* A thread gets a task that nobody has,
LEMMA JobsOn ==
  ASSUME NEW H, JobsInv(H), stage \in [Tasks -> Stages], job \in [Threads -> Tasks \cup {0}],
         pc \in [Threads -> {pc[u] : u \in Threads}],
         NEW t \in Threads, NEW i \in Tasks, \A u \in Threads : job[u] # i,
         NEW s \in Stages \ Ended, NEW l,
         stage' = [stage EXCEPT ![i] = s], job' = [job EXCEPT ![t] = i], pc' = [pc EXCEPT ![t] = l]
  PROVE  JobsInv(H)'
<1>1. \A u \in Threads : /\ job'[u] = IF u = t THEN i ELSE job[u]
                         /\ u # t => pc'[u] = pc[u]
  OBVIOUS
<1>2. \A k \in Tasks : stage'[k] = IF k = i THEN s ELSE stage[k]
  OBVIOUS
<1>3. i # 0
  BY Kinds
<1>4. \A u \in Threads : job'[u] # 0 => stage'[job'[u]] \notin Ended
  BY <1>1, <1>2 DEF JobsInv
<1>5. \A u, v \in Threads : u # v /\ job'[u] # 0 => job'[u] # job'[v]
  BY <1>1, <1>3 DEF JobsInv
<1>6. \A u \in Threads : pc'[u] \in H => job'[u] # 0
  BY <1>1, <1>3 DEF JobsInv
<1> QED
  BY <1>4, <1>5, <1>6 DEF JobsInv, Threads, Clients, Workers, Tasks, Ended

\* and has none any more.
LEMMA JobsOff ==
  ASSUME NEW H, JobsInv(H), stage \in [Tasks -> Stages], job \in [Threads -> Tasks \cup {0}],
         pc \in [Threads -> {pc[u] : u \in Threads}],
         NEW t \in Threads, job[t] # 0, NEW s, NEW l, l \notin H,
         stage' = [stage EXCEPT ![job[t]] = s], job' = [job EXCEPT ![t] = 0],
         pc' = [pc EXCEPT ![t] = l]
  PROVE  JobsInv(H)' /\ \A u \in Threads : u # t => job[u] # job[t]
<1>1. \A u \in Threads : /\ job'[u] = IF u = t THEN 0 ELSE job[u]
                         /\ pc'[u] = IF u = t THEN l ELSE pc[u]
  OBVIOUS
<1>2. \A k \in Tasks : k # job[t] => stage'[k] = stage[k]
  OBVIOUS
<1>3. \A u \in Threads : u # t => job[u] # job[t]
  BY DEF JobsInv
<1>4. \A u \in Threads : job'[u] # 0 => stage'[job'[u]] \notin Ended
  BY <1>1, <1>2, <1>3 DEF JobsInv
<1>5. \A u, v \in Threads : u # v /\ job'[u] # 0 => job'[u] # job'[v]
  BY <1>1 DEF JobsInv
<1>6. \A u \in Threads : pc'[u] \in H => job'[u] # 0
  BY <1>1 DEF JobsInv
<1> QED
  BY <1>3, <1>4, <1>5, <1>6 DEF JobsInv, Threads, Clients, Workers, Tasks, Ended

LEMMA PcType ==
  ASSUME NEW Labels, WaiterInv(Labels)
  PROVE  pc \in [Threads -> {pc[u] : u \in Threads}]
  BY InvTypes

\* execute(): the task is counted,
LEMMA PoolCountStep ==
  ASSUME PoolInv, NEW c \in Clients, Pool!ExecuteCount(c)
  PROVE  PoolInv' /\ NoneBegins
<1>1. pc[c] = "idle" /\ Increment(c, "e_add") /\ UNCHANGED <<taskQueue, canceled, threads, size, left>>
  BY PoolCounts DEF Pool!ExecuteCount, Pool!poolVars
<1>2. /\ WaiterInv(PoolLabels) /\ c \in Threads /\ "e_add" \in Places(PoolLabels)
      /\ "e_add" \notin Waiting /\ pc[c] \notin Waiting
  BY <1>1, Kinds DEF PoolInv, Places, PoolLabels, Waiting
<1>3. WaiterInv(PoolLabels)'
  BY <1>1, <1>2, IncrementStep
<1>4. /\ stage \in [Tasks -> Stages] /\ job \in [Threads -> Tasks \cup {0}]
      /\ pc \in [Threads -> {pc[u] : u \in Threads}]
      /\ since \in [Tasks -> Nat] /\ generation \in Nat
  BY <1>2, InvTypes, PcType
<1>5. PICK i \in Tasks :
        /\ stage[i] = "new"
        /\ stage' = [stage EXCEPT ![i] = "counted"] /\ job' = [job EXCEPT ![c] = i]
        /\ since' = [since EXCEPT ![i] = generation] /\ pc' = [pc EXCEPT ![c] = "e_add"]
        /\ UNCHANGED <<generation, trouble>>
  BY <1>1, Zenon DEF Increment, Goto, NextTask
<1>6. \A u \in Threads : job[u] # i
  BY <1>5, Kinds DEF PoolInv, JobsInv, Ended
<1>7. JobsInv(PoolJobs)'
  <2>1. "counted" \in Stages \ Ended
    BY DEF Stages, Ended
  <2> QED BY <1>2, <1>4, <1>5, <1>6, <2>1, JobsOn DEF PoolInv
<1>8. QueueInv'
  <2>1. \A k \in ToSet(taskQueue) : k \in Tasks /\ k # i
    BY <1>5 DEF PoolInv, PoolTypes, QueueInv, ToSet, Ended
  <2>2. \A k \in ToSet(taskQueue) : stage'[k] \notin Ended /\ \A u \in Threads : job'[u] # k
    BY <1>4, <1>5, <2>1 DEF PoolInv, QueueInv
  <2> QED BY <1>1, <2>2 DEF PoolInv, QueueInv, Distinct, ToSet, Ended, Threads, Clients, Workers, Tasks
<1>9. PoolTypes' /\ SpawnInv' /\ SinceInv' /\ NoneBegins
  <2>1. \A u \in Threads : pc'[u] = pc[u] \/ pc'[u] = "e_add"
    BY <1>4, <1>5
  <2>2. PoolTypes' /\ SpawnInv'
    BY <1>1, <2>1, Kinds DEF PoolInv, PoolTypes, SpawnInv, Clients, Tasks, Workers
  <2>3. \A w \in Workers : pc[w] = "mark" => job[w] \in Tasks /\ job[w] # i
    BY <1>4, <1>6, Kinds DEF PoolInv, JobsInv, PoolJobs
  <2>4. \A k \in Tasks : since'[k] = IF k = i THEN generation ELSE since[k]
    BY <1>4, <1>5
  <2>5. \A w \in Workers : pc'[w] = "mark" => since'[job'[w]] < generation
    <3> SUFFICES ASSUME NEW w \in Workers, pc'[w] = "mark" PROVE since'[job'[w]] < generation
      OBVIOUS
    <3>1. pc[w] = "mark" /\ w # c
      BY <2>1, Kinds
    <3>2. job'[w] = job[w]
      BY <1>4, <1>5, <3>1, Kinds
    <3> QED BY <2>3, <2>4, <3>1, <3>2 DEF PoolInv, SinceInv
  <2>6. \A k \in Tasks : since'[k] <= generation
    BY <1>4, <2>4 DEF PoolInv, SinceInv
  <2>7. SinceInv'
    BY <1>5, <2>5, <2>6 DEF SinceInv, Workers, Tasks
  <2> QED BY <2>1, <2>2, <2>7, Kinds DEF NoneBegins
<1> QED
  BY <1>3, <1>5, <1>7, <1>8, <1>9 DEF PoolInv

\* and added to the queue.
LEMMA PoolAddStep ==
  ASSUME PoolInv, NEW c \in Clients, Pool!ExecuteAdd(c)
  PROVE  PoolInv' /\ NoneBegins
<1> DEFINE i == job[c]
<1>1. /\ pc[c] = "e_add" /\ taskQueue' = Append(taskQueue, i)
      /\ stage' = [stage EXCEPT ![i] = "queued"] /\ job' = [job EXCEPT ![c] = 0]
      /\ pc' = [pc EXCEPT ![c] = "idle"]
      /\ UNCHANGED <<groups, freshId, generation, group, since, pending, result,
                     calls, trouble, canceled, threads, size, left>>
  BY PoolNames DEF Pool!ExecuteAdd, Goto, Pool!calls, calls
<1>2. /\ stage \in [Tasks -> Stages] /\ job \in [Threads -> Tasks \cup {0}]
      /\ pc \in [Threads -> {pc[u] : u \in Threads}]
      /\ pc \in [Threads -> Places(PoolLabels) \cup Waiting]
      /\ pending \in [Threads -> SUBSET Flags]
      /\ group \in [Tasks -> Nat] /\ since \in [Tasks -> Nat] /\ generation \in Nat
      /\ WaiterInv(PoolLabels)
  BY InvTypes, PcType DEF PoolInv
<1>3. c \in Threads /\ i \in Tasks /\ i # 0 /\ stage[i] \notin Ended
  BY <1>1, <1>2, Kinds DEF PoolInv, JobsInv, PoolJobs
<1>4. /\ "queued" \in Stages \ Ended /\ "idle" \in Places(PoolLabels)
      /\ "idle" \notin Waiting \cup PoolJobs /\ "e_add" \notin Waiting
  BY DEF Stages, Ended, Places, Waiting, PoolJobs
<1> HIDE DEF i
<1>5. \A k \in Tasks : stage'[k] = IF k = i THEN "queued" ELSE stage[k]
  BY <1>1, <1>2, <1>3
<1>6. WaiterInv(PoolLabels)'
  <2>1. \A u \in Threads : pc'[u] = pc[u] \/ (pc[u] \notin Waiting /\ pc'[u] \notin Waiting)
    BY <1>1, <1>2, <1>4
  <2>2. \A k \in Tasks : stage'[k] = stage[k] \/ (stage[k] \notin Ended /\ stage'[k] \notin Ended)
    BY <1>3, <1>4, <1>5
  <2>3. /\ stage' \in [Tasks -> Stages] /\ job' \in [Threads -> Tasks \cup {0}]
        /\ pc' \in [Threads -> Places(PoolLabels) \cup Waiting]
        /\ pending' \in [Threads -> SUBSET Flags]
        /\ since' \in [Tasks -> Nat] /\ generation' \in Nat
    BY <1>1, <1>2, <1>3, <1>4
  <2>4. UNCHANGED <<groups, freshId, group, result, calls, trouble>> /\ \A d \in Clients : pending'[d] = pending[d]
    BY <1>1
  <2> QED BY <1>2, <2>1, <2>2, <2>3, <2>4, OtherStep
<1>7. JobsInv(PoolJobs)' /\ \A u \in Threads : u # c => job[u] # i
  BY <1>1, <1>2, <1>3, <1>4, JobsOff DEF PoolInv, i
<1>8. taskQueue \in Seq(Tasks) /\ i \notin ToSet(taskQueue) /\ \A k \in ToSet(taskQueue) : k \in Tasks
  BY <1>3 DEF PoolInv, PoolTypes, QueueInv, ToSet, i
<1>9. QueueInv'
  <2>1. ToSet(taskQueue') = ToSet(taskQueue) \cup {i} /\ Distinct(taskQueue')
    <3>1. /\ ToSet(Append(taskQueue, i)) = ToSet(taskQueue) \cup {i}
          /\ Distinct(taskQueue) /\ i \notin ToSet(taskQueue) => Distinct(Append(taskQueue, i))
      BY <1>3, <1>8, AppendList
    <3>2. taskQueue' = Append(taskQueue, i)
      BY <1>1 DEF i
    <3> QED BY <1>8, <3>1, <3>2 DEF PoolInv, QueueInv
  <2>2. \A u \in Threads : job'[u] = IF u = c THEN 0 ELSE job[u]
    BY <1>1, <1>2
  <2>3. \A k \in ToSet(taskQueue) \cup {i} : stage'[k] \notin Ended /\ \A u \in Threads : job'[u] # k
    <3>1. ASSUME NEW k \in ToSet(taskQueue)
          PROVE  stage'[k] \notin Ended /\ \A u \in Threads : job'[u] # k
      <4>1. k \in Tasks /\ k # i /\ k # 0
        BY <1>8, Kinds
      <4> QED BY <1>5, <2>2, <4>1 DEF PoolInv, QueueInv
    <3>2. stage'[i] \notin Ended /\ \A u \in Threads : job'[u] # i
      BY <1>3, <1>4, <1>5, <1>7, <2>2
    <3> QED BY <3>1, <3>2
  <2> QED BY <2>1, <2>3 DEF QueueInv, Ended, Threads, Clients, Workers, Tasks
<1>10. PoolTypes' /\ SpawnInv' /\ SinceInv' /\ NoneBegins
  <2>1. \A u \in Threads : pc'[u] = pc[u] \/ pc'[u] = "idle"
    BY <1>1, <1>2
  <2>2. taskQueue' \in Seq(Tasks)
    BY <1>1, <1>3, <1>8 DEF i
  <2>3. PoolTypes' /\ SpawnInv'
    BY <1>1, <2>1, <2>2, Kinds DEF PoolInv, PoolTypes, SpawnInv, Clients, Tasks, Workers
  <2>4. \A w \in Workers : job'[w] = job[w]
    BY <1>1, <1>2, Kinds
  <2>5. SinceInv'
    BY <1>1, <2>1, <2>4, Kinds DEF PoolInv, SinceInv, Workers, Tasks
  <2> QED BY <2>1, <2>3, <2>5, Kinds DEF NoneBegins
<1> QED
  BY <1>1, <1>6, <1>7, <1>9, <1>10 DEF PoolInv

\* A task is counted off, when it has been rejected or has ended.
LEMMA PoolOffStep ==
  ASSUME PoolInv, NEW t \in Threads, pc[t] \in {"e_add", "run"}, NEW to \in {"done", "rejected"},
         NEW label \in {"idle", "draw"}, Decrement(t, to, label), UNCHANGED Pool!poolVars
  PROVE  PoolInv' /\ NoneBegins
<1> DEFINE i == job[t]
<1>1. UNCHANGED <<taskQueue, canceled, threads, size, left>>
  BY DEF Pool!poolVars
<1>2. /\ stage' = [stage EXCEPT ![i] = to] /\ since' = [since EXCEPT ![i] = 0]
      /\ job' = [job EXCEPT ![t] = 0] /\ UNCHANGED <<generation, trouble>>
  BY DEF Decrement
<1>3. /\ stage \in [Tasks -> Stages] /\ job \in [Threads -> Tasks \cup {0}]
      /\ pc \in [Threads -> {pc[u] : u \in Threads}]
      /\ since \in [Tasks -> Nat] /\ generation \in Nat /\ WaiterInv(PoolLabels)
  BY InvTypes, PcType DEF PoolInv
<1>4. i \in Tasks /\ i # 0 /\ stage[i] \notin Ended /\ pc[t] \notin Waiting
  BY <1>3 DEF PoolInv, JobsInv, PoolJobs, Waiting
<1>5. label \in Places(PoolLabels) /\ label \notin Waiting
  BY DEF Places, PoolLabels, Waiting
<1>6. WaiterInv(PoolLabels)' /\ \E l \in {label, "d_yield"} : pc' = [pc EXCEPT ![t] = l]
  BY <1>3, <1>4, <1>5, DecrementStep
<1>7. PICK l \in {label, "d_yield"} : pc' = [pc EXCEPT ![t] = l]
  BY <1>6
<1>8. l \notin PoolJobs \cup {"run", "mark", "z_spawn"}
  BY DEF PoolJobs
<1> HIDE DEF i
<1>9. JobsInv(PoolJobs)' /\ \A u \in Threads : u # t => job[u] # i
  BY <1>2, <1>3, <1>4, <1>7, <1>8, JobsOff DEF PoolInv, i
<1>10. QueueInv'
  <2>1. \A k \in ToSet(taskQueue) : k \in Tasks /\ k # i
    <3>1. \A k \in ToSet(taskQueue) : k \in Tasks
      BY DEF PoolInv, PoolTypes, ToSet
    <3>2. \A k \in ToSet(taskQueue) : job[t] # k
      BY DEF PoolInv, QueueInv
    <3> QED BY <3>1, <3>2 DEF i
  <2>2. \A u \in Threads : job'[u] = IF u = t THEN 0 ELSE job[u]
    BY <1>2, <1>3
  <2>3. \A k \in ToSet(taskQueue) : stage'[k] \notin Ended /\ \A u \in Threads : job'[u] # k
    BY <1>2, <1>3, <2>1, <2>2, Kinds DEF PoolInv, QueueInv
  <2> QED BY <1>1, <2>3 DEF PoolInv, QueueInv, Distinct, ToSet, Ended, Threads, Clients, Workers, Tasks
<1>11. PoolTypes' /\ SpawnInv' /\ SinceInv' /\ NoneBegins
  <2>1. \A u \in Threads : pc'[u] = IF u = t THEN l ELSE pc[u]
    BY <1>3, <1>7
  <2>2. PoolTypes' /\ SpawnInv'
    BY <1>1, <1>8, <2>1, Kinds DEF PoolInv, PoolTypes, SpawnInv, Clients, Tasks, Workers
  <2>3. \A k \in Tasks : since'[k] = IF k = i THEN 0 ELSE since[k]
    BY <1>2, <1>3
  <2>4. \A w \in Workers : pc'[w] = "mark" => since'[job'[w]] < generation
    <3> SUFFICES ASSUME NEW w \in Workers, pc'[w] = "mark" PROVE since'[job'[w]] < generation
      OBVIOUS
    <3>1. pc[w] = "mark" /\ w # t /\ w \in Threads
      BY <1>8, <2>1, Kinds
    <3>2. job'[w] = job[w] /\ job[w] \in Tasks /\ job[w] # i
      BY <1>2, <1>3, <1>9, <3>1 DEF PoolInv, JobsInv, PoolJobs
    <3> QED BY <2>3, <3>1, <3>2 DEF PoolInv, SinceInv
  <2>5. \A k \in Tasks : since'[k] <= generation
    BY <1>3, <2>3 DEF PoolInv, SinceInv
  <2>6. SinceInv'
    BY <1>2, <2>4, <2>5 DEF SinceInv, Workers, Tasks
  <2> QED BY <1>8, <2>1, <2>2, <2>6, Kinds DEF NoneBegins
<1> QED
  BY <1>2, <1>6, <1>9, <1>10, <1>11 DEF PoolInv

\* What is left of that goes on.
LEMMA PoolAgainStep ==
  ASSUME PoolInv, NEW t \in Threads, NEW label \in {"idle", "draw"}, Pool!Yielded(t, label)
  PROVE  PoolInv' /\ NoneBegins
<1>1. DecrementAgain(t, label) /\ UNCHANGED <<taskQueue, canceled, threads, size, left>>
  BY PoolCounts DEF Pool!Yielded, Pool!poolVars
<1>2. UNCHANGED <<generation, since, stage, job, trouble>>
  BY <1>1 DEF DecrementAgain
<1>3. /\ pc \in [Threads -> {pc[u] : u \in Threads}] /\ generation \in Nat /\ WaiterInv(PoolLabels)
  BY InvTypes, PcType DEF PoolInv
<1>4. label \in Places(PoolLabels) /\ label \notin Waiting
  BY DEF Places, PoolLabels, Waiting
<1>5. WaiterInv(PoolLabels)' /\ \E l \in {label, "d_yield"} : pc' = [pc EXCEPT ![t] = l]
  BY <1>1, <1>3, <1>4, AgainStep
<1>6. PICK l \in {label, "d_yield"} : pc' = [pc EXCEPT ![t] = l]
  BY <1>5
<1>7. l \notin PoolJobs \cup {"run", "mark", "z_spawn"}
  BY DEF PoolJobs
<1>8. \A u \in Threads : pc'[u] = IF u = t THEN l ELSE pc[u]
  BY <1>3, <1>6
<1>9. PoolTypes' /\ SpawnInv'
  BY <1>1, <1>7, <1>8, Kinds DEF PoolInv, PoolTypes, SpawnInv, Clients, Tasks, Workers
<1>10. PoolInv'
  <2>1. UNCHANGED <<job, taskQueue, since, trouble>> /\ generation' >= generation
    BY <1>1, <1>2, <1>3
  <2>2. \A i \in Tasks : stage[i] \notin Ended => stage'[i] \notin Ended
    BY <1>2
  <2>3. \A u \in Threads : \/ pc'[u] = pc[u]
                           \/ /\ pc'[u] \in PoolJobs => pc[u] \in PoolJobs
                              /\ pc'[u] = "mark" => since[job[u]] < generation'
    BY <1>7, <1>8
  <2> QED BY <1>5, <1>9, <2>1, <2>2, <2>3, PoolKept
<1> QED
  BY <1>7, <1>8, <1>10, Kinds DEF NoneBegins

LEMMA TailList ==
  ASSUME NEW S, NEW q \in Seq(S), q # <<>>, Distinct(q)
  PROVE  /\ Head(q) \in S /\ Head(q) \in ToSet(q) /\ Tail(q) \in Seq(S)
         /\ ToSet(Tail(q)) = ToSet(q) \ {Head(q)} /\ Distinct(Tail(q))
<1>1. Len(q) \in Nat /\ 1 \in 1 .. Len(q) /\ Head(q) = q[1] /\ DOMAIN q = 1 .. Len(q)
  BY EmptySeq
<1>2. SubSeq(q, 1, 0) = <<>> /\ Tail(q) = SubSeq(q, 2, Len(q)) /\ Tail(q) \in Seq(S)
  BY TailIsSubSeq, HeadTailProperties, SubSeqEmpty
<1>3. RemoveAt(q, 1) = <<>> \o Tail(q)
  BY <1>2 DEF RemoveAt
<1>4. RemoveAt(q, 1) = Tail(q)
  BY <1>2, <1>3, ConcatEmptySeq, Zenon
<1>5. /\ RemoveAt(q, 1) \in Seq(S) /\ ToSet(RemoveAt(q, 1)) = ToSet(q) \ {q[1]}
      /\ Distinct(RemoveAt(q, 1))
  BY <1>1, RemoveAtList
<1>6. q[1] \in S /\ q[1] \in ToSet(q)
  BY <1>1 DEF ToSet
<1> QED
  BY <1>1, <1>2, <1>4, <1>5, <1>6

\* A thread of the pool takes a task from the queue,
LEMMA PoolDrawStep ==
  ASSUME PoolInv, NEW w \in Workers, Pool!Draw(w)
  PROVE  PoolInv' /\ NoneBegins
<1> DEFINE i == Head(taskQueue)
<1>1. /\ pc[w] = "draw" /\ taskQueue # <<>> /\ taskQueue' = Tail(taskQueue)
      /\ job' = [job EXCEPT ![w] = i] /\ stage' = [stage EXCEPT ![i] = "taken"]
      /\ pc' = [pc EXCEPT ![w] = "check"]
      /\ UNCHANGED <<groups, freshId, generation, group, since, pending, result,
                     calls, trouble, canceled, threads, size, left>>
  BY PoolNames DEF Pool!Draw, Goto, Pool!calls, calls
<1>2. /\ stage \in [Tasks -> Stages] /\ job \in [Threads -> Tasks \cup {0}]
      /\ pc \in [Threads -> {pc[u] : u \in Threads}]
      /\ pc \in [Threads -> Places(PoolLabels) \cup Waiting]
      /\ pending \in [Threads -> SUBSET Flags]
      /\ group \in [Tasks -> Nat] /\ since \in [Tasks -> Nat] /\ generation \in Nat
      /\ WaiterInv(PoolLabels)
  BY InvTypes, PcType DEF PoolInv
<1>3. /\ i \in Tasks /\ i \in ToSet(taskQueue) /\ Tail(taskQueue) \in Seq(Tasks)
      /\ ToSet(Tail(taskQueue)) = ToSet(taskQueue) \ {i} /\ Distinct(Tail(taskQueue))
  <2>1. taskQueue \in Seq(Tasks) /\ Distinct(taskQueue)
    BY DEF PoolInv, PoolTypes, QueueInv
  <2> QED BY <1>1, <2>1, TailList
<1> HIDE DEF i
<1>4. stage[i] \notin Ended /\ (\A u \in Threads : job[u] # i) /\ w \in Threads
  BY <1>3, Kinds DEF PoolInv, QueueInv
<1>5. /\ "taken" \in Stages \ Ended /\ "check" \in Places(PoolLabels)
      /\ "check" \notin Waiting /\ "draw" \notin Waiting
  BY DEF Stages, Ended, Places, PoolLabels, Waiting
<1>6. \A k \in Tasks : stage'[k] = IF k = i THEN "taken" ELSE stage[k]
  BY <1>1, <1>2, <1>3
<1>7. \A u \in Threads : /\ job'[u] = IF u = w THEN i ELSE job[u]
                         /\ pc'[u] = IF u = w THEN "check" ELSE pc[u]
  BY <1>1, <1>2
<1>8. WaiterInv(PoolLabels)'
  <2>1. \A u \in Threads : pc'[u] = pc[u] \/ (pc[u] \notin Waiting /\ pc'[u] \notin Waiting)
    BY <1>1, <1>5, <1>7
  <2>2. \A k \in Tasks : stage'[k] = stage[k] \/ (stage[k] \notin Ended /\ stage'[k] \notin Ended)
    BY <1>4, <1>5, <1>6
  <2>3. /\ stage' \in [Tasks -> Stages] /\ job' \in [Threads -> Tasks \cup {0}]
        /\ pc' \in [Threads -> Places(PoolLabels) \cup Waiting]
        /\ pending' \in [Threads -> SUBSET Flags]
        /\ since' \in [Tasks -> Nat] /\ generation' \in Nat
    BY <1>1, <1>2, <1>3, <1>5
  <2>4. UNCHANGED <<groups, freshId, group, result, calls, trouble>> /\ \A d \in Clients : pending'[d] = pending[d]
    BY <1>1
  <2> QED BY <1>2, <2>1, <2>2, <2>3, <2>4, OtherStep
<1>9. JobsInv(PoolJobs)'
  BY <1>1, <1>2, <1>3, <1>4, <1>5, JobsOn DEF PoolInv
<1>10. QueueInv'
  <2>1. ASSUME NEW k \in ToSet(Tail(taskQueue))
        PROVE  stage'[k] \notin Ended /\ \A u \in Threads : job'[u] # k
    <3>1. k \in Tasks /\ k # i /\ k \in ToSet(taskQueue)
      BY <1>3 DEF ToSet
    <3> QED BY <1>6, <1>7, <3>1 DEF PoolInv, QueueInv
  <2> QED BY <1>1, <1>3, <2>1 DEF QueueInv, Ended, Threads, Clients, Workers, Tasks
<1>11. PoolTypes' /\ SpawnInv' /\ SinceInv' /\ NoneBegins
  <2>1. PoolTypes' /\ SpawnInv'
    BY <1>1, <1>3, <1>7, Kinds DEF PoolInv, PoolTypes, SpawnInv, Clients, Tasks, Workers
  <2>2. SinceInv'
    BY <1>1, <1>7, Kinds DEF PoolInv, SinceInv, Workers, Tasks
  <2> QED BY <1>7, <2>1, <2>2, Kinds DEF NoneBegins
<1> QED
  BY <1>1, <1>8, <1>9, <1>10, <1>11 DEF PoolInv

\* and begins it: without an interruption, if it was submitted after the last interrupt().
LEMMA PoolBeginStep ==
  ASSUME PoolInv, NEW w \in Workers, Pool!Begin(w)
  PROVE  PoolInv' /\ Pool!CleanSlateStep
<1> DEFINE i == job[w]
<1>1. /\ pc[w] \in {"mark", "clear"}
      /\ pending' = [pending EXCEPT ![w] = IF pc[w] = "mark" THEN AfterInterrupt(@, ANYTHING)
                                           ELSE AfterIsInterrupted(@)]
      /\ stage' = [stage EXCEPT ![i] = "running"] /\ pc' = [pc EXCEPT ![w] = "run"]
      /\ UNCHANGED <<groups, freshId, generation, group, since, job, result, calls, trouble,
                     taskQueue, canceled, threads, size, left>>
  BY PoolNames, PoolStatus DEF Pool!Begin, Pool!Fresh, Goto, Pool!calls, calls, Pool!poolVars
<1>2. /\ stage \in [Tasks -> Stages] /\ job \in [Threads -> Tasks \cup {0}]
      /\ pc \in [Threads -> Places(PoolLabels) \cup Waiting]
      /\ pending \in [Threads -> SUBSET Flags] /\ generation \in Nat /\ since \in [Tasks -> Nat]
  BY InvTypes DEF PoolInv
<1>3. w \in Threads /\ i \in Tasks /\ stage[i] \notin Ended /\ pc[w] \in PoolJobs
  <2>1. w \in Threads /\ pc[w] \in PoolJobs
    BY <1>1, Kinds DEF PoolJobs
  <2> QED BY <1>2, <2>1 DEF PoolInv, JobsInv
<1>4. /\ "running" \in Stages \ Ended /\ "run" \in Places(PoolLabels)
      /\ {"run", "mark", "clear"} \cap Waiting = {}
  BY DEF Stages, Ended, Places, PoolLabels, Waiting
<1>5. \A u \in Threads : pc'[u] = IF u = w THEN "run" ELSE pc[u]
  BY <1>1, <1>2
<1>6. /\ stage' \in [Tasks -> Stages]
      /\ \A k \in Tasks : stage'[k] = stage[k] \/ (stage[k] \notin Ended /\ stage'[k] \notin Ended)
  BY <1>1, <1>2, <1>3, <1>4
<1>7. /\ pending' \in [Threads -> SUBSET Flags]
      /\ \A d \in Clients : pending'[d] = pending[d]
  <2>1. /\ AfterInterrupt(pending[w], ANYTHING) \in SUBSET Flags
        /\ AfterIsInterrupted(pending[w]) \in SUBSET Flags
    BY <1>2, <1>3, StatusTypes
  <2> QED BY <1>1, <1>2, <2>1, Kinds
<1>8. PoolTypes' /\ SpawnInv'
  BY <1>1, <1>5, Kinds DEF PoolInv, PoolTypes, SpawnInv, Clients, Tasks, Workers
<1>9. pc' \in [Threads -> Places(PoolLabels) \cup Waiting]
  BY <1>1, <1>2, <1>4
<1>10. \A u \in Threads : \/ pc'[u] = pc[u]
                          \/ /\ pc[u] \notin Waiting /\ pc'[u] \notin Waiting
                             /\ pc'[u] \in PoolJobs => pc[u] \in PoolJobs
                             /\ pc'[u] = "mark" => since[job[u]] < generation'
  BY <1>1, <1>3, <1>4, <1>5
<1>11. PoolInv'
  BY <1>1, <1>2, <1>6, <1>7, <1>8, <1>9, <1>10, PoolOther
<1>12. ASSUME NEW v \in Workers, pc[v] # "run", pc'[v] = "run", since[job[v]] = generation
       PROVE  INTERRUPTED \notin pending'[v]
  <2>1. v = w
    BY <1>5, <1>12, Kinds
  <2>2. pc[w] = "clear"
    <3>1. pc[w] = "mark" => since[i] < generation
      BY DEF PoolInv, SinceInv
    <3> QED BY <1>1, <1>2, <1>3, <1>12, <2>1, <3>1
  <2>3. pending'[w] = AfterIsInterrupted(pending[w])
    BY <1>1, <1>2, <1>3, <2>2
  <2> QED BY <2>1, <2>3 DEF AfterIsInterrupted
<1> QED
  BY <1>11, <1>12, PoolNames DEF Pool!CleanSlateStep, Pool!INTERRUPTED, INTERRUPTED

LEMMA PoolStep ==
  ASSUME PoolInv, Pool!Next
  PROVE  PoolInv' /\ Pool!CleanSlateStep
<1>1. NoneBegins => Pool!CleanSlateStep
  BY PoolNames DEF NoneBegins, Pool!CleanSlateStep
<1>2. ASSUME NEW c \in Clients, Pool!Serve(c) \/ Pool!Choose(c)
      PROVE  PoolInv' /\ NoneBegins
  <2>1. c \in Threads
    BY Kinds
  <2>2. CASE /\ Pool!Wait(c) \/ Pool!WaitCall(c) \/ Pool!WaitExpire(c) \/ Pool!InterruptClient(c)
             /\ UNCHANGED Pool!poolVars
    BY <2>2, PoolWaitStep
  <2>3. CASE Pool!ExecuteAdd(c)
    BY <2>3, PoolAddStep
  <2>4. CASE Pool!ExecuteRejected(c)
    <3>1. pc[c] = "e_add" /\ Decrement(c, "rejected", "idle") /\ UNCHANGED Pool!poolVars
      BY <2>4, PoolCounts DEF Pool!ExecuteRejected
    <3> QED BY <2>1, <3>1, PoolOffStep
  <2>5. CASE \/ Pool!InterruptAll(c) \/ Pool!Spawn(c) \/ Pool!InterruptBegin(c) \/ Pool!Cancel(c)
             \/ \E n \in 1 .. MaxSize : Pool!Resize(c, n)
    BY <2>5, PoolQuietStep
  <2>6. CASE Pool!Yielded(c, "idle")
    BY <2>1, <2>6, PoolAgainStep
  <2>7. CASE Pool!ExecuteCount(c)
    BY <2>7, PoolCountStep
  <2> QED BY <1>2, <2>2, <2>3, <2>4, <2>5, <2>6, <2>7 DEF Pool!Serve, Pool!Choose
<1>3. ASSUME NEW w \in Workers, Pool!Work(w)
      PROVE  PoolInv' /\ (NoneBegins \/ Pool!CleanSlateStep)
  <2>1. w \in Threads
    BY Kinds
  <2>2. CASE \/ Pool!Register(w) \/ Pool!Leave(w) \/ Pool!DrawCanceled(w)
             \/ Pool!DrawInterrupted(w) \/ Pool!Check(w)
    BY <2>2, PoolQuietStep
  <2>3. CASE Pool!Draw(w)
    BY <2>3, PoolDrawStep
  <2>4. CASE Pool!Begin(w)
    BY <2>4, PoolBeginStep
  <2>5. CASE Pool!End(w)
    <3>1. pc[w] = "run" /\ Decrement(w, "done", "draw") /\ UNCHANGED Pool!poolVars
      BY <2>5, PoolCounts DEF Pool!End
    <3> QED BY <2>1, <3>1, PoolOffStep
  <2>6. CASE Pool!Yielded(w, "draw")
    BY <2>1, <2>6, PoolAgainStep
  <2> QED BY <1>3, <2>2, <2>3, <2>4, <2>5, <2>6 DEF Pool!Work
<1> QED
  BY <1>1, <1>2, <1>3, PoolNames DEF Pool!Next

LEMMA PoolStart ==
  ASSUME Pool!Init
  PROVE  PoolInv
<1>1. /\ WaiterInit /\ trouble \in {"interrupts", "sizes"} /\ size \in 1 .. MaxSize
      /\ \A w \in Workers : pc[w] = IF w <= size THEN "born" ELSE "unborn"
      /\ taskQueue = <<>> /\ canceled = FALSE /\ threads = <<>>
      /\ left = [c \in Clients |-> 0]
  BY PoolNames DEF Pool!Init
<1>2. /\ pc \in [Threads -> {"idle", "unborn", "born"}]
      /\ job = [t \in Threads |-> 0] /\ since = [i \in Tasks |-> 0] /\ generation = 0
  BY <1>1 DEF WaiterInit, ExecutorInit
<1>3. {"idle", "unborn", "born"} \subseteq Places(PoolLabels) /\ {"idle", "unborn", "born"} \cap PoolJobs = {}
  BY DEF Places, PoolLabels, PoolJobs
<1>4. WaiterInv(PoolLabels)
  <2>1. pc \in [Threads -> Places(PoolLabels)]
    BY <1>2, <1>3
  <2> QED BY <1>1, <2>1, PoolApart, WaiterStart
<1>5. PoolTypes
  <2>1. 0 \in 0 .. MaxSize
    BY PoolAssumption, ExecutorAssumption
  <2>2. left \in [Clients -> 0 .. MaxSize] /\ canceled \in BOOLEAN
    BY <1>1, <2>1
  <2>3. taskQueue \in Seq(Tasks) /\ threads \in Seq(Workers)
    BY <1>1
  <2> QED BY <1>1, <2>2, <2>3 DEF PoolTypes
<1>6. JobsInv(PoolJobs)
  BY <1>2, <1>3 DEF JobsInv
<1>7. QueueInv
  BY <1>1 DEF QueueInv, Distinct, ToSet
<1>8. SpawnInv /\ SinceInv
  BY <1>2, Kinds DEF SpawnInv, SinceInv
<1> QED
  BY <1>1, <1>4, <1>5, <1>6, <1>7, <1>8 DEF PoolInv

LEMMA PoolType ==
  ASSUME PoolInv
  PROVE  Pool!TypeOK
  BY PoolNames DEF PoolInv, WaiterInv, PoolTypes, Pool!TypeOK, PoolLabels

LEMMA PerTaskNames ==
  /\ PerTask!Clients = Clients /\ PerTask!Tasks = Tasks /\ PerTask!Workers = Workers
  /\ PerTask!Threads = Threads /\ PerTask!Flags = Flags /\ PerTask!States = States
  /\ \A L : PerTask!WaiterTypeOK(L) <=> WaiterTypeOK(L)
  /\ \A t, l : PerTask!Goto(t, l) <=> Goto(t, l)
  /\ PerTask!WaiterInit <=> WaiterInit
  /\ PerTask!NextGeneration <=> NextGeneration
  BY DEF PerTask!Clients, Clients, PerTask!Tasks, Tasks, PerTask!Workers, Workers, PerTask!Threads, Threads,
    PerTask!Flags, Flags, PerTask!SIGNALED, SIGNALED, PerTask!INTERRUPTED, INTERRUPTED, PerTask!TIMEDOUT, TIMEDOUT,
    PerTask!CANCELED, CANCELED, PerTask!INVALID, INVALID, PerTask!States, States, 
    PerTask!WaiterTypeOK, WaiterTypeOK, PerTask!ExecutorTypeOK, ExecutorTypeOK, PerTask!Stages, Stages, PerTask!Waiting, Waiting,
    PerTask!Goto, Goto, PerTask!WaiterInit, WaiterInit, PerTask!ExecutorInit, ExecutorInit, PerTask!Group, Group,
    PerTask!NextGeneration, NextGeneration, PerTask!calls, calls

LEMMA PerTaskStatus ==
  /\ \A p, m : PerTask!AfterNotify(p, m) = AfterNotify(p, m)
  /\ \A p, m : PerTask!AfterInterrupt(p, m) = AfterInterrupt(p, m)
  /\ \A p, m : PerTask!AfterCancel(p, m) = AfterCancel(p, m)
  /\ \A p, m : PerTask!AfterNext(p, m) = AfterNext(p, m)
  /\ \A p, m : PerTask!NextState(p, m) = NextState(p, m)
  /\ \A p : PerTask!AfterIsInterrupted(p) = AfterIsInterrupted(p)
  /\ \A p, m, i : PerTask!Pending(p, m, i) <=> Pending(p, m, i)
  /\ PerTask!ANYTHING = ANYTHING
  BY DEF PerTask!AfterNotify, AfterNotify, PerTask!AfterInterrupt, AfterInterrupt, PerTask!AfterCancel, AfterCancel,
    PerTask!AfterNext, AfterNext, PerTask!NextState, NextState, PerTask!AfterIsInterrupted, AfterIsInterrupted,
    PerTask!Pending, Pending, PerTask!ANYTHING, ANYTHING, PerTask!Notifiable, Notifiable, PerTask!Interruptible, Interruptible,
    PerTask!Flags, Flags, PerTask!SIGNALED, SIGNALED, PerTask!INTERRUPTED, INTERRUPTED, PerTask!TIMEDOUT, TIMEDOUT,
    PerTask!CANCELED, CANCELED, PerTask!INVALID, INVALID

LEMMA PerTaskFind ==
  \A id : PerTask!Find(id) = Find(id)
  BY DEF PerTask!Find, Find, PerTask!SelectInSeq, SelectInSeq, PerTask!Min, Min

LEMMA PerTaskSweep ==
  \A t, gs, l : PerTask!Sweep(t, gs, l) <=> Sweep(t, gs, l)
<1> TAKE t, gs, l
<1>1. \A q, S : PerTask!Among(q, S) = Among(q, S)
  BY DEF PerTask!Among, Among, PerTask!Cardinality, Cardinality
<1>2. /\ \A S : PerTask!Min(S) = Min(S)
      /\ \A c : PerTask!Busy(c) <=> Busy(c)
      /\ \A q : PerTask!ToSet(q) = ToSet(q)
      /\ \A n : PerTask!Group(n) = Group(n)
  BY DEF PerTask!Min, Min, PerTask!Busy, Busy, PerTask!ToSet, ToSet, PerTask!Group, Group
<1>3. \A g : PerTask!Complete(g) <=> Complete(g)
  BY <1>2 DEF PerTask!Complete, Complete
<1> QED BY <1>1, <1>2, <1>3, PerTaskNames, PerTaskStatus DEF PerTask!Sweep, Sweep

LEMMA PerTaskWaits ==
  /\ \A c : PerTask!Wait(c) <=> Wait(c)
  /\ \A c : PerTask!WaitExpire(c) <=> WaitExpire(c)
  /\ \A c : PerTask!InterruptClient(c) <=> InterruptClient(c)
<1>1. \A c, p, l : PerTask!Report(c, p, l) <=> Report(c, p, l)
  BY PerTaskNames, PerTaskStatus DEF PerTask!Report, Report, PerTask!calls, calls
<1>2. /\ \A c : PerTask!WaitExpire(c) <=> WaitExpire(c)
      /\ \A c : PerTask!InterruptClient(c) <=> InterruptClient(c)
  BY <1>1, PerTaskNames, PerTaskStatus DEF PerTask!WaitExpire, WaitExpire, PerTask!InterruptClient, InterruptClient, PerTask!calls, calls,
    PerTask!TIMEDOUT, TIMEDOUT, PerTask!Waiting, Waiting
<1>3. \A c : PerTask!WaitReturn(c) <=> WaitReturn(c)
  <2>1. \A q, c : PerTask!RemoveFirst(q, c) = RemoveFirst(q, c)
    BY DEF PerTask!RemoveFirst, RemoveFirst, PerTask!RemoveAt, RemoveAt,
           PerTask!SelectInSeq, SelectInSeq, PerTask!Min, Min
  <2> QED BY <2>1, PerTaskNames, PerTaskFind DEF PerTask!WaitReturn, WaitReturn, PerTask!INVALID, INVALID
<1> QED BY <1>1, <1>2, <1>3, PerTaskNames, PerTaskStatus DEF PerTask!Wait, Wait, PerTask!WaitSkip, WaitSkip, PerTask!WaitSleep, WaitSleep,
   PerTask!WaitWake, WaitWake, PerTask!WaitRelock, WaitRelock, PerTask!calls, calls

LEMMA PerTaskCounts ==
  /\ \A t, l : PerTask!Increment(t, l) <=> Increment(t, l)
  /\ \A t, to, l : PerTask!Decrement(t, to, l) <=> Decrement(t, to, l)
  /\ \A t, l : PerTask!DecrementAgain(t, l) <=> DecrementAgain(t, l)
<1>1. \A i : PerTask!NextTask(i) <=> NextTask(i)
  BY DEF PerTask!NextTask, NextTask
<1>2. \A n : PerTask!Group(n) = Group(n)
  BY DEF PerTask!Group, Group
<1>3. \A t, l : PerTask!Increment(t, l) <=> Increment(t, l)
  BY <1>1, <1>2, PerTaskNames DEF PerTask!Increment, Increment
<1> QED BY <1>3, PerTaskNames, PerTaskSweep, PerTaskFind DEF PerTask!Decrement, Decrement, PerTask!DecrementAgain, DecrementAgain, PerTask!calls, calls

LEMMA PerTaskLists ==
  /\ \A q, t : PerTask!Unlisted(q, t) = Unlisted(q, t)
  /\ \A q : PerTask!InterruptThreads(q) <=> InterruptThreads(q)
<1>1. \A q, S : PerTask!Among(q, S) = Among(q, S)
  BY DEF PerTask!Among, Among, PerTask!Cardinality, Cardinality
<1>2. \A q : PerTask!ToSet(q) = ToSet(q)
  BY DEF PerTask!ToSet, ToSet
<1> QED
  BY <1>1, <1>2, PerTaskNames, PerTaskStatus
  DEF PerTask!Unlisted, Unlisted, PerTask!InterruptThreads, InterruptThreads


-----------------------------------------------------------------------------
(* ThreadedExecutor *)

PerTaskLabels == {"e_spawn", "i_next", "born", "list", "run", "unlist"}
PerTaskJobs   == {"e_spawn", "born", "list", "run"}

\* The thread for a task has that task.
OwnInv == \A w \in Workers : pc[w] \in {"born", "list", "run"} => job[w] = w

\* A worker never waits for tasks.
NoWorkerWaits == \A w \in Workers : pc[w] \notin Waiting

PerTaskInv ==
  /\ WaiterInv(PerTaskLabels) /\ threads \in Seq(Workers)
  /\ JobsInv(PerTaskJobs) /\ OwnInv /\ NoWorkerWaits

LEMMA PerTaskApart ==
  /\ PerTaskLabels \cap Waiting = {} /\ PerTaskJobs \subseteq PerTaskLabels
  /\ {"idle", "unborn", "ended", "d_yield", "unlist", "i_next"} \cap PerTaskJobs = {}
  /\ {"idle", "unborn", "ended", "d_yield"} \cap Waiting = {}
  BY DEF PerTaskLabels, PerTaskJobs, Waiting

\* A step that gives no task to a thread.
LEMMA PerTaskKept ==
  ASSUME PerTaskInv, WaiterInv(PerTaskLabels)', threads' \in Seq(Workers), job' = job,
         NoWorkerWaits', \A i \in Tasks : stage[i] \notin Ended => stage'[i] \notin Ended,
         \A t \in Threads : \/ pc'[t] \notin PerTaskJobs
                            \/ pc'[t] = pc[t]
                            \/ pc[t] = "born" /\ pc'[t] \in {"list", "run"}
                            \/ pc[t] = "list" /\ pc'[t] = "run"
  PROVE  PerTaskInv'
<1>1. \A t \in Threads : pc'[t] \in PerTaskJobs => pc[t] \in PerTaskJobs
  BY DEF PerTaskJobs
<1>2. JobsInv(PerTaskJobs)'
  <2>1. \A t \in Threads : job[t] # 0 => stage'[job[t]] \notin Ended
    BY InvTypes DEF PerTaskInv, JobsInv
  <2>2. \A t \in Threads : pc'[t] \in PerTaskJobs => job[t] # 0
    BY <1>1 DEF PerTaskInv, JobsInv
  <2> QED BY <2>1, <2>2 DEF PerTaskInv, JobsInv, Threads, Clients, Workers, Tasks, Ended, PerTaskJobs
<1>3. OwnInv'
  <2>1. \A w \in Workers : pc'[w] \in {"born", "list", "run"} => pc[w] \in {"born", "list", "run"}
    BY Kinds DEF PerTaskJobs
  <2> QED BY <2>1 DEF PerTaskInv, OwnInv, Workers, Tasks
<1> QED
  BY <1>2, <1>3 DEF PerTaskInv

\* wait()
LEMMA PerTaskWaitStep ==
  ASSUME PerTaskInv, NEW c \in Clients, UNCHANGED threads,
         PerTask!Wait(c) \/ PerTask!WaitCall(c) \/ PerTask!WaitExpire(c)
           \/ PerTask!InterruptClient(c)
  PROVE  PerTaskInv'
<1>1. WaiterInv(PerTaskLabels) /\ pc \in [Threads -> Places(PerTaskLabels) \cup Waiting] /\ c \in Threads
  BY InvTypes, Kinds DEF PerTaskInv
<1>2. /\ WaiterInv(PerTaskLabels)'
      /\ UNCHANGED <<stage, job>>
      /\ \E l \in Waiting \cup {"idle"} : pc' = [pc EXCEPT ![c] = l]
  <2>1. CASE PerTask!WaitCall(c)
    <3>1. /\ pc[c] \notin Waiting
          /\ groups' = [groups EXCEPT ![Len(groups)].waiters = Append(@, c)]
          /\ awaited' = [awaited EXCEPT ![c] = groups[Len(groups)].id]
          /\ earlier' = [earlier EXCEPT ![c] =
               IF SIGNALED \in pending[c] THEN 0 ELSE Cardinality({i \in Tasks : stage[i] # "new"})]
          /\ pc' = [pc EXCEPT ![c] = "w_enter"]
          /\ UNCHANGED <<freshId, generation, group, since, stage, job, pending, result, trouble,
                         repeated>>
      BY <2>1, PerTaskNames
         DEF PerTask!WaitCall, Goto, Waiting, PerTask!Cardinality, Cardinality,
             PerTask!SIGNALED, SIGNALED
    <3>2. Len(groups) \in Nat
      BY <1>1, GroupTypes
    <3>3. WaiterInv(PerTaskLabels)'
      BY <1>1, <3>1, <3>2, CallStep
    <3> QED BY <3>1, <3>3 DEF Waiting
  <2>2. CASE WaitReturn(c)
    <3>1. WaiterInv(PerTaskLabels)'
      BY <1>1, <2>2, ReturnStep
    <3> QED BY <2>2, <3>1 DEF WaitReturn, Goto
  <2>3. CASE \/ WaitSkip(c) \/ WaitSleep(c) \/ WaitWake(c) \/ WaitRelock(c)
             \/ WaitExpire(c) \/ InterruptClient(c)
    <3>1. WaiterInv(PerTaskLabels)'
      BY <1>1, <2>3, WaitMoves
    <3>2. pc = [pc EXCEPT ![c] = pc[c]]
      BY <1>1
    <3>3. UNCHANGED <<stage, job>> /\ \E l \in Waiting \cup {"idle"} : pc' = [pc EXCEPT ![c] = l]
      BY <2>3, <3>2 DEF WaitSkip, WaitSleep, WaitWake, WaitRelock, WaitExpire, InterruptClient,
           Report, Goto, Waiting
    <3> QED BY <3>1, <3>3
  <2> QED BY <2>1, <2>2, <2>3, PerTaskWaits DEF Wait
<1>3. PICK l \in Waiting \cup {"idle"} : pc' = [pc EXCEPT ![c] = l]
  BY <1>2
<1>4. l \notin PerTaskJobs
  BY DEF Waiting, PerTaskJobs
<1>5. \A t \in Threads : pc'[t] = pc[t] \/ pc'[t] \notin PerTaskJobs
  BY <1>1, <1>3, <1>4
<1>6. NoWorkerWaits'
  BY <1>1, <1>3, Kinds DEF PerTaskInv, NoWorkerWaits
<1> QED
  BY <1>2, <1>5, <1>6, PerTaskKept DEF PerTaskInv

\* The steps that leave the groups alone and give no task to a thread.
LEMMA PerTaskQuietStep ==
  ASSUME PerTaskInv,
         \/ \E c \in Clients : PerTask!InterruptAll(c) \/ PerTask!InterruptEnd(c)
         \/ \E w \in Workers : PerTask!Register(w) \/ PerTask!Enlist(w) \/ PerTask!Unlist(w)
  PROVE  PerTaskInv'
<1>1. /\ pc \in [Threads -> Places(PerTaskLabels) \cup Waiting]
      /\ pending \in [Threads -> SUBSET Flags]
      /\ stage \in [Tasks -> Stages] /\ job \in [Threads -> Tasks \cup {0}]
      /\ since \in [Tasks -> Nat] /\ generation \in Nat /\ WaiterInv(PerTaskLabels)
      /\ threads \in Seq(Workers)
  BY InvTypes DEF PerTaskInv
<1>2. /\ UNCHANGED <<groups, freshId, group, since, job, result, calls, trouble>>
      /\ generation' \in Nat /\ threads' \in Seq(Workers)
      /\ pending' \in [Threads -> SUBSET Flags] /\ \A d \in Clients : pending'[d] = pending[d]
      /\ \E t \in Threads :
           /\ \E l \in PerTaskLabels \cup {"idle", "ended"} :
                /\ pc' = [pc EXCEPT ![t] = l]
                /\ \/ l \notin PerTaskJobs
                   \/ pc[t] = "born" /\ l \in {"list", "run"}
                   \/ pc[t] = "list" /\ l = "run"
           /\ pc[t] \notin Waiting
           /\ \/ stage' = stage
              \/ t \in Tasks /\ stage[t] \notin Ended /\ stage' = [stage EXCEPT ![t] = "running"]
  <2>1. \A w \in Workers : pc[w] \in {"born", "list"} => stage[w] \notin Ended /\ w \in Tasks
    BY Kinds DEF PerTaskInv, OwnInv, JobsInv
  <2>2. ASSUME NEW c \in Clients, PerTask!InterruptAll(c)
        PROVE  <1>2!:
    <3>1. /\ pc[c] = "idle" /\ InterruptThreads(threads) /\ pc' = [pc EXCEPT ![c] = "i_next"]
          /\ UNCHANGED <<groups, freshId, generation, group, since, stage, job, result,
                         calls, trouble, threads>>
      BY <2>2, PerTaskNames, PerTaskLists DEF PerTask!InterruptAll, Goto, PerTask!calls, calls
    <3>2. /\ pending' \in [Threads -> SUBSET Flags]
          /\ \A d \in Clients : pending'[d] = pending[d]
      <4>1. \A t \in Threads : AfterInterrupt(pending[t], ANYTHING) \in SUBSET Flags
        BY <1>1, StatusTypes
      <4>2. \A d \in Clients : d \notin ToSet(threads) /\ d \in Threads
        BY <1>1, Kinds DEF ToSet
      <4> QED BY <1>1, <3>1, <4>1, <4>2 DEF InterruptThreads
    <3>3. c \in Threads /\ "i_next" \in PerTaskLabels \ PerTaskJobs /\ "idle" \notin Waiting
      BY Kinds DEF PerTaskLabels, PerTaskJobs, Waiting
    <3> QED BY <1>1, <3>1, <3>2, <3>3
  <2>3. ASSUME NEW c \in Clients, PerTask!InterruptEnd(c)
        PROVE  <1>2!:
    <3>1. /\ pc[c] = "i_next" /\ generation' = generation + 1 /\ pc' = [pc EXCEPT ![c] = "idle"]
          /\ UNCHANGED <<groups, freshId, group, since, stage, job, pending, result,
                         calls, trouble, threads>>
      BY <2>3, PerTaskNames DEF PerTask!InterruptEnd, Goto, NextGeneration
    <3>2. c \in Threads /\ "idle" \notin PerTaskJobs /\ "i_next" \notin Waiting
      BY Kinds DEF PerTaskJobs, Waiting
    <3>3. generation' \in Nat /\ pending' \in [Threads -> SUBSET Flags] /\ threads' \in Seq(Workers)
      BY <1>1, <3>1
    <3>4. \E l \in PerTaskLabels \cup {"idle", "ended"} :
             /\ pc' = [pc EXCEPT ![c] = l]
             /\ \/ l \notin PerTaskJobs
                \/ pc[c] = "born" /\ l \in {"list", "run"}
                \/ pc[c] = "list" /\ l = "run"
      BY <3>1, <3>2
    <3>5. pc[c] \notin Waiting
      BY <3>1, <3>2
    <3> QED BY <3>1, <3>2, <3>3, <3>4, <3>5
  <2>4. ASSUME NEW w \in Workers, PerTask!Register(w)
        PROVE  <1>2!:
    <3>1. /\ pc[w] = "born"
          /\ \/ pc' = [pc EXCEPT ![w] = "list"] /\ UNCHANGED <<stage, pending>>
             \/ /\ pending' = [pending EXCEPT ![w] = AfterInterrupt(@, ANYTHING)]
                /\ stage' = [stage EXCEPT ![w] = "running"] /\ pc' = [pc EXCEPT ![w] = "run"]
          /\ UNCHANGED <<groups, freshId, generation, group, since, job, result,
                         calls, trouble, threads>>
      BY <2>4, PerTaskNames, PerTaskStatus DEF PerTask!Register, Goto, PerTask!calls, calls
    <3>2. w \in Threads /\ {"list", "run"} \subseteq PerTaskLabels /\ "born" \notin Waiting
      BY Kinds DEF PerTaskLabels, Waiting
    <3>3. /\ pending' \in [Threads -> SUBSET Flags]
          /\ \A d \in Clients : pending'[d] = pending[d]
      <4>1. AfterInterrupt(pending[w], ANYTHING) \in SUBSET Flags
        BY <1>1, <3>2, StatusTypes
      <4> QED BY <1>1, <3>1, <4>1, Kinds
    <3> QED BY <1>1, <2>1, <3>1, <3>2, <3>3
  <2>5. ASSUME NEW w \in Workers, PerTask!Enlist(w)
        PROVE  <1>2!:
    <3>1. /\ pc[w] = "list" /\ threads' = Append(threads, w)
          /\ stage' = [stage EXCEPT ![w] = "running"] /\ pc' = [pc EXCEPT ![w] = "run"]
          /\ UNCHANGED <<groups, freshId, generation, group, since, job, pending, result,
                         calls, trouble>>
      BY <2>5, PerTaskNames DEF PerTask!Enlist, Goto, PerTask!calls, calls
    <3>2. w \in Threads /\ "run" \in PerTaskLabels /\ "list" \notin Waiting /\ threads' \in Seq(Workers)
      BY <1>1, <3>1, Kinds DEF PerTaskLabels, Waiting
    <3> QED BY <1>1, <2>1, <3>1, <3>2
  <2>6. ASSUME NEW w \in Workers, PerTask!Unlist(w)
        PROVE  <1>2!:
    <3>1. /\ pc[w] = "unlist" /\ threads' = Unlisted(threads, w) /\ pc' = [pc EXCEPT ![w] = "ended"]
          /\ UNCHANGED <<groups, freshId, generation, group, since, stage, job, pending, result,
                         calls, trouble>>
      BY <2>6, PerTaskNames, PerTaskLists DEF PerTask!Unlist, Goto, PerTask!calls, calls
    <3>2. w \in Threads /\ "ended" \notin PerTaskJobs /\ "unlist" \notin Waiting /\ threads' \in Seq(Workers)
      BY <1>1, <3>1, Kinds, UnlistedType DEF PerTaskJobs, Waiting
    <3> QED BY <1>1, <3>1, <3>2
  <2> QED BY <2>2, <2>3, <2>4, <2>5, <2>6
<1>3. PICK t \in Threads :
           /\ \E l \in PerTaskLabels \cup {"idle", "ended"} :
                /\ pc' = [pc EXCEPT ![t] = l]
                /\ \/ l \notin PerTaskJobs
                   \/ pc[t] = "born" /\ l \in {"list", "run"}
                   \/ pc[t] = "list" /\ l = "run"
           /\ pc[t] \notin Waiting
           /\ \/ stage' = stage
              \/ t \in Tasks /\ stage[t] \notin Ended /\ stage' = [stage EXCEPT ![t] = "running"]
  BY <1>2
<1>4. PICK l \in PerTaskLabels \cup {"idle", "ended"} :
           /\ pc' = [pc EXCEPT ![t] = l]
           /\ \/ l \notin PerTaskJobs
              \/ pc[t] = "born" /\ l \in {"list", "run"}
              \/ pc[t] = "list" /\ l = "run"
  BY <1>3
<1>5. l \in Places(PerTaskLabels) /\ l \notin Waiting /\ "running" \in Stages \ Ended
  BY PerTaskApart DEF Places, Stages, Ended
<1>6. \A u \in Threads : pc'[u] = IF u = t THEN l ELSE pc[u]
  BY <1>1, <1>4
<1>7. /\ stage' \in [Tasks -> Stages]
      /\ \A i \in Tasks : stage'[i] = stage[i] \/ (stage[i] \notin Ended /\ stage'[i] \notin Ended)
  BY <1>1, <1>3, <1>5
<1>8. WaiterInv(PerTaskLabels)'
  <2>1. \A u \in Threads : pc'[u] = pc[u] \/ (pc[u] \notin Waiting /\ pc'[u] \notin Waiting)
    BY <1>3, <1>5, <1>6
  <2>2. pc' \in [Threads -> Places(PerTaskLabels) \cup Waiting]
    BY <1>1, <1>4, <1>5
  <2>3. UNCHANGED <<groups, freshId, group, result, calls, trouble>>
    BY <1>2
  <2>4. since' \in [Tasks -> Nat] /\ job' \in [Threads -> Tasks \cup {0}]
    BY <1>1, <1>2
  <2> QED BY <1>1, <1>2, <1>7, <2>1, <2>2, <2>3, <2>4, OtherStep
<1>9. \A u \in Threads : \/ pc'[u] \notin PerTaskJobs
                         \/ pc'[u] = pc[u]
                         \/ pc[u] = "born" /\ pc'[u] \in {"list", "run"}
                         \/ pc[u] = "list" /\ pc'[u] = "run"
  BY <1>4, <1>6
<1>10. \A i \in Tasks : stage[i] \notin Ended => stage'[i] \notin Ended
  BY <1>7
<1>11. job' = job /\ threads' \in Seq(Workers)
  BY <1>2
<1>12. NoWorkerWaits'
  BY <1>5, <1>6, Kinds DEF PerTaskInv, NoWorkerWaits
<1> QED
  BY <1>8, <1>9, <1>10, <1>11, <1>12, PerTaskKept

LEMMA PerTaskWorkers ==
  ASSUME PerTaskInv,
         \A w \in Workers : \/ pc'[w] = pc[w] /\ job'[w] = job[w]
                            \/ pc'[w] = "born" /\ job'[w] = w
                            \/ pc'[w] \in {"unlist", "d_yield"}
  PROVE  OwnInv' /\ NoWorkerWaits'
<1>1. {"unlist", "d_yield", "born"} \cap Waiting = {}
  BY DEF Waiting
<1>2. \A w \in Workers : pc'[w] \notin Waiting
  BY <1>1 DEF PerTaskInv, NoWorkerWaits
<1>3. \A w \in Workers : pc'[w] \in {"born", "list", "run"} => job'[w] = w
  BY DEF PerTaskInv, OwnInv
<1> QED
  BY <1>2, <1>3 DEF OwnInv, NoWorkerWaits, Workers, Tasks, Waiting

\* execute(): the task is counted,
LEMMA PerTaskCountStep ==
  ASSUME PerTaskInv, NEW c \in Clients, PerTask!ExecuteCount(c)
  PROVE  PerTaskInv'
<1>1. pc[c] = "idle" /\ Increment(c, "e_spawn") /\ UNCHANGED threads
  BY PerTaskCounts DEF PerTask!ExecuteCount
<1>2. /\ WaiterInv(PerTaskLabels) /\ c \in Threads /\ "e_spawn" \in Places(PerTaskLabels)
      /\ "e_spawn" \notin Waiting /\ pc[c] \notin Waiting
  BY <1>1, Kinds DEF PerTaskInv, Places, PerTaskLabels, Waiting
<1>3. WaiterInv(PerTaskLabels)'
  BY <1>1, <1>2, IncrementStep
<1>4. /\ stage \in [Tasks -> Stages] /\ job \in [Threads -> Tasks \cup {0}]
      /\ pc \in [Threads -> {pc[u] : u \in Threads}]
  BY <1>2, InvTypes, PcType
<1>5. PICK i \in Tasks :
        /\ stage[i] = "new"
        /\ stage' = [stage EXCEPT ![i] = "counted"] /\ job' = [job EXCEPT ![c] = i]
        /\ pc' = [pc EXCEPT ![c] = "e_spawn"]
  BY <1>1, Zenon DEF Increment, Goto, NextTask
<1>6. \A u \in Threads : job[u] # i
  BY <1>5, Kinds DEF PerTaskInv, JobsInv, Ended
<1>7. JobsInv(PerTaskJobs)'
  <2>1. "counted" \in Stages \ Ended
    BY DEF Stages, Ended
  <2> QED BY <1>2, <1>4, <1>5, <1>6, <2>1, JobsOn DEF PerTaskInv
<1>8. OwnInv' /\ NoWorkerWaits'
  <2>1. \A w \in Workers : pc'[w] = pc[w] /\ job'[w] = job[w]
    BY <1>4, <1>5, Kinds
  <2> QED BY <2>1, PerTaskWorkers
<1> QED
  BY <1>1, <1>3, <1>7, <1>8 DEF PerTaskInv

\* and a thread starts for it,
LEMMA PerTaskSpawnStep ==
  ASSUME PerTaskInv, NEW c \in Clients, PerTask!ExecuteSpawn(c)
  PROVE  PerTaskInv'
<1> DEFINE i == job[c]
<1>1. /\ pc[c] = "e_spawn"
      /\ pc' = [pc EXCEPT ![c] = "idle", ![i] = "born"]
      /\ job' = [job EXCEPT ![c] = 0, ![i] = i]
      /\ stage' = [stage EXCEPT ![i] = "taken"]
      /\ UNCHANGED <<groups, freshId, generation, group, since, pending, result,
                     calls, trouble, threads>>
  BY DEF PerTask!ExecuteSpawn, PerTask!calls, calls
<1>2. /\ pc \in [Threads -> Places(PerTaskLabels) \cup Waiting]
      /\ pending \in [Threads -> SUBSET Flags]
      /\ stage \in [Tasks -> Stages] /\ job \in [Threads -> Tasks \cup {0}]
      /\ since \in [Tasks -> Nat] /\ generation \in Nat /\ WaiterInv(PerTaskLabels)
  BY InvTypes DEF PerTaskInv
<1>3. /\ c \in Threads /\ i \in Tasks /\ i \in Workers /\ i \in Threads /\ i # c /\ i # 0
      /\ stage[i] \notin Ended /\ \A u \in Threads : u # c => job[u] # i
  <2>1. c \in Threads /\ i # 0
    BY <1>1, Kinds DEF PerTaskInv, JobsInv, PerTaskJobs
  <2> QED BY <1>2, <2>1, Kinds DEF PerTaskInv, JobsInv
<1> HIDE DEF i
<1>4. /\ "taken" \in Stages \ Ended /\ {"idle", "born"} \subseteq Places(PerTaskLabels)
      /\ {"idle", "born", "e_spawn"} \cap Waiting = {} /\ "idle" \notin PerTaskJobs
  BY DEF Stages, Ended, Places, PerTaskLabels, Waiting, PerTaskJobs
<1>5. \A u \in Threads :
        /\ pc'[u] = IF u = i THEN "born" ELSE IF u = c THEN "idle" ELSE pc[u]
        /\ job'[u] = IF u = i THEN i ELSE IF u = c THEN 0 ELSE job[u]
  BY <1>1, <1>2, <1>3
<1>6. \A k \in Tasks : stage'[k] = IF k = i THEN "taken" ELSE stage[k]
  BY <1>1, <1>2, <1>3
<1>7. WaiterInv(PerTaskLabels)'
  <2>1. \A u \in Threads : pc'[u] = pc[u] \/ (pc[u] \notin Waiting /\ pc'[u] \notin Waiting)
    BY <1>1, <1>3, <1>4, <1>5 DEF PerTaskInv, NoWorkerWaits
  <2>2. \A k \in Tasks : stage'[k] = stage[k] \/ (stage[k] \notin Ended /\ stage'[k] \notin Ended)
    BY <1>3, <1>4, <1>6
  <2>3. /\ stage' \in [Tasks -> Stages] /\ job' \in [Threads -> Tasks \cup {0}]
        /\ pc' \in [Threads -> Places(PerTaskLabels) \cup Waiting]
        /\ pending' \in [Threads -> SUBSET Flags]
        /\ since' \in [Tasks -> Nat] /\ generation' \in Nat
    BY <1>1, <1>2, <1>3, <1>4
  <2>4. UNCHANGED <<groups, freshId, group, result, calls, trouble>> /\ \A d \in Clients : pending'[d] = pending[d]
    BY <1>1
  <2> QED BY <1>2, <2>1, <2>2, <2>3, <2>4, OtherStep
<1>8. JobsInv(PerTaskJobs)'
  <2>1. \A u \in Threads : job'[u] # 0 => stage'[job'[u]] \notin Ended
    BY <1>2, <1>3, <1>4, <1>5, <1>6 DEF PerTaskInv, JobsInv
  <2>2. \A u, v \in Threads : u # v /\ job'[u] # 0 => job'[u] # job'[v]
    BY <1>3, <1>5 DEF PerTaskInv, JobsInv
  <2>3. \A u \in Threads : pc'[u] \in PerTaskJobs => job'[u] # 0
    BY <1>3, <1>4, <1>5 DEF PerTaskInv, JobsInv
  <2> QED BY <2>1, <2>2, <2>3 DEF JobsInv, Threads, Clients, Workers, Tasks, Ended, PerTaskJobs
<1>9. OwnInv' /\ NoWorkerWaits'
  <2>1. \A w \in Workers : \/ pc'[w] = pc[w] /\ job'[w] = job[w]
                           \/ pc'[w] = "born" /\ job'[w] = w
    BY <1>5, Kinds
  <2> QED BY <2>1, PerTaskWorkers
<1> QED
  BY <1>1, <1>7, <1>8, <1>9 DEF PerTaskInv

\* or does not.
LEMMA PerTaskFailsStep ==
  ASSUME PerTaskInv, NEW c \in Clients, PerTask!ExecuteFails(c)
  PROVE  PerTaskInv'
<1>1. /\ pc[c] = "e_spawn" /\ job' = [job EXCEPT ![c] = 0] /\ pc' = [pc EXCEPT ![c] = "idle"]
      /\ UNCHANGED <<groups, freshId, generation, group, since, stage, pending, result,
                     calls, trouble, threads>>
  BY PerTaskNames DEF PerTask!ExecuteFails, Goto, PerTask!calls, calls
<1>2. /\ pc \in [Threads -> Places(PerTaskLabels) \cup Waiting]
      /\ pending \in [Threads -> SUBSET Flags]
      /\ stage \in [Tasks -> Stages] /\ job \in [Threads -> Tasks \cup {0}]
      /\ since \in [Tasks -> Nat] /\ generation \in Nat /\ WaiterInv(PerTaskLabels)
  BY InvTypes DEF PerTaskInv
<1>3. c \in Threads
  BY Kinds
<1>4. "idle" \in Places(PerTaskLabels) /\ {"idle", "e_spawn"} \cap Waiting = {} /\ "idle" \notin PerTaskJobs
  BY DEF Places, Waiting, PerTaskJobs
<1>5. \A u \in Threads : /\ pc'[u] = IF u = c THEN "idle" ELSE pc[u]
                         /\ job'[u] = IF u = c THEN 0 ELSE job[u]
  BY <1>1, <1>2, <1>3
<1>6. WaiterInv(PerTaskLabels)'
  <2>1. \A u \in Threads : pc'[u] = pc[u] \/ (pc[u] \notin Waiting /\ pc'[u] \notin Waiting)
    BY <1>1, <1>4, <1>5
  <2>2. \A k \in Tasks : stage'[k] = stage[k] \/ (stage[k] \notin Ended /\ stage'[k] \notin Ended)
    BY <1>1
  <2>3. /\ stage' \in [Tasks -> Stages] /\ job' \in [Threads -> Tasks \cup {0}]
        /\ pc' \in [Threads -> Places(PerTaskLabels) \cup Waiting]
        /\ pending' \in [Threads -> SUBSET Flags]
        /\ since' \in [Tasks -> Nat] /\ generation' \in Nat
    BY <1>1, <1>2, <1>3, <1>4
  <2>4. UNCHANGED <<groups, freshId, group, result, calls, trouble>> /\ \A d \in Clients : pending'[d] = pending[d]
    BY <1>1
  <2> QED BY <1>2, <2>1, <2>2, <2>3, <2>4, OtherStep
<1>7. JobsInv(PerTaskJobs)'
  <2>1. \A u \in Threads : job'[u] # 0 => stage'[job'[u]] \notin Ended
    BY <1>1, <1>5 DEF PerTaskInv, JobsInv
  <2>2. \A u, v \in Threads : u # v /\ job'[u] # 0 => job'[u] # job'[v]
    BY <1>5 DEF PerTaskInv, JobsInv
  <2>3. \A u \in Threads : pc'[u] \in PerTaskJobs => job'[u] # 0
    BY <1>4, <1>5 DEF PerTaskInv, JobsInv
  <2> QED BY <2>1, <2>2, <2>3 DEF JobsInv, Threads, Clients, Workers, Tasks, Ended, PerTaskJobs
<1>8. OwnInv' /\ NoWorkerWaits'
  <2>1. \A w \in Workers : pc'[w] = pc[w] /\ job'[w] = job[w]
    BY <1>5, Kinds
  <2> QED BY <2>1, PerTaskWorkers
<1> QED
  BY <1>1, <1>6, <1>7, <1>8 DEF PerTaskInv

\* A task that has ended is counted off,
LEMMA PerTaskEndStep ==
  ASSUME PerTaskInv, NEW w \in Workers, PerTask!End(w)
  PROVE  PerTaskInv'
<1>1. pc[w] = "run" /\ Decrement(w, "done", "unlist") /\ UNCHANGED threads
  BY PerTaskCounts DEF PerTask!End
<1>2. /\ stage' = [stage EXCEPT ![job[w]] = "done"] /\ job' = [job EXCEPT ![w] = 0]
  BY <1>1 DEF Decrement
<1>3. /\ stage \in [Tasks -> Stages] /\ job \in [Threads -> Tasks \cup {0}]
      /\ pc \in [Threads -> {pc[u] : u \in Threads}] /\ WaiterInv(PerTaskLabels)
  BY InvTypes, PcType DEF PerTaskInv
<1>4. w \in Threads /\ job[w] \in Tasks /\ job[w] # 0 /\ stage[job[w]] \notin Ended /\ pc[w] \notin Waiting
  BY <1>1, <1>3, Kinds DEF PerTaskInv, JobsInv, PerTaskJobs, Waiting
<1>5. "unlist" \in Places(PerTaskLabels) /\ "unlist" \notin Waiting
  BY DEF Places, PerTaskLabels, Waiting
<1>6. WaiterInv(PerTaskLabels)' /\ \E l \in {"unlist", "d_yield"} : pc' = [pc EXCEPT ![w] = l]
  BY <1>1, <1>3, <1>4, <1>5, DecrementStep
<1>7. PICK l \in {"unlist", "d_yield"} : pc' = [pc EXCEPT ![w] = l]
  BY <1>6
<1>8. l \notin PerTaskJobs
  BY DEF PerTaskJobs
<1>9. JobsInv(PerTaskJobs)'
  BY <1>2, <1>3, <1>4, <1>7, <1>8, JobsOff DEF PerTaskInv
<1>10. OwnInv' /\ NoWorkerWaits'
  <2>1. \A v \in Workers : \/ pc'[v] = pc[v] /\ job'[v] = job[v]
                           \/ pc'[v] \in {"unlist", "d_yield"}
    BY <1>2, <1>3, <1>7, Kinds
  <2> QED BY <2>1, PerTaskWorkers
<1> QED
  BY <1>1, <1>6, <1>9, <1>10 DEF PerTaskInv

\* and what is left of that goes on.
LEMMA PerTaskAgainStep ==
  ASSUME PerTaskInv, NEW w \in Workers, PerTask!Yielded(w)
  PROVE  PerTaskInv'
<1>1. DecrementAgain(w, "unlist") /\ UNCHANGED threads
  BY PerTaskCounts DEF PerTask!Yielded
<1>2. UNCHANGED <<stage, job>>
  BY <1>1 DEF DecrementAgain
<1>3. /\ w \in Threads /\ WaiterInv(PerTaskLabels) /\ threads \in Seq(Workers)
      /\ pc \in [Threads -> {pc[u] : u \in Threads}]
  BY Kinds, PcType DEF PerTaskInv
<1>4. "unlist" \in Places(PerTaskLabels) /\ "unlist" \notin Waiting
  BY DEF Places, PerTaskLabels, Waiting
<1>5. WaiterInv(PerTaskLabels)' /\ \E l \in {"unlist", "d_yield"} : pc' = [pc EXCEPT ![w] = l]
  BY <1>1, <1>3, <1>4, AgainStep
<1>6. PICK l \in {"unlist", "d_yield"} : pc' = [pc EXCEPT ![w] = l]
  BY <1>5
<1>7. \A u \in Threads : pc'[u] = IF u = w THEN l ELSE pc[u]
  BY <1>3, <1>6
<1>8. \A u \in Threads : pc'[u] = pc[u] \/ pc'[u] \notin PerTaskJobs
  BY <1>7 DEF PerTaskJobs
<1>9. NoWorkerWaits'
  <2>1. \A v \in Workers : (pc'[v] = pc[v] /\ job'[v] = job[v]) \/ pc'[v] \in {"unlist", "d_yield"}
    BY <1>2, <1>7, Kinds
  <2> QED BY <2>1, PerTaskWorkers
<1>10. \A i \in Tasks : stage[i] \notin Ended => stage'[i] \notin Ended
  BY <1>2
<1> QED
  BY <1>1, <1>2, <1>3, <1>5, <1>8, <1>9, <1>10, PerTaskKept

LEMMA PerTaskStep ==
  ASSUME PerTaskInv, PerTask!Next
  PROVE  PerTaskInv'
<1>1. ASSUME NEW c \in Clients, PerTask!Serve(c) \/ PerTask!Choose(c)
      PROVE  PerTaskInv'
  <2>1. CASE /\ \/ PerTask!Wait(c) \/ PerTask!WaitCall(c) \/ PerTask!WaitExpire(c)
                \/ PerTask!InterruptClient(c)
             /\ UNCHANGED threads
    BY <2>1, PerTaskWaitStep
  <2>2. CASE PerTask!InterruptAll(c) \/ PerTask!InterruptEnd(c)
    BY <2>2, PerTaskQuietStep
  <2> QED BY <1>1, <2>1, <2>2, PerTaskCountStep, PerTaskSpawnStep, PerTaskFailsStep
          DEF PerTask!Serve, PerTask!Choose
<1>2. ASSUME NEW w \in Workers, PerTask!Work(w)
      PROVE  PerTaskInv'
  <2>1. CASE PerTask!Register(w) \/ PerTask!Enlist(w) \/ PerTask!Unlist(w)
    BY <2>1, PerTaskQuietStep
  <2> QED BY <1>2, <2>1, PerTaskEndStep, PerTaskAgainStep DEF PerTask!Work
<1> QED
  BY <1>1, <1>2, PerTaskNames DEF PerTask!Next

LEMMA PerTaskStart ==
  ASSUME PerTask!Init
  PROVE  PerTaskInv
<1>1. WaiterInit /\ threads = <<>> /\ \A w \in Workers : pc[w] = "unborn"
  BY PerTaskNames DEF PerTask!Init
<1>2. /\ pc \in [Threads -> {"idle", "unborn", "born"}] /\ job = [t \in Threads |-> 0]
      /\ \A c \in Clients : pc[c] = "idle"
  BY <1>1 DEF WaiterInit, ExecutorInit
<1>3. {"idle", "unborn", "born"} \subseteq Places(PerTaskLabels)
  BY DEF Places, PerTaskLabels
<1>4. \A t \in Threads : pc[t] \in {"idle", "unborn"}
  BY <1>1, <1>2 DEF Threads
<1>5. WaiterInv(PerTaskLabels)
  <2>1. pc \in [Threads -> Places(PerTaskLabels)]
    BY <1>2, <1>3
  <2> QED BY <1>1, <2>1, PerTaskApart, WaiterStart
<1>6. JobsInv(PerTaskJobs)
  BY <1>2, <1>4 DEF JobsInv, PerTaskJobs
<1>7. OwnInv /\ NoWorkerWaits
  BY <1>1 DEF OwnInv, NoWorkerWaits, Waiting
<1> QED
  BY <1>1, <1>5, <1>6, <1>7 DEF PerTaskInv

LEMMA PerTaskType ==
  ASSUME PerTaskInv
  PROVE  PerTask!TypeOK
  BY PerTaskNames DEF PerTaskInv, WaiterInv, PerTask!TypeOK, PerTaskLabels

-----------------------------------------------------------------------------
(* SynchronousExecutor *)

AtOnceLabels == {"e_lock", "run"}

AtOnceInv ==
  /\ ExecutorTypeOK(AtOnceLabels)
  /\ holder \in Submitters \cup Waiters \cup {0} /\ canceled \in BOOLEAN
  /\ \A c \in Clients : pc[c] = "e_lock" => c \in Submitters \cup Waiters
  /\ \A c \in Clients : result[c] = INVALID

LEMMA AtOnceNames ==
  /\ AtOnce!Clients = Clients /\ AtOnce!Tasks = Tasks /\ AtOnce!Workers = Workers
  /\ AtOnce!Threads = Threads /\ AtOnce!Flags = Flags
  /\ \A L : AtOnce!ExecutorTypeOK(L) <=> ExecutorTypeOK(L)
  /\ \A t, l : AtOnce!Goto(t, l) <=> Goto(t, l)
  /\ AtOnce!ExecutorInit <=> ExecutorInit
<1>1. AtOnce!Clients = Clients
  BY DEF AtOnce!Clients, Clients
<1> QED
  BY <1>1 DEF AtOnce!Tasks, Tasks, AtOnce!Workers, Workers, AtOnce!Threads, Threads,
     AtOnce!Flags, Flags, AtOnce!SIGNALED, SIGNALED, AtOnce!INTERRUPTED, INTERRUPTED,
     AtOnce!TIMEDOUT, TIMEDOUT, AtOnce!CANCELED, CANCELED, AtOnce!ExecutorTypeOK, ExecutorTypeOK,
     AtOnce!Stages, Stages, AtOnce!Waiting, Waiting, AtOnce!Goto, Goto,
     AtOnce!ExecutorInit, ExecutorInit

LEMMA AtOnceStatus ==
  /\ \A p, m : AtOnce!AfterInterrupt(p, m) = AfterInterrupt(p, m)
  /\ \A p : AtOnce!AfterIsInterrupted(p) = AfterIsInterrupted(p)
  /\ AtOnce!ANYTHING = ANYTHING
  BY DEF AtOnce!AfterInterrupt, AfterInterrupt, AtOnce!AfterIsInterrupted, AfterIsInterrupted,
     AtOnce!ANYTHING, ANYTHING, AtOnce!Interruptible, Interruptible, AtOnce!Pending, Pending,
     AtOnce!Flags, Flags, AtOnce!SIGNALED, SIGNALED, AtOnce!INTERRUPTED, INTERRUPTED,
     AtOnce!TIMEDOUT, TIMEDOUT, AtOnce!CANCELED, CANCELED

LEMMA AtOnceStep ==
  ASSUME AtOnceInv, AtOnce!Next, result' = result
  PROVE  AtOnceInv'
<1>1. PICK c \in Clients : AtOnce!Serve(c) \/ AtOnce!Work(c) \/ AtOnce!Choose(c)
  BY AtOnceNames DEF AtOnce!Next
<1>2. /\ stage \in [Tasks -> Stages] /\ job \in [Threads -> Tasks \cup {0}]
      /\ pending \in [Threads -> SUBSET Flags]
      /\ pc \in [Threads -> {"idle", "unborn"} \cup Waiting \cup AtOnceLabels] /\ c \in Threads
  BY Kinds DEF AtOnceInv, ExecutorTypeOK
<1>3. /\ stage' \in [Tasks -> Stages] /\ job' \in [Threads -> Tasks \cup {0}]
      /\ pending' \in [Threads -> SUBSET Flags]
      /\ holder' \in Submitters \cup Waiters \cup {0} /\ canceled' \in BOOLEAN
      /\ \E l \in {"idle", "unborn"} \cup Waiting \cup AtOnceLabels :
           pc' = [pc EXCEPT ![c] = l] /\ (l = "e_lock" /\ pc[c] # "e_lock" => c \in Submitters \cup Waiters)
  <2>1. CASE \E i \in Tasks : AtOnce!Execute(c, i)
    <3>1. PICK i \in Tasks : AtOnce!Execute(c, i)
      BY <2>1
    <3>2. /\ c \in Submitters \cup Waiters /\ stage' = [stage EXCEPT ![i] = "taken"]
          /\ job' = [job EXCEPT ![c] = i] /\ pc' = [pc EXCEPT ![c] = "e_lock"]
          /\ UNCHANGED <<pending, holder, canceled>>
      BY <3>1, AtOnceNames DEF AtOnce!Execute, Goto
    <3>3. "taken" \in Stages /\ "e_lock" \in AtOnceLabels
      BY DEF Stages, AtOnceLabels
    <3>4. stage' \in [Tasks -> Stages] /\ job' \in [Threads -> Tasks \cup {0}]
      BY <1>2, <3>2, <3>3
    <3>5. \E l \in {"idle", "unborn"} \cup Waiting \cup AtOnceLabels :
            pc' = [pc EXCEPT ![c] = l] /\ (l = "e_lock" /\ pc[c] # "e_lock" => c \in Submitters \cup Waiters)
      BY <3>2, <3>3
    <3> QED BY <1>2, <3>2, <3>4, <3>5 DEF AtOnceInv
  <2>2. CASE AtOnce!Run(c)
    <3>1. /\ pc[c] = "e_lock" /\ holder' = c /\ stage' = [stage EXCEPT ![job[c]] = "running"]
          /\ pc' = [pc EXCEPT ![c] = "run"] /\ UNCHANGED <<job, pending, canceled>>
      BY <2>2, AtOnceNames DEF AtOnce!Run, Goto
    <3>2. "running" \in Stages /\ "run" \in AtOnceLabels
      BY DEF Stages, AtOnceLabels
    <3>3. stage' \in [Tasks -> Stages] /\ c \in Submitters \cup Waiters
      BY <1>2, <3>1, <3>2 DEF AtOnceInv
    <3>4. \E l \in {"idle", "unborn"} \cup Waiting \cup AtOnceLabels :
            pc' = [pc EXCEPT ![c] = l] /\ (l = "e_lock" /\ pc[c] # "e_lock" => c \in Submitters \cup Waiters)
      BY <3>1, <3>2
    <3> QED BY <1>2, <3>1, <3>3, <3>4 DEF AtOnceInv
  <2>3. CASE \E how \in {"done", "rejected"} : AtOnce!Ends(c, how)
               /\ pending' \in [Threads -> SUBSET Flags] /\ holder' \in {holder, 0} /\ canceled' = canceled
    <3>1. PICK how \in {"done", "rejected"} :
            /\ stage' = [stage EXCEPT ![job[c]] = how] /\ job' = [job EXCEPT ![c] = 0]
            /\ pc' = [pc EXCEPT ![c] = "idle"]
            /\ pending' \in [Threads -> SUBSET Flags] /\ holder' \in {holder, 0} /\ canceled' = canceled
      BY <2>3, AtOnceNames DEF AtOnce!Ends, Goto
    <3>2. how \in Stages
      BY DEF Stages
    <3>3. stage' \in [Tasks -> Stages] /\ job' \in [Threads -> Tasks \cup {0}]
      BY <1>2, <3>1, <3>2
    <3>4. holder' \in Submitters \cup Waiters \cup {0} /\ canceled' \in BOOLEAN
      BY <3>1 DEF AtOnceInv
    <3>5. \E l \in {"idle", "unborn"} \cup Waiting \cup AtOnceLabels :
            pc' = [pc EXCEPT ![c] = l] /\ (l = "e_lock" /\ pc[c] # "e_lock" => c \in Submitters \cup Waiters)
      <4>1. "idle" \in {"idle", "unborn"} \cup Waiting \cup AtOnceLabels /\ "idle" # "e_lock"
        OBVIOUS
      <4>2. pc' = [pc EXCEPT ![c] = "idle"]
        BY <3>1
      <4> QED BY <4>1, <4>2
    <3> QED BY <3>1, <3>3, <3>4, <3>5
  <2>4. CASE AtOnce!DoubleCheck(c) \/ AtOnce!End(c)
    <3>1. \E how \in {"done", "rejected"} : AtOnce!Ends(c, how)
            /\ pending' \in [Threads -> SUBSET Flags] /\ holder' \in {holder, 0} /\ canceled' = canceled
      BY <1>2, <2>4 DEF AtOnce!DoubleCheck, AtOnce!End
    <3> QED BY <2>3, <3>1
  <2>5. CASE AtOnce!Interrupted(c)
    <3>1. /\ pending' = [pending EXCEPT ![c] = @ \ {INTERRUPTED}]
          /\ UNCHANGED <<holder, canceled>>
          /\ \/ AtOnce!Ends(c, "rejected")
             \/ pc' = [pc EXCEPT ![c] = "idle"] /\ UNCHANGED <<stage, job>>
      BY <2>5, AtOnceNames DEF AtOnce!Interrupted, Goto, AtOnce!INTERRUPTED, INTERRUPTED
    <3>2. pending' \in [Threads -> SUBSET Flags]
      BY <1>2, <3>1
    <3>3. CASE AtOnce!Ends(c, "rejected")
      BY <2>3, <3>1, <3>2, <3>3
    <3>4. CASE pc' = [pc EXCEPT ![c] = "idle"] /\ UNCHANGED <<stage, job>>
      BY <1>2, <3>1, <3>2, <3>4 DEF AtOnceInv
    <3> QED BY <3>1, <3>3, <3>4
  <2>6. CASE AtOnce!WaitCall(c) \/ AtOnce!WaitReturn(c)
    <3>1. /\ \E l \in {"idle", "w_enter"} : pc' = [pc EXCEPT ![c] = l]
          /\ UNCHANGED <<stage, job, pending, holder, canceled>>
      BY <2>6, AtOnceNames DEF AtOnce!WaitCall, AtOnce!WaitReturn, Goto
    <3> QED BY <1>2, <3>1 DEF AtOnceInv, Waiting
  <2>7. CASE AtOnce!WaitThrows(c) \/ AtOnce!InterruptClient(c) \/ AtOnce!Cancel(c)
    <3>1. /\ pending' \in [Threads -> SUBSET Flags] /\ canceled' \in BOOLEAN
          /\ UNCHANGED <<stage, job, pc, holder>>
      <4>1. AfterIsInterrupted(pending[c]) \in SUBSET Flags /\ AfterInterrupt(pending[c], ANYTHING) \in SUBSET Flags
        BY <1>2, StatusTypes
      <4> QED BY <1>2, <2>7, <4>1, AtOnceStatus
              DEF AtOnceInv, AtOnce!WaitThrows, AtOnce!InterruptClient, AtOnce!Cancel, AtOnce!executorVars
    <3>2. pc' = [pc EXCEPT ![c] = pc[c]]
      BY <1>2, <3>1
    <3> QED BY <1>2, <3>1, <3>2 DEF AtOnceInv
  <2>8. \/ \E i \in Tasks : AtOnce!Execute(c, i)
        \/ AtOnce!Run(c) \/ AtOnce!DoubleCheck(c) \/ AtOnce!End(c) \/ AtOnce!Interrupted(c)
        \/ AtOnce!WaitCall(c) \/ AtOnce!WaitReturn(c)
        \/ AtOnce!WaitThrows(c) \/ AtOnce!InterruptClient(c) \/ AtOnce!Cancel(c)
    BY <1>1, AtOnceNames DEF AtOnce!Serve, AtOnce!Work, AtOnce!Choose
  <2> QED BY <2>1, <2>2, <2>4, <2>5, <2>6, <2>7, <2>8
<1>4. PICK l \in {"idle", "unborn"} \cup Waiting \cup AtOnceLabels :
        pc' = [pc EXCEPT ![c] = l] /\ (l = "e_lock" /\ pc[c] # "e_lock" => c \in Submitters \cup Waiters)
  BY <1>3
<1>5. pc' \in [Threads -> {"idle", "unborn"} \cup Waiting \cup AtOnceLabels]
  BY <1>2, <1>4
<1>6. \A d \in Clients : pc'[d] = "e_lock" => d \in Submitters \cup Waiters
  BY <1>2, <1>4, Kinds DEF AtOnceInv
<1>7. \A d \in Clients : result'[d] = INVALID
  BY DEF AtOnceInv
<1>8. ExecutorTypeOK(AtOnceLabels)'
  BY <1>3, <1>5 DEF ExecutorTypeOK, Tasks, Stages, Threads, Clients, Workers, Flags, SIGNALED,
     INTERRUPTED, TIMEDOUT, CANCELED, Waiting, AtOnceLabels
<1> QED
  BY <1>3, <1>6, <1>7, <1>8 DEF AtOnceInv, Clients, INVALID, AtOnceLabels

LEMMA AtOnceStart ==
  ASSUME AtOnce!Init, WaiterInit
  PROVE  AtOnceInv
<1>1. /\ ExecutorInit /\ holder = 0 /\ canceled = FALSE /\ \A w \in Workers : pc[w] = "unborn"
      /\ \A c \in Clients : result[c] = INVALID
  BY AtOnceNames DEF AtOnce!Init, WaiterInit
<1>2. \A c \in Clients : pc[c] = "idle"
  BY <1>1 DEF ExecutorInit
<1>3. ExecutorTypeOK(AtOnceLabels)
  <2>1. \A t \in Threads : pc[t] \in {"idle", "unborn"}
    BY <1>1, <1>2 DEF Threads
  <2>2. pc \in [Threads -> {"idle", "unborn"}]
    BY <1>1, <2>1 DEF ExecutorInit
  <2> QED BY <1>1, <2>2 DEF ExecutorInit, ExecutorTypeOK, Stages
<1> QED
  BY <1>1, <1>2, <1>3 DEF AtOnceInv

LEMMA AtOnceType ==
  ASSUME AtOnceInv
  PROVE  AtOnce!TypeOK
  BY AtOnceNames DEF AtOnceInv, AtOnce!TypeOK, AtOnceLabels

-----------------------------------------------------------------------------
(* The three executors *)

IInv ==
  /\ executor \in {"Pool", "Threaded", "Synchronous"}
  /\ executor = "Pool" => PoolInv
  /\ executor = "Threaded" => PerTaskInv
  /\ executor = "Synchronous" => AtOnceInv

LEMMA Start ==
  ASSUME Init
  PROVE  IInv
  BY PoolStart, PerTaskStart, AtOnceStart DEF Init, IInv

LEMMA Step ==
  ASSUME IInv, [Next]_vars
  PROVE  IInv' /\ (executor = "Pool" => Pool!CleanSlateStep \/ UNCHANGED vars)
<1>1. CASE executor = "Pool" /\ Pool!Next /\ UNCHANGED RestOfPool
  BY <1>1, PoolStep DEF IInv, RestOfPool
<1>2. CASE executor = "Threaded" /\ PerTask!Next /\ UNCHANGED RestOfThreaded
  BY <1>2, PerTaskStep DEF IInv, RestOfThreaded
<1>3. CASE executor = "Synchronous" /\ AtOnce!Next /\ UNCHANGED RestOfSynchronous
  BY <1>3, AtOnceStep DEF IInv, RestOfSynchronous
<1>4. CASE UNCHANGED vars
  <2>1. /\ UNCHANGED <<executor, groups, freshId, generation, group, since, result, awaited,
                       earlier, repeated>>
        /\ UNCHANGED <<stage, job, pending, pc, trouble, taskQueue, canceled, threads, size,
                       left, holder>>
    BY <1>4 DEF vars, waiterVars, calls, executorVars, own
  <2>2. PoolInv => PoolInv'
    <3> SUFFICES ASSUME PoolInv PROVE PoolInv'
      OBVIOUS
    <3>1. /\ WaiterInv(PoolLabels)
          /\ pc \in [Threads -> Places(PoolLabels) \cup Waiting]
          /\ pending \in [Threads -> SUBSET Flags]
          /\ stage \in [Tasks -> Stages] /\ job \in [Threads -> Tasks \cup {0}]
          /\ since \in [Tasks -> Nat] /\ generation \in Nat
      BY InvTypes DEF PoolInv
    <3>2. PoolTypes' /\ SpawnInv'
      BY <2>1 DEF PoolInv, PoolTypes, SpawnInv, Clients, Tasks, Workers
    <3>3. generation' >= generation /\ generation' \in Nat
      BY <2>1, <3>1
    <3>4. UNCHANGED <<groups, freshId, group, since, result, calls, trouble>>
      BY <2>1 DEF calls
    <3> QED BY <2>1, <3>1, <3>2, <3>3, <3>4, PoolOther DEF PoolInv
  <2>3. PerTaskInv => PerTaskInv'
    <3> SUFFICES ASSUME PerTaskInv PROVE PerTaskInv'
      OBVIOUS
    <3>1. /\ WaiterInv(PerTaskLabels)
          /\ pc \in [Threads -> Places(PerTaskLabels) \cup Waiting]
          /\ pending \in [Threads -> SUBSET Flags]
          /\ stage \in [Tasks -> Stages] /\ job \in [Threads -> Tasks \cup {0}]
          /\ since \in [Tasks -> Nat] /\ generation \in Nat
      BY InvTypes DEF PerTaskInv
    <3>2. WaiterInv(PerTaskLabels)'
      <4>1. UNCHANGED <<groups, freshId, group, result, calls, trouble>>
        BY <2>1 DEF calls
      <4> QED BY <2>1, <3>1, <4>1, OtherStep
    <3>3. NoWorkerWaits' /\ threads' \in Seq(Workers)
      BY <2>1 DEF PerTaskInv, NoWorkerWaits, Workers, Tasks, Waiting
    <3> QED BY <2>1, <3>2, <3>3, PerTaskKept
  <2>4. AtOnceInv => AtOnceInv'
    BY <2>1 DEF AtOnceInv, ExecutorTypeOK, Tasks, Stages, Threads, Clients, Workers, Flags,
       SIGNALED, INTERRUPTED, TIMEDOUT, CANCELED, INVALID, Waiting, AtOnceLabels
  <2> QED BY <1>4, <2>1, <2>2, <2>3, <2>4 DEF IInv
<1> QED
  BY <1>1, <1>2, <1>3, <1>4 DEF Next

LEMMA Means ==
  ASSUME IInv
  PROVE  CountsExact /\ WaitMeansDone
<1>1. CASE executor = "Pool"
  <2>1. WaiterInv(PoolLabels)
    BY <1>1 DEF IInv, PoolInv
  <2>2. TypeOK
    BY <1>1, PoolType DEF IInv, TypeOK
  <2>3. CountsMatch /\ GroupsStay
    BY <2>1, ExactMeans DEF WaiterInv
  <2>4. WaitMeansDone
    BY <2>1 DEF WaiterInv, WaitMeansDone, WaitsForAll, ToldRightly, ToldInv, Told
  <2> QED BY <2>2, <2>3, <2>4 DEF CountsExact
<1>2. CASE executor = "Threaded"
  <2>1. WaiterInv(PerTaskLabels)
    BY <1>2 DEF IInv, PerTaskInv
  <2>2. TypeOK
    BY <1>2, PerTaskType DEF IInv, TypeOK
  <2>3. CountsMatch /\ GroupsStay
    BY <2>1, ExactMeans DEF WaiterInv
  <2>4. WaitMeansDone
    BY <2>1 DEF WaiterInv, WaitMeansDone, WaitsForAll, ToldRightly, ToldInv, Told
  <2> QED BY <2>2, <2>3, <2>4 DEF CountsExact
<1>3. CASE executor = "Synchronous"
  <2>1. TypeOK
    BY <1>3, AtOnceType DEF IInv, TypeOK
  <2>2. WaitMeansDone
    BY <1>3 DEF IInv, AtOnceInv, WaitMeansDone, WaitsForAll, ToldRightly, INVALID, SIGNALED
  <2> QED BY <1>3, <2>1, <2>2 DEF CountsExact
<1> QED
  BY <1>1, <1>2, <1>3 DEF IInv

\* In every executor, of any size and with any number of tasks and clients, each group counts
\* exactly the tasks that joined it and have not been counted off, whatever became of them, and
\* no group is removed as long as one of its tasks is under way: the assertion in decrement()
\* (PoolExecutor.cxx:213) cannot fail, not even when two groups have got the same id.
THEOREM TasksCounted == Spec => []CountsExact
<1>1. Init => IInv
  BY Start
<1>2. IInv /\ [Next]_vars => IInv'
  BY Step
<1>3. IInv => CountsExact
  BY Means
<1> QED
  BY <1>1, <1>2, <1>3, PTL DEF Spec

\* As long as no group has got the id of another, a wait() that ends neither interrupted nor
\* out of time ends when all the tasks have ended that had been submitted before, unless the
\* thread came with a signal that an earlier wait() of its own, cut short, has left behind.
THEOREM WaitersToldRightly == Spec => []WaitMeansDone
<1>1. Init => IInv
  BY Start
<1>2. IInv /\ [Next]_vars => IInv'
  BY Step
<1>3. IInv => WaitMeansDone
  BY Means
<1> QED
  BY <1>1, <1>2, <1>3, PTL DEF Spec

\* A thread of a pool never begins a task that was submitted after the last interrupt() with
\* an interruption pending, whenever and however often the pool is interrupted.
THEOREM FreshStart == Spec => CleanSlate
<1>1. Init => IInv
  BY Start
<1>2. IInv /\ [Next]_vars => IInv'
  BY Step
<1>3. IInv /\ [Next]_vars => [executor = "Pool" => Pool!CleanSlateStep]_vars
  BY Step
<1> QED
  BY <1>1, <1>2, <1>3, PTL DEF Spec, CleanSlate

=============================================================================
