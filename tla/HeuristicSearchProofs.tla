------------------------ MODULE HeuristicSearchProofs ------------------------
(***************************************************************************)
(* Proofs about the search of one request, for any finite sets of tokens    *)
(* and pools, any snapshots and any valid configurations.                   *)
(***************************************************************************)
EXTENDS HeuristicSearch, FiniteSetTheorems, TLAPS

------------------------------------------------------------------------------
(* Numbers *)

\* Induction over the natural numbers, for a set.
LEMMA SetInduction ==
  ASSUME NEW S, 0 \in S, \A n \in Nat : n \in S => n + 1 \in S
  PROVE  \A n \in Nat : n \in S
<1> SUFFICES ASSUME NEW m \in Nat, m \notin S
             PROVE  FALSE
  OBVIOUS
<1> DEFINE T == {x \in 0 .. m : x \notin S}
           f == [x \in T |-> x - 1]
<1>1. IsFiniteSet(T)
  <2>1. T \in SUBSET (0 .. m) /\ IsFiniteSet(0 .. m)
    BY FS_Interval
  <2> QED
    BY <2>1, FS_Subset
<1>2. m \in T
  OBVIOUS
<1>3. \A x \in T : x - 1 \in T \ {m}
  <2> SUFFICES ASSUME NEW x \in T
               PROVE  x - 1 \in T \ {m}
    OBVIOUS
  <2>1. x \in Nat /\ x # 0 /\ x <= m /\ x \notin S
    OBVIOUS
  <2>2. x - 1 \in Nat /\ (x - 1) + 1 = x
    BY <2>1
  <2> QED
    BY <2>1, <2>2
<1>4. f \in [T -> T \ {m}]
  BY <1>3
<1>5. IsFiniteSet(T \ {m}) /\ Cardinality(T \ {m}) = Cardinality(T) - 1 /\ Cardinality(T) \in Nat
  BY <1>1, <1>2, FS_RemoveElement, FS_CardinalityType
<1>6. PICK x, y \in T : x # y /\ f[x] = f[y]
  <2> HIDE DEF f, T
  <2> QED
    BY <1>1, <1>4, <1>5, FS_PigeonHole
<1> QED
  BY <1>6

\* A set of numbers that has one has a least one.
LEMMA LeastNumber ==
  ASSUME NEW N \in SUBSET Nat, N # {}
  PROVE  \E x \in N : \A y \in N : x <= y
<1> SUFFICES ASSUME \A x \in N : \E y \in N : y < x
             PROVE  FALSE
  OBVIOUS
<1> DEFINE S == {n \in Nat : \A x \in N : n <= x}
<1>1. 0 \in S
  OBVIOUS
<1>2. ASSUME NEW n \in Nat, n \in S
      PROVE  n + 1 \in S
  <2>1. n \notin N
    BY <1>2
  <2> QED
    BY <1>2, <2>1
<1>3. \A n \in Nat : n \in S
  <2> HIDE DEF S
  <2> QED
    BY <1>1, <1>2, SetInduction
<1>4. PICK x : x \in N
  OBVIOUS
<1>5. x \in Nat /\ x + 1 \in Nat
  BY <1>4
<1>6. x + 1 \in S
  BY <1>3, <1>5
<1>7. x + 1 <= x
  BY <1>4, <1>6
<1> QED
  BY <1>5, <1>7

\* A finite set of numbers has a greatest one.
LEMMA FiniteHasMax ==
  ASSUME NEW Q \in SUBSET Nat, IsFiniteSet(Q), Q # {}
  PROVE  \E m \in Q : \A n \in Q : n <= m
<1>1. PICK z \in Nat : ExistsSurjection(1 .. z, Q)
  BY FS_NatSurjection
<1>2. PICK f \in [1 .. z -> Q] : \A q \in Q : \E i \in 1 .. z : f[i] = q
  BY <1>1 DEF ExistsSurjection, Surjection
<1>a. \A i \in 1 .. z : f[i] \in Nat
  BY <1>2
<1> DEFINE S == {j \in Nat : j = 0 \/ j > z \/ \E m \in 1 .. j : \A i \in 1 .. j : f[i] <= f[m]}
<1>3. 0 \in S
  OBVIOUS
<1>4. ASSUME NEW j \in Nat, j \in S
      PROVE  j + 1 \in S
  <2>1. CASE j + 1 > z
    BY <2>1
  <2>2. CASE j = 0 /\ j + 1 <= z
    <3>0. 1 \in 1 .. z
      BY <2>2
    <3>1. f[1] \in Nat
      BY <1>a, <3>0
    <3>2. \A i \in 1 .. 1 : f[i] <= f[1]
      BY <3>1
    <3> QED
      BY <2>2, <3>2
  <2>3. CASE j # 0 /\ j + 1 <= z
    <3>1. PICK m \in 1 .. j : \A i \in 1 .. j : f[i] <= f[m]
      BY <1>4, <2>3
    <3>2. \A i \in 1 .. (j + 1) : f[i] \in Nat
      <4>1. \A i \in 1 .. (j + 1) : i \in 1 .. z
        BY <2>3
      <4> QED
        BY <1>a, <4>1
    <3>3. CASE f[j + 1] <= f[m]
      <4>1. m \in 1 .. (j + 1) /\ \A i \in 1 .. (j + 1) : f[i] <= f[m]
        BY <3>1, <3>3
      <4> QED
        BY <4>1
    <3>4. CASE ~(f[j + 1] <= f[m])
      <4>1. \A i \in 1 .. j : f[i] <= f[j + 1]
        BY <3>1, <3>2, <3>4
      <4>2. j + 1 \in 1 .. (j + 1) /\ \A i \in 1 .. (j + 1) : f[i] <= f[j + 1]
        BY <3>2, <4>1
      <4> QED
        BY <4>2
    <3> QED
      BY <3>3, <3>4
  <2> QED
    BY <2>1, <2>2, <2>3
<1>5. z \in S
  <2> HIDE DEF S
  <2> QED
    BY <1>3, <1>4, SetInduction
<1>6. z # 0
  <2>1. PICK q \in Q : TRUE
    OBVIOUS
  <2>2. PICK i \in 1 .. z : f[i] = q
    BY <1>2
  <2> QED
    BY <2>2
<1>7. PICK m \in 1 .. z : \A i \in 1 .. z : f[i] <= f[m]
  BY <1>5, <1>6
<1> QED
  BY <1>2, <1>7

\* The lesser of two numbers.
LEMMA MinOfTwo ==
  ASSUME NEW a \in Nat, NEW b \in Nat
  PROVE  Min({a, b}) \in {a, b} /\ Min({a, b}) <= a /\ Min({a, b}) <= b
<1>1. \E x \in {a, b} : \A y \in {a, b} : x =< y
  OBVIOUS
<1> QED
  BY <1>1 DEF Min

------------------------------------------------------------------------------
(* Sorting *)

Distinct(s) == \A i, j \in DOMAIN s : s[i] = s[j] => i = j

\* The keys of S are m numbers each, and no two elements have the same.
Keyed(S, key, m) ==
  /\ \A x \in S : DOMAIN key[x] = 1 .. m /\ \A k \in 1 .. m : key[x][k] \in Int
  /\ \A x, y \in S : x # y => \E k \in 1 .. m : key[x][k] # key[y][k]

\* Then their lexicographic order is total.
LEMMA AboveTotal ==
  ASSUME NEW S, NEW key, NEW m \in Nat, Keyed(S, key, m), NEW x \in S, NEW y \in S, x # y
  PROVE  Above(key[x], key[y]) \/ Above(key[y], key[x])
<1> DEFINE D == {k \in 1 .. m : key[x][k] # key[y][k]}
<1>1. D # {} /\ D \in SUBSET Nat
  BY DEF Keyed
<1>2. PICK i \in D : \A k \in D : i <= k
  <2> HIDE DEF D
  <2> QED
    BY <1>1, LeastNumber
<1>3. i \in 1 .. m /\ key[x][i] # key[y][i] /\ key[x][i] \in Int /\ key[y][i] \in Int
  BY <1>2 DEF Keyed
<1>4. \A j \in 1 .. (i - 1) : key[x][j] = key[y][j]
  BY <1>2, <1>3
<1>5. i \in DOMAIN key[x] /\ i \in DOMAIN key[y]
  BY <1>3 DEF Keyed
<1> HIDE DEF D
<1>6. key[x][i] > key[y][i] \/ key[y][i] > key[x][i]
  BY <1>3
<1> QED
  BY <1>4, <1>5, <1>6 DEF Above

\* No key is above itself.
LEMMA AboveIrreflexive ==
  ASSUME NEW S, NEW key, NEW m \in Nat, Keyed(S, key, m), NEW x \in S
  PROVE  ~Above(key[x], key[x])
<1> SUFFICES ASSUME NEW i \in DOMAIN key[x], key[x][i] > key[x][i]
             PROVE  FALSE
  BY DEF Above
<1>1. key[x][i] \in Int
  BY DEF Keyed
<1> QED
  BY <1>1

\* Above orders keys of one length.
LEMMA AboveTransitive ==
  ASSUME NEW S, NEW key, NEW m \in Nat, Keyed(S, key, m), NEW x \in S, NEW y \in S, NEW z \in S,
         Above(key[x], key[y]), Above(key[y], key[z])
  PROVE  Above(key[x], key[z])
<1>1. PICK i \in DOMAIN key[x] : key[x][i] > key[y][i] /\ \A k \in 1 .. (i - 1) : key[x][k] = key[y][k]
  BY DEF Above
<1>2. PICK j \in DOMAIN key[y] : key[y][j] > key[z][j] /\ \A k \in 1 .. (j - 1) : key[y][k] = key[z][k]
  BY DEF Above
<1>3. i \in 1 .. m /\ j \in 1 .. m /\ i \in DOMAIN key[x] /\ j \in DOMAIN key[x]
  BY <1>1, <1>2 DEF Keyed
<1>4. /\ key[x][i] \in Int /\ key[y][i] \in Int /\ key[z][i] \in Int
      /\ key[x][j] \in Int /\ key[y][j] \in Int /\ key[z][j] \in Int
  BY <1>3 DEF Keyed
<1>5. CASE i <= j
  <2>1. \A k \in 1 .. (i - 1) : k \in 1 .. (j - 1)
    BY <1>3, <1>5
  <2>2. \A k \in 1 .. (i - 1) : key[x][k] = key[z][k]
    BY <1>1, <1>2, <2>1
  <2>3. key[x][i] > key[z][i]
    <3>1. CASE i = j
      BY <1>1, <1>2, <1>4, <3>1
    <3>2. CASE i # j
      <4>1. i \in 1 .. (j - 1)
        BY <1>3, <1>5, <3>2
      <4> QED
        BY <1>1, <1>2, <1>4, <4>1
    <3> QED
      BY <3>1, <3>2
  <2> QED
    BY <1>3, <2>2, <2>3 DEF Above
<1>6. CASE j < i
  <2>1. \A k \in 1 .. (j - 1) : k \in 1 .. (i - 1)
    BY <1>3, <1>6
  <2>2. \A k \in 1 .. (j - 1) : key[x][k] = key[z][k]
    BY <1>1, <1>2, <2>1
  <2>3. j \in 1 .. (i - 1)
    BY <1>3, <1>6
  <2>4. key[x][j] > key[z][j]
    BY <1>1, <1>2, <1>4, <2>3
  <2> QED
    BY <1>3, <2>2, <2>4 DEF Above
<1> QED
  BY <1>3, <1>5, <1>6

\* Sorted lists every element of S once, from the greatest key down.
LEMMA SortedLists ==
  ASSUME NEW S, IsFiniteSet(S), NEW key, NEW m \in Nat, Keyed(S, key, m)
  PROVE  /\ Sorted(S, key) \in Seq(S) /\ DOMAIN Sorted(S, key) = 1 .. Cardinality(S)
         /\ Distinct(Sorted(S, key)) /\ Cardinality(S) \in Nat
         /\ \A i, j \in DOMAIN Sorted(S, key) :
              i < j => Above(key[Sorted(S, key)[i]], key[Sorted(S, key)[j]])
<1> DEFINE n == Cardinality(S)
           above(x) == {y \in S : Above(key[y], key[x])}
           rk(x) == Cardinality(above(x))
           f == [x \in S |-> rk(x) + 1]
<1>1. n \in Nat
  BY FS_CardinalityType
<1>2. ASSUME NEW x \in S
      PROVE  IsFiniteSet(above(x)) /\ rk(x) \in Nat /\ rk(x) < n
  <2>1. x \notin above(x)
    BY AboveIrreflexive
  <2>2. above(x) \in SUBSET S
    OBVIOUS
  <2> HIDE DEF above
  <2>3. IsFiniteSet(above(x)) /\ rk(x) <= n /\ rk(x) # n
    BY <2>1, <2>2, FS_Subset
  <2>4. rk(x) \in Nat
    BY <2>3, FS_CardinalityType
  <2> HIDE DEF rk, n
  <2> QED
    BY <1>1, <2>3, <2>4
<1>3. ASSUME NEW x \in S, NEW y \in S, Above(key[x], key[y])
      PROVE  rk(x) < rk(y)
  <2>1. above(x) \in SUBSET above(y)
    BY <1>3, AboveTransitive
  <2>2. x \in above(y) /\ x \notin above(x)
    BY <1>3, AboveIrreflexive
  <2>3. IsFiniteSet(above(y)) /\ rk(x) \in Nat /\ rk(y) \in Nat
    BY <1>2
  <2> HIDE DEF above
  <2>4. rk(x) <= rk(y) /\ rk(x) # rk(y)
    BY <2>1, <2>2, <2>3, FS_Subset
  <2> HIDE DEF rk
  <2> QED
    BY <2>3, <2>4
<1> HIDE DEF rk
<1>4. \A x, y \in S : rk(x) = rk(y) => x = y
  <2> SUFFICES ASSUME NEW x \in S, NEW y \in S, rk(x) = rk(y), x # y
               PROVE  FALSE
    OBVIOUS
  <2>1. Above(key[x], key[y]) \/ Above(key[y], key[x])
    BY AboveTotal
  <2>2. rk(x) \in Nat /\ rk(y) \in Nat
    BY <1>2
  <2>3. rk(x) < rk(y) \/ rk(y) < rk(x)
    BY <1>3, <2>1
  <2> QED
    BY <2>2, <2>3
<1>5. f \in Injection(S, 1 .. n)
  <2>1. ASSUME NEW x \in S
        PROVE  f[x] = rk(x) + 1 /\ f[x] \in 1 .. n
    <3>1. rk(x) \in Nat /\ rk(x) < n
      BY <1>2
    <3> HIDE DEF n
    <3> QED
      BY <1>1, <3>1
  <2>2. f \in [S -> 1 .. n]
    <3>1. f = [x \in S |-> f[x]]
      OBVIOUS
    <3> HIDE DEF f, n
    <3> QED
      BY <2>1, <3>1
  <2>3. \A x, y \in S : f[x] = f[y] => x = y
    <3> SUFFICES ASSUME NEW x \in S, NEW y \in S, f[x] = f[y]
                 PROVE  x = y
      OBVIOUS
    <3>1. rk(x) \in Nat /\ rk(y) \in Nat /\ f[x] = rk(x) + 1 /\ f[y] = rk(y) + 1
      BY <1>2
    <3>2. rk(x) + 1 = rk(y) + 1
      <4> HIDE DEF f
      <4> QED
        BY <3>1
    <3>3. rk(x) = rk(y)
      <4> HIDE DEF f, n, above
      <4> QED
        BY <3>1, <3>2
    <3> QED
      BY <1>4, <3>3
  <2> HIDE DEF f, n
  <2> QED
    BY <2>2, <2>3 DEF Injection, IsInjective
<1>6. \A i \in 1 .. n : \E x \in S : rk(x) = i - 1
  <2>1. IsFiniteSet(1 .. n) /\ Cardinality(1 .. n) = n
    BY <1>1, FS_Interval
  <2>2. f \in Surjection(S, 1 .. n)
    <3> HIDE DEF f
    <3> QED
      BY <1>5, <2>1, FS_Injection
  <2>3. ASSUME NEW i \in 1 .. n
        PROVE  \E x \in S : rk(x) = i - 1
    <3>1. PICK x \in S : f[x] = i
      <4> HIDE DEF f
      <4> QED
        BY <2>2 DEF Surjection
    <3>2. rk(x) \in Nat /\ rk(x) + 1 = i
      BY <1>2, <3>1
    <3>3. rk(x) = i - 1
      BY <3>2
    <3> QED
      BY <3>3
  <2> QED
    BY <2>3
<1> DEFINE pair(x) == <<x, key[x]>>
           keyed == {pair(x) : x \in S}
           over(e) == {d \in keyed : Above(d[2], e[2])}
           place(e) == Cardinality(over(e))
           nth(i) == CHOOSE e \in keyed : place(e) = i - 1
           s == Sorted(S, key)
<1>7. ASSUME NEW x \in S
      PROVE  place(pair(x)) = rk(x)
  <2> DEFINE A == above(x)
             B == over(pair(x))
             h == [y \in A |-> pair(y)]
  <2>1. IsFiniteSet(A)
    BY <1>2
  <2>2. ASSUME NEW y \in A
        PROVE  h[y] \in B /\ h[y][1] = y
    <3>1. pair(y) \in keyed /\ pair(y)[1] = y /\ pair(y)[2] = key[y] /\ pair(x)[2] = key[x]
      OBVIOUS
    <3>2. Above(pair(y)[2], pair(x)[2])
      BY <3>1
    <3> QED
      BY <3>1, <3>2
  <2>3. ASSUME NEW d \in B
        PROVE  \E y \in A : h[y] = d
    <3>1. PICK y \in S : d = pair(y)
      OBVIOUS
    <3>2. Above(key[y], key[x])
      BY <3>1
    <3> QED
      BY <3>1, <3>2
  <2>4. h = [y \in A |-> h[y]]
    OBVIOUS
  <2> HIDE DEF A, B, h
  <2>5. h \in [A -> B]
    BY <2>2, <2>4
  <2>6. \A y, z \in A : h[y] = h[z] => y = z
    BY <2>2
  <2>7. h \in Bijection(A, B)
    BY <2>3, <2>5, <2>6 DEF Bijection, Injection, Surjection, IsInjective
  <2>8. Cardinality(B) = Cardinality(A)
    BY <2>1, <2>7, FS_Bijection DEF ExistsBijection
  <2> QED
    BY <2>8 DEF A, B, rk
<1> HIDE DEF place
<1>a. s = [i \in 1 .. n |-> nth(i)[1]]
  BY DEF Sorted, place
<1> HIDE DEF s, n
<1>8. ASSUME NEW i \in 1 .. n
      PROVE  s[i] \in S /\ rk(s[i]) = i - 1
  <2>1. PICK x \in S : rk(x) = i - 1
    BY <1>6
  <2>2. place(pair(x)) = i - 1 /\ pair(x) \in keyed
    BY <1>7, <2>1
  <2>3. PICK c : c = nth(i)
    OBVIOUS
  <2>4. c \in keyed /\ place(c) = i - 1
    BY <2>2, <2>3
  <2>5. PICK y \in S : c = pair(y)
    BY <2>4
  <2>6. rk(y) = i - 1
    BY <1>7, <2>4, <2>5
  <2> HIDE DEF nth
  <2>7. s[i] = c[1]
    BY <1>a, <2>3
  <2>8. s[i] = y
    BY <2>5, <2>7
  <2> QED
    BY <2>6, <2>8
<1> HIDE DEF nth
<1>9. DOMAIN s = 1 .. n /\ s = [i \in 1 .. n |-> s[i]]
  BY <1>a
<1>10. s \in Seq(S)
  BY <1>1, <1>8, <1>9
<1>11. Distinct(s)
  <2> SUFFICES ASSUME NEW i \in 1 .. n, NEW j \in 1 .. n, s[i] = s[j]
               PROVE  i = j
    BY <1>9 DEF Distinct
  <2>1. i - 1 = j - 1
    BY <1>8
  <2> QED
    BY <2>1
<1>12. ASSUME NEW i \in 1 .. n, NEW j \in 1 .. n, i < j
       PROVE  Above(key[s[i]], key[s[j]])
  <2>1. s[i] \in S /\ s[j] \in S /\ rk(s[i]) = i - 1 /\ rk(s[j]) = j - 1
    BY <1>8
  <2>2. s[i] # s[j]
    BY <1>12, <2>1
  <2>3. Above(key[s[i]], key[s[j]]) \/ Above(key[s[j]], key[s[i]])
    BY <2>1, <2>2, AboveTotal
  <2>4. ~Above(key[s[j]], key[s[i]])
    <3> SUFFICES ASSUME Above(key[s[j]], key[s[i]])
                 PROVE  FALSE
      OBVIOUS
    <3>1. rk(s[j]) < rk(s[i])
      BY <1>3, <2>1
    <3> QED
      BY <1>12, <2>1, <3>1
  <2> QED
    BY <2>3, <2>4
<1> QED
  BY <1>1, <1>9, <1>10, <1>11, <1>12 DEF s, n

\* The first n elements of a list.
LEMMA TakeOf ==
  ASSUME NEW T, NEW s \in Seq(T), NEW n \in Nat
  PROVE  /\ Take(s, n) \in Seq(T) /\ DOMAIN Take(s, n) \subseteq DOMAIN s
         /\ \A i \in DOMAIN Take(s, n) : Take(s, n)[i] = s[i]
         /\ DOMAIN Take(s, n) \subseteq 1 .. n
         /\ Distinct(s) => Distinct(Take(s, n))
<1> DEFINE l == Min({n, Len(s)})
<1>1. Len(s) \in Nat /\ DOMAIN s = 1 .. Len(s)
  OBVIOUS
<1>2. l \in Nat /\ l <= Len(s) /\ l <= n
  BY <1>1, MinOfTwo
<1>3. Take(s, n) = SubSeq(s, 1, l)
  BY DEF Take
<1> HIDE DEF l
<1>4. /\ SubSeq(s, 1, l) \in Seq(T) /\ DOMAIN SubSeq(s, 1, l) = 1 .. l
      /\ \A i \in 1 .. l : SubSeq(s, 1, l)[i] = s[i]
  BY <1>1, <1>2
<1>5. DOMAIN Take(s, n) \subseteq DOMAIN s
  BY <1>1, <1>2, <1>3, <1>4
<1> QED
  BY <1>2, <1>3, <1>4, <1>5 DEF Distinct

\* r is a list of different places of s.
Places(r, s, order, n) ==
  /\ n \in Nat /\ DOMAIN order = 1 .. n /\ r = [k \in 1 .. n |-> s[order[k]]]
  /\ \A k \in 1 .. n : order[k] \in DOMAIN s
  /\ Distinct(order)

\* A list of different places of another list.
LEMMA PlacesOf ==
  ASSUME NEW T, NEW s \in Seq(T), NEW r, NEW order, NEW n, Places(r, s, order, n)
  PROVE  r \in Seq(T) /\ DOMAIN r = 1 .. n /\ (Distinct(s) => Distinct(r))
<1>1. n \in Nat /\ DOMAIN r = 1 .. n
  BY DEF Places
<1>2. \A k \in 1 .. n : order[k] \in DOMAIN s /\ r[k] = s[order[k]]
  BY DEF Places
<1>3. \A k \in 1 .. n : r[k] \in T
  BY <1>2
<1>4. r \in Seq(T)
  <2>1. r = [k \in 1 .. n |-> r[k]]
    BY <1>1 DEF Places
  <2> QED
    BY <1>1, <1>3, <2>1
<1>5. ASSUME Distinct(s), NEW i \in 1 .. n, NEW j \in 1 .. n, r[i] = r[j]
      PROVE  i = j
  <2>1. order[i] = order[j]
    BY <1>2, <1>5 DEF Distinct
  <2> QED
    BY <2>1 DEF Places, Distinct
<1> QED
  BY <1>1, <1>4, <1>5 DEF Distinct

\* The elements of a list at some places.
LEMMA ThoseOf ==
  ASSUME NEW T, NEW s \in Seq(T), NEW P \in SUBSET (DOMAIN s)
  PROVE  /\ Those(s, P) \in Seq(T) /\ (Distinct(s) => Distinct(Those(s, P)))
         /\ \A k \in DOMAIN Those(s, P) : \E i \in P : Those(s, P)[k] = s[i]
<1> DEFINE key == [i \in P |-> <<-i>>]
           order == Sorted(P, key)
           n == Cardinality(P)
<1>1. P \subseteq Nat /\ IsFiniteSet(P)
  <2>1. Len(s) \in Nat /\ DOMAIN s = 1 .. Len(s)
    OBVIOUS
  <2>2. IsFiniteSet(1 .. Len(s))
    BY <2>1, FS_Interval
  <2> QED
    BY <2>1, <2>2, FS_Subset
<1>2. Keyed(P, key, 1)
  <2>1. ASSUME NEW i \in P
        PROVE  DOMAIN key[i] = 1 .. 1 /\ key[i][1] = -i /\ i \in Int /\ -i \in Int
    BY <1>1
  <2> HIDE DEF key
  <2>2. \A i, j \in P : i # j => key[i][1] # key[j][1]
    BY <2>1
  <2>3. \A k \in 1 .. 1 : k = 1
    OBVIOUS
  <2>4. 1 \in 1 .. 1
    OBVIOUS
  <2> QED
    BY <2>1, <2>2, <2>3, <2>4 DEF Keyed
<1> HIDE DEF key
<1>3. order \in Seq(P) /\ DOMAIN order = 1 .. n /\ Distinct(order) /\ n \in Nat
  BY <1>1, <1>2, SortedLists
<1>4. Those(s, P) = [k \in DOMAIN order |-> s[order[k]]]
  BY DEF Those, key
<1> HIDE DEF order, n
<1>5. \A k \in 1 .. n : order[k] \in P
  BY <1>3
<1>6. Places(Those(s, P), s, order, n)
  <2>1. \A k \in 1 .. n : order[k] \in DOMAIN s
    BY <1>5
  <2>2. Those(s, P) = [k \in 1 .. n |-> s[order[k]]]
    BY <1>3, <1>4
  <2> QED
    BY <1>3, <2>1, <2>2 DEF Places
<1>7. Those(s, P) \in Seq(T) /\ (Distinct(s) => Distinct(Those(s, P))) /\ DOMAIN Those(s, P) = 1 .. n
  BY <1>6, PlacesOf
<1>8. \A k \in 1 .. n : Those(s, P)[k] = s[order[k]]
  BY <1>3, <1>4
<1> QED
  BY <1>5, <1>7, <1>8

\* A list sorted by numbers.
LEMMA SortedSeqOf ==
  ASSUME NEW T, NEW s \in Seq(T), NEW key, \A i \in DOMAIN s : key[i] \in Int
  PROVE  /\ SortedSeq(s, key) \in Seq(T) /\ (Distinct(s) => Distinct(SortedSeq(s, key)))
         /\ \A k, l \in DOMAIN SortedSeq(s, key) :
              k < l => \E i, j \in DOMAIN s :
                         /\ i # j /\ key[i] >= key[j]
                         /\ SortedSeq(s, key)[k] = s[i] /\ SortedSeq(s, key)[l] = s[j]
<1> DEFINE P == DOMAIN s
           keys == [i \in P |-> <<key[i], -i>>]
           order == Sorted(P, keys)
           n == Cardinality(P)
           r == SortedSeq(s, key)
<1>1. P \subseteq Nat /\ IsFiniteSet(P)
  <2>1. Len(s) \in Nat /\ DOMAIN s = 1 .. Len(s)
    OBVIOUS
  <2>2. IsFiniteSet(1 .. Len(s))
    BY <2>1, FS_Interval
  <2> QED
    BY <2>1, <2>2, FS_Subset
<1>a. \A i \in P : /\ DOMAIN keys[i] = 1 .. 2 /\ keys[i][1] = key[i] /\ keys[i][2] = -i
                   /\ key[i] \in Int /\ i \in Int /\ -i \in Int
  BY <1>1
<1> HIDE DEF keys
<1>b. \A k \in 1 .. 2 : k = 1 \/ k = 2
  OBVIOUS
<1>2. Keyed(P, keys, 2)
  <2>1. \A i, j \in P : i # j => keys[i][2] # keys[j][2]
    BY <1>a
  <2>2. 2 \in 1 .. 2
    OBVIOUS
  <2>3. \A i \in P : \A k \in 1 .. 2 : keys[i][k] \in Int
    BY <1>a, <1>b
  <2> HIDE DEF P
  <2> QED
    BY <1>a, <2>1, <2>2, <2>3 DEF Keyed
<1>3. /\ order \in Seq(P) /\ DOMAIN order = 1 .. n /\ Distinct(order) /\ n \in Nat
      /\ \A k, l \in DOMAIN order : k < l => Above(keys[order[k]], keys[order[l]])
  <2> HIDE DEF P
  <2> QED
    BY <1>1, <1>2, SortedLists
<1>4. r = [k \in DOMAIN order |-> s[order[k]]]
  BY DEF SortedSeq, keys
<1> HIDE DEF order, n, r
<1>5. \A k \in 1 .. n : order[k] \in P
  BY <1>3
<1>6. Places(r, s, order, n)
  <2>1. r = [k \in 1 .. n |-> s[order[k]]]
    BY <1>3, <1>4
  <2> QED
    BY <1>3, <1>5, <2>1 DEF Places
<1>7. r \in Seq(T) /\ (Distinct(s) => Distinct(r)) /\ DOMAIN r = 1 .. n
  BY <1>6, PlacesOf
<1>8. \A k \in 1 .. n : r[k] = s[order[k]]
  BY <1>3, <1>4
<1>9. ASSUME NEW k \in 1 .. n, NEW l \in 1 .. n, k < l
      PROVE  \E i, j \in DOMAIN s : i # j /\ key[i] >= key[j] /\ r[k] = s[i] /\ r[l] = s[j]
  <2> DEFINE i == order[k]
             j == order[l]
  <2>1. i \in P /\ j \in P
    BY <1>5
  <2>2. i # j
    BY <1>3, <1>9 DEF Distinct
  <2>3. Above(keys[i], keys[j])
    BY <1>3, <1>9
  <2> HIDE DEF i, j
  <2>4. PICK c \in DOMAIN keys[i] : keys[i][c] > keys[j][c] /\ \A d \in 1 .. (c - 1) : keys[i][d] = keys[j][d]
    BY <2>3 DEF Above
  <2>5. c \in 1 .. 2
    BY <1>a, <2>1, <2>4
  <2>6. key[i] >= key[j]
    <3>1. CASE c = 1
      BY <1>a, <2>1, <2>4, <3>1
    <3>2. CASE c = 2
      <4>1. 1 \in 1 .. (c - 1)
        BY <3>2
      <4>2. keys[i][1] = keys[j][1]
        BY <2>4, <4>1
      <4> QED
        BY <1>a, <2>1, <4>2
    <3> QED
      BY <1>b, <2>5, <3>1, <3>2
  <2>7. r[k] = s[i] /\ r[l] = s[j]
    BY <1>8 DEF i, j
  <2> QED
    BY <2>1, <2>2, <2>6, <2>7
<1> QED
  BY <1>7, <1>9 DEF r

------------------------------------------------------------------------------
(* Walks over the graph *)

\* The image of a finite set is finite.
LEMMA ImageFinite ==
  ASSUME NEW S, IsFiniteSet(S), NEW f
  PROVE  IsFiniteSet({f[x] : x \in S})
<1> DEFINE T == {f[x] : x \in S}
           g == [x \in S |-> f[x]]
<1>1. g \in Surjection(S, T)
  BY DEF Surjection
<1> HIDE DEF g, T
<1>2. IsFiniteSet(T)
  BY <1>1, FS_Surjection
<1> QED
  BY <1>2 DEF T

Hop == [pool : Pools, token_in : Tokens, token_out : Tokens]

\* The numbers of a hop.
LEMMA HopNumbers ==
  ASSUME NEW h \in Hop
  PROVE  h.pool \in Nat /\ h.token_out \in Nat /\ h.pool \in Pools /\ h.token_out \in Tokens
<1>1. Tokens \subseteq Nat /\ Pools \subseteq Nat
  BY HeuristicAssumption
<1>2. h.pool \in Pools /\ h.token_out \in Tokens
  BY DEF Hop
<1> QED
  BY <1>1, <1>2

\* What is chosen at the start, and never changes.
FixedInv ==
  /\ in \in Inputs /\ cfg \in Configs /\ graph = EdgesOf(in.links) /\ connectors \subseteq Tokens

\* What a snapshot and a configuration are.
LEMMA FixedTypes ==
  ASSUME FixedInv
  PROVE  /\ in.target \in Tokens /\ in.links \in [Pools -> SUBSET Tokens]
         /\ in.rate \in [Pools -> Nat] /\ in.reserve \in [Pools -> Nat]
         /\ in.fresh \subseteq Pools /\ in.bonus \in [Pools -> 0 .. 99]
         /\ cfg.max_hops \in Nat /\ cfg.min_hops \in 1 .. cfg.max_hops /\ cfg.max_candidates \in Nat
         /\ ValidConfig(cfg) /\ Source \in Tokens
BY HeuristicAssumption DEF FixedInv, IsInput, ValidConfig

\* The edges of a token lead away from it, one for each pool and other token.
LEMMA GraphFinite ==
  ASSUME graph = EdgesOf(in.links), NEW t \in Tokens
  PROVE  /\ graph[t] \subseteq Hop /\ IsFiniteSet(graph[t])
         /\ \A h \in graph[t] : h.token_in = t /\ h.token_out # t
<1> DEFINE edge == [x \in Pools \X Tokens |-> [pool |-> x[1], token_in |-> t, token_out |-> x[2]]]
           E == {edge[x] : x \in Pools \X Tokens}
<1>1. graph[t] = {h \in [pool : Pools, token_in : {t}, token_out : Tokens \ {t}] :
                    {t, h.token_out} \subseteq in.links[h.pool]}
  BY DEF EdgesOf
<1>2. \A h \in graph[t] : h \in Hop /\ h.token_in = t /\ h.token_out # t
  BY <1>1 DEF Hop
<1>3. IsFiniteSet(Pools \X Tokens)
  BY HeuristicAssumption, FS_Product
<1>4. IsFiniteSet(E)
  <2> HIDE DEF edge
  <2> QED
    BY <1>3, ImageFinite
<1>5. ASSUME NEW h \in graph[t]
      PROVE  h \in E
  <2>1. h \in Hop /\ h.token_in = t
    BY <1>2
  <2>2. h = [pool |-> h.pool, token_in |-> t, token_out |-> h.token_out]
    BY <2>1 DEF Hop
  <2>3. <<h.pool, h.token_out>> \in Pools \X Tokens
    BY <2>1 DEF Hop
  <2>4. edge[<<h.pool, h.token_out>>] = h
    BY <2>2, <2>3
  <2> QED
    BY <2>3, <2>4
<1> HIDE DEF E
<1>6. IsFiniteSet(graph[t])
  BY <1>4, <1>5, FS_Subset
<1> QED
  BY <1>2, <1>6

\* The edges of a token, in the snapshot of the search.
LEMMA GraphEdges ==
  ASSUME FixedInv, NEW t \in Tokens
  PROVE  /\ graph[t] \subseteq Hop /\ IsFiniteSet(graph[t])
         /\ \A h \in graph[t] : h.token_in = t /\ h.token_out # t
BY GraphFinite DEF FixedInv

\* One hop more.
Longer(path, W) ==
  UNION {{Append(p, h) : h \in OpenHops(p)} : p \in {p \in W : p = path \/ NodeOf(p) # in.target}}
IsWalk(path, n, f) == f = [i \in 0 .. n |-> IF i = 0 THEN {path} ELSE Longer(path, f[i - 1])]

\* WalkFrom is a function chosen by its equation.
LEMMA WalkChosen ==
  ASSUME NEW path, NEW n
  PROVE  WalkFrom(path, n) = (CHOOSE f : IsWalk(path, n, f))[n]
BY DEF WalkFrom, IsWalk, Longer

Steps(path, n, f) == f[0] = {path} /\ \A i \in 1 .. n : f[i] = Longer(path, f[i - 1])

\* The equation of a walk, step by step.
LEMMA WalkSteps ==
  ASSUME NEW path, NEW n \in Nat, NEW f, IsWalk(path, n, f)
  PROVE  Steps(path, n, f)
<1>1. \A i \in 0 .. n : f[i] = IF i = 0 THEN {path} ELSE Longer(path, f[i - 1])
  <2> DEFINE body(i) == IF i = 0 THEN {path} ELSE Longer(path, f[i - 1])
  <2>1. f = [i \in 0 .. n |-> body(i)]
    BY DEF IsWalk
  <2> HIDE DEF body
  <2>2. \A i \in 0 .. n : f[i] = body(i)
    BY <2>1
  <2> QED
    BY <2>2 DEF body
<1> QED
  BY <1>1 DEF Steps

\* There is such a function.
LEMMA WalkExists ==
  ASSUME NEW path, NEW n \in Nat
  PROVE  \E f : IsWalk(path, n, f)
<1> DEFINE S == {m \in Nat : \E f : IsWalk(path, m, f)}
<1>1. 0 \in S
  <2>1. IsWalk(path, 0, [i \in 0 .. 0 |-> {path}])
    BY DEF IsWalk
  <2> QED
    BY <2>1
<1>2. ASSUME NEW m \in Nat, m \in S
      PROVE  m + 1 \in S
  <2>1. PICK f : IsWalk(path, m, f)
    BY <1>2
  <2>a. Steps(path, m, f)
    BY <2>1, WalkSteps
  <2>2. f[0] = {path} /\ \A i \in 1 .. m : f[i] = Longer(path, f[i - 1])
    BY <2>a DEF Steps
  <2> DEFINE g == [i \in 0 .. (m + 1) |-> IF i = m + 1 THEN Longer(path, f[m]) ELSE f[i]]
  <2>3. ASSUME NEW i \in 0 .. (m + 1)
        PROVE  g[i] = IF i = 0 THEN {path} ELSE Longer(path, g[i - 1])
    <3>1. CASE i = 0
      BY <2>2, <3>1
    <3>2. CASE i \in 1 .. m
      <4>1. g[i] = f[i] /\ g[i - 1] = f[i - 1]
        BY <3>2
      <4> QED
        BY <2>2, <3>2, <4>1
    <3>3. CASE i = m + 1
      <4>1. g[i] = Longer(path, f[m]) /\ g[i - 1] = f[m]
        BY <3>3
      <4> QED
        BY <3>3, <4>1
    <3> QED
      BY <3>1, <3>2, <3>3
  <2>4. IsWalk(path, m + 1, g)
    <3>1. g = [i \in 0 .. (m + 1) |-> g[i]]
      OBVIOUS
    <3> HIDE DEF g
    <3> QED
      BY <2>3, <3>1 DEF IsWalk
  <2> QED
    BY <2>4
<1>3. n \in S
  <2> HIDE DEF S
  <2> QED
    BY <1>1, <1>2, SetInduction
<1> QED
  BY <1>3

\* The walks of n + 1 hops are those of n hops and one more.
LEMMA WalkUnfold ==
  ASSUME NEW path, NEW n \in Nat
  PROVE  WalkFrom(path, 0) = {path} /\ WalkFrom(path, n + 1) = Longer(path, WalkFrom(path, n))
<1>a. PICK f : f = CHOOSE w : IsWalk(path, n, w)
  OBVIOUS
<1>b. PICK g : g = CHOOSE w : IsWalk(path, n + 1, w)
  OBVIOUS
<1>c. PICK z : z = CHOOSE w : IsWalk(path, 0, w)
  OBVIOUS
<1>1. IsWalk(path, n, f) /\ IsWalk(path, n + 1, g) /\ IsWalk(path, 0, z)
  BY <1>a, <1>b, <1>c, WalkExists
<1>2. WalkFrom(path, n) = f[n] /\ WalkFrom(path, n + 1) = g[n + 1] /\ WalkFrom(path, 0) = z[0]
  BY <1>a, <1>b, <1>c, WalkChosen
<1>3. Steps(path, n, f) /\ Steps(path, n + 1, g) /\ Steps(path, 0, z)
  BY <1>1, WalkSteps
<1>4. f[0] = {path} /\ g[0] = {path} /\ z[0] = {path}
  BY <1>3 DEF Steps
<1>5. ASSUME NEW i \in 1 .. (n + 1)
      PROVE  g[i] = Longer(path, g[i - 1]) /\ (i # n + 1 => f[i] = Longer(path, f[i - 1]))
  BY <1>3 DEF Steps
<1> DEFINE S == {m \in Nat : m <= n => f[m] = g[m]}
<1>6. 0 \in S
  BY <1>4
<1>7. ASSUME NEW m \in Nat, m \in S
      PROVE  m + 1 \in S
  <2> SUFFICES ASSUME m + 1 <= n
               PROVE  f[m + 1] = g[m + 1]
    OBVIOUS
  <2>1. f[m] = g[m] /\ m + 1 \in 1 .. (n + 1) /\ m + 1 # n + 1 /\ (m + 1) - 1 = m
    BY <1>7
  <2> QED
    BY <1>5, <2>1
<1>8. n \in S
  <2> HIDE DEF S
  <2> QED
    BY <1>6, <1>7, SetInduction
<1>9. n + 1 \in 1 .. (n + 1) /\ (n + 1) - 1 = n
  OBVIOUS
<1> QED
  BY <1>2, <1>4, <1>5, <1>8, <1>9

\* A walk that has not reached the target goes on with an open hop.
LEMMA WalkOn ==
  ASSUME NEW path, NEW n \in Nat, NEW p \in WalkFrom(path, n), p = path \/ NodeOf(p) # in.target,
         NEW h \in OpenHops(p)
  PROVE  Append(p, h) \in WalkFrom(path, n + 1)
<1>1. Append(p, h) \in Longer(path, WalkFrom(path, n))
  BY DEF Longer
<1> QED
  BY <1>1, WalkUnfold

\* What every walk from the source is: hops of the graph, each from where the last one led.
Chained(p) == \A i \in 1 .. Len(p) : p[i].token_in = IF i = 1 THEN Source ELSE p[i - 1].token_out
Walks(n) == {p \in Seq(Hop) : Len(p) = n /\ Chained(p)}

\* A path ends at a token.
LEMMA NodeType ==
  ASSUME NEW p \in Seq(Hop), FixedInv
  PROVE  NodeOf(p) \in Tokens
<1>1. CASE p = <<>>
  BY <1>1, FixedTypes DEF NodeOf
<1>2. CASE p # <<>>
  <2>1. Len(p) \in 1 .. Len(p)
    BY <1>2
  <2>2. p[Len(p)] \in Hop
    BY <2>1
  <2> QED
    BY <1>2, <2>2 DEF NodeOf, Hop
<1> QED
  BY <1>1, <1>2

\* One open hop more is still a walk.
LEMMA LongerWalk ==
  ASSUME FixedInv, NEW n \in Nat, NEW p \in Walks(n), NEW h \in OpenHops(p)
  PROVE  /\ Append(p, h) \in Walks(n + 1) /\ NodeOf(Append(p, h)) = h.token_out /\ h \in Hop
         /\ h.token_in = NodeOf(p)
<1>1. p \in Seq(Hop) /\ Len(p) = n /\ Chained(p)
  BY DEF Walks
<1>2. NodeOf(p) \in Tokens
  BY <1>1, NodeType
<1>3. h \in graph[NodeOf(p)]
  BY DEF OpenHops
<1>4. h \in Hop /\ h.token_in = NodeOf(p)
  BY <1>2, <1>3, GraphEdges
<1> DEFINE q == Append(p, h)
<1>5. /\ q \in Seq(Hop) /\ Len(q) = n + 1 /\ q[n + 1] = h
      /\ \A i \in 1 .. n : q[i] = p[i]
  BY <1>1, <1>4
<1> HIDE DEF q
<1>6. ASSUME NEW i \in 1 .. (n + 1)
      PROVE  q[i].token_in = IF i = 1 THEN Source ELSE q[i - 1].token_out
  <2>1. CASE i \in 1 .. n
    <3>1. p[i].token_in = IF i = 1 THEN Source ELSE p[i - 1].token_out
      BY <1>1, <2>1 DEF Chained
    <3>2. i # 1 => i - 1 \in 1 .. n
      BY <2>1
    <3> QED
      BY <1>5, <2>1, <3>1, <3>2
  <2>2. CASE i = n + 1
    <3>1. CASE n = 0
      <4>1. p = <<>>
        BY <1>1, <3>1
      <4> QED
        BY <1>4, <1>5, <2>2, <3>1, <4>1 DEF NodeOf
    <3>2. CASE n # 0
      <4>1. p # <<>> /\ n \in 1 .. n /\ i - 1 = n /\ i # 1
        BY <1>1, <2>2, <3>2
      <4>2. NodeOf(p) = p[n].token_out
        BY <1>1, <4>1 DEF NodeOf
      <4> QED
        BY <1>4, <1>5, <2>2, <4>1, <4>2
    <3> QED
      BY <3>1, <3>2
  <2> QED
    BY <2>1, <2>2
<1>7. q \in Walks(n + 1)
  BY <1>5, <1>6 DEF Walks, Chained
<1>8. NodeOf(q) = h.token_out
  <2>1. q # <<>>
    BY <1>5
  <2> QED
    BY <1>5, <2>1 DEF NodeOf
<1> QED
  BY <1>4, <1>7, <1>8 DEF q

\* The walks of n hops from the source are chained, and there are finitely many.
LEMMA WalkShape ==
  ASSUME FixedInv, NEW n \in Nat
  PROVE  WalkFrom(<<>>, n) \subseteq Walks(n) /\ IsFiniteSet(WalkFrom(<<>>, n))
<1> DEFINE W(m) == WalkFrom(<<>>, m)
           S == {m \in Nat : W(m) \subseteq Walks(m) /\ IsFiniteSet(W(m))}
<1>1. 0 \in S
  <2>1. W(0) = {<<>>}
    BY WalkUnfold
  <2>2. <<>> \in Walks(0)
    BY DEF Walks, Chained
  <2>3. IsFiniteSet({<<>>})
    BY FS_Singleton
  <2> HIDE DEF W
  <2> QED
    BY <2>1, <2>2, <2>3
<1>2. ASSUME NEW m \in Nat, m \in S
      PROVE  m + 1 \in S
  <2> DEFINE open == {p \in W(m) : p = <<>> \/ NodeOf(p) # in.target}
             on == [p \in open |-> {Append(p, h) : h \in OpenHops(p)}]
             all == {on[p] : p \in open}
  <2>1. W(m + 1) = Longer(<<>>, W(m))
    BY WalkUnfold
  <2> HIDE DEF W
  <2>2. W(m + 1) = UNION all
    <3>1. all = {{Append(p, h) : h \in OpenHops(p)} : p \in open}
      OBVIOUS
    <3> HIDE DEF all
    <3> QED
      BY <2>1, <3>1 DEF Longer
  <2>3. ASSUME NEW p \in open
        PROVE  on[p] \subseteq Walks(m + 1) /\ IsFiniteSet(on[p])
    <3>1. p \in Walks(m)
      BY <1>2
    <3>2. on[p] \subseteq Walks(m + 1)
      <4>1. \A h \in OpenHops(p) : Append(p, h) \in Walks(m + 1)
        BY <3>1, LongerWalk
      <4> HIDE DEF open
      <4> QED
        BY <4>1
    <3>3. NodeOf(p) \in Tokens
      BY <3>1, NodeType DEF Walks
    <3>4. IsFiniteSet(OpenHops(p))
      <4>1. OpenHops(p) \in SUBSET graph[NodeOf(p)]
        BY DEF OpenHops
      <4> QED
        BY <3>3, <4>1, GraphEdges, FS_Subset
    <3> DEFINE add == [h \in OpenHops(p) |-> Append(p, h)]
    <3>5. on[p] = {add[h] : h \in OpenHops(p)}
      OBVIOUS
    <3>6. IsFiniteSet({add[h] : h \in OpenHops(p)})
      <4> HIDE DEF add
      <4> QED
        BY <3>4, ImageFinite
    <3> QED
      BY <3>2, <3>5, <3>6
  <2>4. IsFiniteSet(open)
    <3>1. open \in SUBSET W(m)
      OBVIOUS
    <3> QED
      BY <1>2, <3>1, FS_Subset
  <2> HIDE DEF on, open
  <2>5. IsFiniteSet(all)
    BY <2>4, ImageFinite
  <2>6. \A T \in all : IsFiniteSet(T)
    BY <2>3
  <2>7. UNION all \subseteq Walks(m + 1)
    BY <2>3
  <2> HIDE DEF all
  <2>8. IsFiniteSet(UNION all)
    BY <2>5, <2>6, FS_UNION
  <2> QED
    BY <2>2, <2>7, <2>8
<1>3. n \in S
  <2> HIDE DEF S
  <2> QED
    BY <1>1, <1>2, SetInduction
<1> QED
  BY <1>3

------------------------------------------------------------------------------
(* Quotes and candidates *)

\* The amounts along a path.
IsQuoted(path, n, f) == f = [i \in 0 .. n |-> IF i = 0 THEN AmountIn ELSE SimulateSwap(path[i], f[i - 1])]
QuotedSteps(path, n, f) == f[0] = AmountIn /\ \A i \in 1 .. n : f[i] = SimulateSwap(path[i], f[i - 1])

\* The outputs along a path, hop by hop.
LEMMA QuotedUnfold ==
  ASSUME NEW path, NEW n \in Nat, NEW f, IsQuoted(path, n, f)
  PROVE  QuotedSteps(path, n, f)
<1>1. \A i \in 0 .. n : f[i] = IF i = 0 THEN AmountIn ELSE SimulateSwap(path[i], f[i - 1])
  <2> DEFINE body(i) == IF i = 0 THEN AmountIn ELSE SimulateSwap(path[i], f[i - 1])
  <2>1. f = [i \in 0 .. n |-> body(i)]
    BY DEF IsQuoted
  <2> HIDE DEF body
  <2>2. \A i \in 0 .. n : f[i] = body(i)
    BY <2>1
  <2> QED
    BY <2>2 DEF body
<1> QED
  BY <1>1 DEF QuotedSteps

\* There is such a function.
LEMMA QuotedExists ==
  ASSUME NEW path, NEW n \in Nat
  PROVE  \E f : IsQuoted(path, n, f)
<1> DEFINE S == {m \in Nat : \E f : IsQuoted(path, m, f)}
<1>1. 0 \in S
  <2>1. IsQuoted(path, 0, [i \in 0 .. 0 |-> AmountIn])
    BY DEF IsQuoted
  <2> QED
    BY <2>1
<1>2. ASSUME NEW m \in Nat, m \in S
      PROVE  m + 1 \in S
  <2>1. PICK f : IsQuoted(path, m, f)
    BY <1>2
  <2>2. QuotedSteps(path, m, f)
    BY <2>1, QuotedUnfold
  <2>3. f[0] = AmountIn /\ \A i \in 1 .. m : f[i] = SimulateSwap(path[i], f[i - 1])
    BY <2>2 DEF QuotedSteps
  <2> DEFINE g == [i \in 0 .. (m + 1) |-> IF i = m + 1 THEN SimulateSwap(path[m + 1], f[m]) ELSE f[i]]
  <2>4. ASSUME NEW i \in 0 .. (m + 1)
        PROVE  g[i] = IF i = 0 THEN AmountIn ELSE SimulateSwap(path[i], g[i - 1])
    <3>1. CASE i = 0
      BY <2>3, <3>1
    <3>2. CASE i \in 1 .. m
      <4>1. g[i] = f[i] /\ g[i - 1] = f[i - 1]
        BY <3>2
      <4> QED
        BY <2>3, <3>2, <4>1
    <3>3. CASE i = m + 1
      <4>1. g[i] = SimulateSwap(path[i], f[m]) /\ g[i - 1] = f[m]
        BY <3>3
      <4> QED
        BY <3>3, <4>1
    <3> QED
      BY <3>1, <3>2, <3>3
  <2>5. IsQuoted(path, m + 1, g)
    <3>1. g = [i \in 0 .. (m + 1) |-> g[i]]
      OBVIOUS
    <3> HIDE DEF g
    <3> QED
      BY <2>4, <3>1 DEF IsQuoted
  <2> QED
    BY <2>5
<1>3. n \in S
  <2> HIDE DEF S
  <2> QED
    BY <1>1, <1>2, SetInduction
<1> QED
  BY <1>3

\* QuotePath is the last of the outputs along a path.
LEMMA QuoteChosen ==
  ASSUME NEW path
  PROVE  QuotePath(path) = (CHOOSE f : IsQuoted(path, Len(path), f))[Len(path)]
BY DEF QuotePath, IsQuoted

\* A swap pays out a number.
LEMMA SwapType ==
  ASSUME FixedInv, NEW h \in Hop, NEW amount \in Nat
  PROVE  SimulateSwap(h, amount) \in Nat
<1>1. h.pool \in Pools
  BY DEF Hop
<1>2. in.rate[h.pool] \in Nat /\ in.reserve[h.pool] \in Nat
  BY <1>1, FixedTypes
<1> DEFINE a == amount * in.rate[h.pool]
           b == in.reserve[h.pool]
<1>3. a \in Nat /\ b \in Nat
  BY <1>2
<1>4. SimulateSwap(h, amount) = Min({a, b})
  BY DEF SimulateSwap
<1> HIDE DEF a, b
<1>5. Min({a, b}) \in {a, b}
  BY <1>3, MinOfTwo
<1> QED
  BY <1>3, <1>4, <1>5

\* A quote is a number.
LEMMA QuoteType ==
  ASSUME FixedInv, NEW p \in Seq(Hop)
  PROVE  QuotePath(p) \in Nat
<1> DEFINE n == Len(p)
<1>1. n \in Nat
  OBVIOUS
<1>2. PICK f : f = CHOOSE w : IsQuoted(p, n, w)
  OBVIOUS
<1>3. IsQuoted(p, n, f)
  BY <1>1, <1>2, QuotedExists
<1>4. QuotedSteps(p, n, f)
  BY <1>1, <1>3, QuotedUnfold
<1>5. f[0] = AmountIn /\ \A i \in 1 .. n : f[i] = SimulateSwap(p[i], f[i - 1])
  BY <1>4 DEF QuotedSteps
<1> DEFINE S == {m \in Nat : m <= n => f[m] \in Nat}
<1>6. 0 \in S
  BY <1>5, HeuristicAssumption
<1>7. ASSUME NEW m \in Nat, m \in S
      PROVE  m + 1 \in S
  <2> SUFFICES ASSUME m + 1 <= n
               PROVE  f[m + 1] \in Nat
    OBVIOUS
  <2>1. f[m] \in Nat /\ m + 1 \in 1 .. n /\ (m + 1) - 1 = m
    BY <1>7
  <2>2. p[m + 1] \in Hop
    BY <2>1
  <2>3. SimulateSwap(p[m + 1], f[m]) \in Nat
    BY <2>1, <2>2, SwapType
  <2> QED
    BY <1>5, <2>1, <2>3
<1>8. n \in S
  <2> HIDE DEF S
  <2> QED
    BY <1>1, <1>6, <1>7, SetInduction
<1>9. QuotePath(p) = f[n]
  BY <1>2, QuoteChosen
<1> QED
  BY <1>1, <1>8, <1>9

\* The candidates of a request are finitely many walks.
LEMMA RoutesShape ==
  ASSUME FixedInv
  PROVE  /\ IsFiniteSet(EnumerateRoutes)
         /\ \A p \in EnumerateRoutes : p \in Seq(Hop) /\ Chained(p) /\ Len(p) \in 1 .. cfg.max_hops
<1> DEFINE L == cfg.min_hops .. cfg.max_hops
           of == [n \in L |-> RoutesOf(n)]
           all == {of[n] : n \in L}
<1>1. cfg.max_hops \in Nat /\ cfg.min_hops \in 1 .. cfg.max_hops
  BY FixedTypes
<1>2. \A n \in L : n \in Nat /\ n \in 1 .. cfg.max_hops
  BY <1>1
<1>3. ASSUME NEW n \in L
      PROVE  IsFiniteSet(of[n]) /\ of[n] \subseteq Walks(n)
  <2>1. of[n] \in SUBSET WalkFrom(<<>>, n)
    BY DEF RoutesOf
  <2> QED
    BY <1>2, <2>1, WalkShape, FS_Subset
<1>4. EnumerateRoutes = UNION all
  BY DEF EnumerateRoutes
<1>5. IsFiniteSet(L)
  BY <1>1, FS_Interval
<1> HIDE DEF of
<1>6. IsFiniteSet(all)
  BY <1>5, ImageFinite
<1>7. \A T \in all : IsFiniteSet(T)
  BY <1>3
<1>8. ASSUME NEW p \in UNION all
      PROVE  p \in Seq(Hop) /\ Chained(p) /\ Len(p) \in 1 .. cfg.max_hops
  <2>1. PICK n \in L : p \in of[n]
    OBVIOUS
  <2>2. p \in Walks(n) /\ n \in 1 .. cfg.max_hops
    BY <1>2, <1>3, <2>1
  <2> QED
    BY <2>2 DEF Walks
<1> HIDE DEF all
<1>9. IsFiniteSet(UNION all)
  BY <1>6, <1>7, FS_UNION
<1> QED
  BY <1>4, <1>8, <1>9

\* A walk of an allowed length that ends at the target is a candidate.
LEMMA IsRoute ==
  ASSUME FixedInv, NEW p, NEW n \in cfg.min_hops .. cfg.max_hops, p \in WalkFrom(<<>>, n), NodeOf(p) = in.target
  PROVE  p \in EnumerateRoutes
BY DEF EnumerateRoutes, RoutesOf

\* Different candidates have different keys: the first hop in which they differ starts at
\* the same token, so it differs in its pool or in where it leads.
LEMMA PathKeysDiffer ==
  ASSUME FixedInv
  PROVE  Keyed(EnumerateRoutes, [p \in EnumerateRoutes |-> PathKey(p)], 2 * cfg.max_hops + 1)
<1> DEFINE R == EnumerateRoutes
           m == 2 * cfg.max_hops + 1
           key == [p \in R |-> PathKey(p)]
<1>1. cfg.max_hops \in Nat
  BY FixedTypes
<1>2. \A p \in R : p \in Seq(Hop) /\ Chained(p) /\ Len(p) \in 1 .. cfg.max_hops
  BY RoutesShape
<1> HIDE DEF R
<1>3. ASSUME NEW p \in R
      PROVE  /\ DOMAIN key[p] = 1 .. m /\ key[p][1] = -Len(p)
             /\ \A i \in 1 .. Len(p) : /\ 2 * i \in 1 .. m /\ 2 * i + 1 \in 1 .. m
                                       /\ key[p][2 * i] = -p[i].pool
                                       /\ key[p][2 * i + 1] = -p[i].token_out
             /\ \A k \in 1 .. m : key[p][k] \in Int
  <2>1. key[p] = PathKey(p)
    OBVIOUS
  <2>2. p \in Seq(Hop) /\ Len(p) \in 1 .. cfg.max_hops
    BY <1>2
  <2>3. DOMAIN PathKey(p) = 1 .. m
    BY DEF PathKey
  <2>4. 1 \in 1 .. m
    BY <1>1
  <2>5. PathKey(p)[1] = -Len(p)
    BY <2>4 DEF PathKey
  <2>6. \A i \in 1 .. Len(p) : p[i].pool \in Nat /\ p[i].token_out \in Nat
    <3>1. \A i \in 1 .. Len(p) : p[i] \in Hop
      BY <2>2
    <3> QED
      BY <3>1, HopNumbers
  <2>7. ASSUME NEW i \in 1 .. Len(p)
        PROVE  /\ 2 * i \in 1 .. m /\ 2 * i + 1 \in 1 .. m
               /\ PathKey(p)[2 * i] = -p[i].pool /\ PathKey(p)[2 * i + 1] = -p[i].token_out
    <3>1. i \in Nat /\ i >= 1 /\ i <= Len(p) /\ Len(p) \in Nat /\ Len(p) <= cfg.max_hops
      BY <2>2
    <3>2. 2 * i \in 1 .. m /\ 2 * i + 1 \in 1 .. m
      BY <1>1, <3>1
    <3>3. /\ (2 * i) \div 2 = i /\ (2 * i + 1) \div 2 = i /\ 2 * i # 1 /\ 2 * i + 1 # 1
          /\ (2 * i) % 2 = 0 /\ (2 * i + 1) % 2 # 0 /\ ~(i > Len(p))
      BY <3>1
    <3> HIDE DEF m
    <3>4. PathKey(p)[2 * i] = -p[i].pool
      BY <3>2, <3>3 DEF PathKey, m
    <3>5. PathKey(p)[2 * i + 1] = -p[i].token_out
      BY <3>2, <3>3 DEF PathKey, m
    <3> QED
      BY <3>2, <3>4, <3>5
  <2>8. ASSUME NEW k \in 1 .. m
        PROVE  PathKey(p)[k] \in Int
    <3> DEFINE i == k \div 2
    <3>1. PathKey(p)[k] = IF k = 1 THEN -Len(p) ELSE IF i > Len(p) THEN 0
                          ELSE IF k % 2 = 0 THEN -p[i].pool ELSE -p[i].token_out
      BY DEF PathKey
    <3>2. k # 1 /\ ~(i > Len(p)) => i \in 1 .. Len(p)
      BY <1>1, <2>2
    <3> HIDE DEF i
    <3>3. -Len(p) \in Int /\ 0 \in Int
      BY <2>2
    <3>4. i \in 1 .. Len(p) => -p[i].pool \in Int /\ -p[i].token_out \in Int
      BY <2>6
    <3> QED
      BY <3>1, <3>2, <3>3, <3>4
  <2> QED
    BY <2>1, <2>3, <2>5, <2>7, <2>8
<1> HIDE DEF key
<1>4. ASSUME NEW p \in R, NEW q \in R, \A k \in 1 .. m : key[p][k] = key[q][k]
      PROVE  p = q
  <2>1. p \in Seq(Hop) /\ q \in Seq(Hop) /\ Len(p) \in Nat /\ Len(q) \in Nat
    BY <1>2
  <2>2. Len(p) = Len(q)
    <3>1. 1 \in 1 .. m
      BY <1>1
    <3>2. -Len(p) = -Len(q)
      BY <1>3, <1>4, <3>1
    <3> QED
      BY <2>1, <3>2
  <2>3. ASSUME NEW i \in 1 .. Len(p)
        PROVE  p[i].pool = q[i].pool /\ p[i].token_out = q[i].token_out
    <3>1. -p[i].pool = -q[i].pool /\ -p[i].token_out = -q[i].token_out
      BY <1>3, <1>4, <2>2
    <3>2. p[i] \in Hop /\ q[i] \in Hop
      BY <2>1, <2>2
    <3>3. /\ p[i].pool \in Int /\ q[i].pool \in Int
          /\ p[i].token_out \in Int /\ q[i].token_out \in Int
      BY <3>2, HopNumbers
    <3>4. PICK a, b, c, d : /\ a = p[i].pool /\ b = q[i].pool
                            /\ c = p[i].token_out /\ d = q[i].token_out
      OBVIOUS
    <3>5. a \in Int /\ b \in Int /\ -a = -b => a = b
      OBVIOUS
    <3>6. c \in Int /\ d \in Int /\ -c = -d => c = d
      OBVIOUS
    <3> QED
      BY <3>1, <3>3, <3>4, <3>5, <3>6
  <2>4. ASSUME NEW i \in 1 .. Len(p)
        PROVE  p[i].token_in = q[i].token_in
    <3>1. /\ p[i].token_in = IF i = 1 THEN Source ELSE p[i - 1].token_out
          /\ q[i].token_in = IF i = 1 THEN Source ELSE q[i - 1].token_out
      BY <1>2, <2>2 DEF Chained
    <3>2. i # 1 => i - 1 \in 1 .. Len(p)
      BY <2>1
    <3> QED
      BY <2>3, <3>1, <3>2
  <2>5. ASSUME NEW i \in 1 .. Len(p)
        PROVE  p[i] = q[i]
    <3>1. p[i] \in Hop /\ q[i] \in Hop
      BY <2>1, <2>2
    <3> QED
      BY <2>3, <2>4, <3>1 DEF Hop
  <2> QED
    BY <2>1, <2>2, <2>5
<1>5. \A p, q \in R : p # q => \E k \in 1 .. m : key[p][k] # key[q][k]
  BY <1>4
<1>6. Keyed(R, key, m)
  <2> HIDE DEF m
  <2> QED
    BY <1>3, <1>5 DEF Keyed
<1> QED
  BY <1>6 DEF R, key

\* The exhaustive search lists every candidate once.
LEMMA EnumeratedType ==
  ASSUME FixedInv
  PROVE  Enumerated \in Seq(EnumerateRoutes) /\ Distinct(Enumerated)
<1> DEFINE R == EnumerateRoutes
           key == [p \in R |-> PathKey(p)]
           m == 2 * cfg.max_hops + 1
<1>1. IsFiniteSet(R) /\ Keyed(R, key, m)
  BY RoutesShape, PathKeysDiffer
<1>2. m \in Nat
  BY FixedTypes
<1>3. Enumerated = Sorted(R, key)
  BY DEF Enumerated
<1>4. PICK S, k, n : S = R /\ k = key /\ n = m
  OBVIOUS
<1> HIDE DEF R, key, m
<1>5. IsFiniteSet(S) /\ Keyed(S, k, n) /\ n \in Nat
  BY <1>1, <1>2, <1>4
<1>6. Sorted(S, k) \in Seq(S) /\ Distinct(Sorted(S, k))
  BY <1>5, SortedLists
<1> QED
  BY <1>3, <1>4, <1>6 DEF R

------------------------------------------------------------------------------
(* Ranking hops and connectors *)

\* The bucket of a balance is a number.
LEMMA Log2Type ==
  ASSUME NEW n \in Int
  PROVE  Log2(n) \in Nat
<1> DEFINE K == {k \in 1 .. n : 2 ^ k <= n}
<1>1. K \in SUBSET (1 .. n)
  OBVIOUS
<1>2. IsFiniteSet(1 .. n)
  BY FS_Interval
<1>3. Log2(n) = Cardinality(K)
  BY DEF Log2
<1> HIDE DEF K
<1> QED
  BY <1>1, <1>2, <1>3, FS_Subset, FS_CardinalityType

\* A total is a number.
LEMMA TotalType ==
  ASSUME NEW S, IsFiniteSet(S), NEW n, \A x \in S : n[x] \in Int
  PROVE  Total(S, n) \in Nat
<1> DEFINE units == [x \in S |-> {x} \X (1 .. n[x])]
           all == {units[x] : x \in S}
<1>1. \A x \in S : IsFiniteSet(units[x])
  <2> SUFFICES ASSUME NEW x \in S
               PROVE  IsFiniteSet({x} \X (1 .. n[x]))
    OBVIOUS
  <2>1. IsFiniteSet({x})
    BY FS_Singleton
  <2>2. n[x] \in Int /\ 1 \in Int
    OBVIOUS
  <2>3. IsFiniteSet(1 .. n[x])
    BY <2>2, FS_Interval
  <2> QED
    BY <2>1, <2>3, FS_Product
<1>2. Total(S, n) = Cardinality(UNION all)
  BY DEF Total
<1> HIDE DEF units
<1>3. IsFiniteSet(all)
  BY ImageFinite
<1>4. \A T \in all : IsFiniteSet(T)
  BY <1>1
<1> HIDE DEF all
<1>5. IsFiniteSet(UNION all)
  BY <1>3, <1>4, FS_UNION
<1> QED
  BY <1>2, <1>5, FS_CardinalityType

\* A balance is a number, -1 if it is not known.
LEMMA FreshType ==
  ASSUME FixedInv, NEW p \in Pools
  PROVE  Fresh(p) \in Int
<1>1. in.reserve[p] \in Nat
  BY FixedTypes
<1> QED
  BY <1>1 DEF Fresh

\* Hops of which no two are through one pool.
PoolsDiffer(hops) == \A g, h \in hops : g.pool = h.pool => g = h

\* Ranking loses and repeats no hop.
LEMMA RankedHopsType ==
  ASSUME FixedInv, NEW hops \in SUBSET Hop, IsFiniteSet(hops), PoolsDiffer(hops)
  PROVE  RankedHops(hops) \in Seq(hops) /\ Distinct(RankedHops(hops))
<1> DEFINE active == cfg.liquidity /\ Cardinality(hops) >= 2
           known(h) == active /\ Fresh(h.pool) >= 0
           bonus(h) == IF cfg.protocol_ordering THEN in.bonus[h.pool] ELSE 0
           score(h) == 100 * Log2(Fresh(h.pool)) + bonus(h)
           key(h) == IF known(h) THEN <<1, score(h), Fresh(h.pool), -h.pool>>
                     ELSE <<0, in.bonus[h.pool], -h.pool, 0>>
           by == [h \in hops |-> key(h)]
           plain == [h \in hops |-> <<-h.pool>>]
<1>1. RankedHops(hops) = Sorted(hops, by) \/ RankedHops(hops) = Sorted(hops, plain)
  BY DEF RankedHops
<1>2. ASSUME NEW h \in hops
      PROVE  /\ h.pool \in Nat /\ Fresh(h.pool) \in Int /\ in.bonus[h.pool] \in Int /\ bonus(h) \in Int
             /\ score(h) \in Int
  <2>1. h.pool \in Nat /\ h.pool \in Pools
    BY HopNumbers
  <2>2. Fresh(h.pool) \in Int
    BY <2>1, FreshType
  <2>3. in.bonus[h.pool] \in Int
    BY <2>1, FixedTypes
  <2>4. bonus(h) \in Int
    BY <2>3
  <2> HIDE DEF bonus
  <2>5. score(h) \in Int
    BY <2>2, <2>4, Log2Type
  <2> QED
    BY <2>1, <2>2, <2>3, <2>4, <2>5
<1>3. ASSUME NEW g \in hops, NEW h \in hops, g # h
      PROVE  -g.pool # -h.pool
  <2>1. g.pool # h.pool
    BY <1>3 DEF PoolsDiffer
  <2> QED
    BY <1>2, <2>1
<1> HIDE DEF score, bonus, known
<1>4. ASSUME NEW h \in hops
      PROVE  /\ DOMAIN by[h] = 1 .. 4
             /\ by[h][1] = IF known(h) THEN 1 ELSE 0
             /\ by[h][2] = IF known(h) THEN score(h) ELSE in.bonus[h.pool]
             /\ by[h][3] = IF known(h) THEN Fresh(h.pool) ELSE -h.pool
             /\ by[h][4] = IF known(h) THEN -h.pool ELSE 0
  OBVIOUS
<1> HIDE DEF by
<1>5. Keyed(hops, by, 4)
  <2>1. \A k \in 1 .. 4 : k = 1 \/ k = 2 \/ k = 3 \/ k = 4
    OBVIOUS
  <2>2. 1 \in 1 .. 4 /\ 3 \in 1 .. 4 /\ 4 \in 1 .. 4
    OBVIOUS
  <2>3. ASSUME NEW h \in hops
        PROVE  \A k \in 1 .. 4 : by[h][k] \in Int
    <3>1. /\ -h.pool \in Int /\ Fresh(h.pool) \in Int /\ in.bonus[h.pool] \in Int /\ score(h) \in Int
          /\ 0 \in Int /\ 1 \in Int
      BY <1>2
    <3>2. by[h][1] \in Int /\ by[h][2] \in Int /\ by[h][3] \in Int /\ by[h][4] \in Int
      BY <1>4, <3>1
    <3> QED
      BY <2>1, <3>2
  <2>4. ASSUME NEW g \in hops, NEW h \in hops, g # h
        PROVE  by[g][1] # by[h][1] \/ by[g][3] # by[h][3] \/ by[g][4] # by[h][4]
    BY <1>3, <1>4, <2>4
  <2>5. \A g, h \in hops : g # h => \E k \in 1 .. 4 : by[g][k] # by[h][k]
    BY <2>2, <2>4
  <2> QED
    BY <1>4, <2>3, <2>5 DEF Keyed
<1>6. \A h \in hops : DOMAIN plain[h] = 1 .. 1 /\ plain[h][1] = -h.pool /\ -h.pool \in Int
  BY <1>2
<1> HIDE DEF plain
<1>7. Keyed(hops, plain, 1)
  <2>1. \A k \in 1 .. 1 : k = 1
    OBVIOUS
  <2>2. 1 \in 1 .. 1
    OBVIOUS
  <2> QED
    BY <1>3, <1>6, <2>1, <2>2 DEF Keyed
<1>8. PICK a, b : a = by /\ b = plain
  OBVIOUS
<1>9. Keyed(hops, a, 4) /\ Keyed(hops, b, 1)
  BY <1>5, <1>7, <1>8
<1>10. /\ Sorted(hops, a) \in Seq(hops) /\ Distinct(Sorted(hops, a))
       /\ Sorted(hops, b) \in Seq(hops) /\ Distinct(Sorted(hops, b))
  BY <1>9, SortedLists
<1> QED
  BY <1>1, <1>8, <1>10

\* The edges between two tokens.
LEMMA BetweenType ==
  ASSUME FixedInv, NEW s \in Tokens, NEW t, NEW n \in Nat
  PROVE  /\ Between(s, t, n) \in Seq(graph[s]) /\ Distinct(Between(s, t, n))
         /\ \A i \in DOMAIN Between(s, t, n) : Between(s, t, n)[i].token_out = t
         /\ DOMAIN Between(s, t, n) \subseteq 1 .. n
<1>1. PICK hops : hops = {h \in graph[s] : h.token_out = t}
  OBVIOUS
<1>2. /\ graph[s] \subseteq Hop /\ IsFiniteSet(graph[s])
      /\ \A h \in graph[s] : h.token_in = s
  BY GraphEdges
<1>3. hops \in SUBSET Hop /\ IsFiniteSet(hops)
  BY <1>1, <1>2, FS_Subset
<1>4. PoolsDiffer(hops)
  BY <1>1, <1>2, <1>3 DEF PoolsDiffer, Hop
<1>5. PICK ranked : ranked = RankedHops(hops)
  OBVIOUS
<1>6. ranked \in Seq(hops) /\ Distinct(ranked)
  BY <1>3, <1>4, <1>5, RankedHopsType
<1>7. /\ Take(ranked, n) \in Seq(hops) /\ Distinct(Take(ranked, n))
      /\ DOMAIN Take(ranked, n) \subseteq 1 .. n
  BY <1>6, TakeOf
<1>8. Between(s, t, n) = Take(ranked, n)
  BY <1>1, <1>5 DEF Between
<1>9. \A i \in DOMAIN Take(ranked, n) : Take(ranked, n)[i] \in hops
  BY <1>7
<1>10. Take(ranked, n) \in Seq(graph[s])
  BY <1>1, <1>7
<1> QED
  BY <1>1, <1>7, <1>8, <1>9, <1>10

\* A degree is a number.
LEMMA DegreeType ==
  ASSUME FixedInv, NEW t \in Tokens
  PROVE  TokenDegree(graph, t) \in Nat
<1>1. Cardinality(graph[t]) \in Nat
  BY GraphEdges, FS_CardinalityType
<1> QED
  BY <1>1 DEF TokenDegree

\* The connectors the fast lane tries are connectors.
LEMMA CentralType ==
  ASSUME FixedInv, ValidHeuristic(cfg)
  PROVE  /\ CentralConnectors \in Seq(connectors \ {Source, in.target}) /\ Distinct(CentralConnectors)
         /\ Len(CentralConnectors) \in Nat
<1> DEFINE pools(t) == {p \in Pools : t \in in.links[p] /\ Cardinality(in.links[p]) >= 2}
           known(t) == pools(t) \cap in.fresh
           depths == [p \in Pools |-> Log2(Fresh(p))]
           depth(t) == Total(known(t), depths)
           key(t) == <<Cardinality(known(t)), TokenDegree(graph, t), depth(t), -t>>
           T == connectors \ {Source, in.target}
           keys == [t \in T |-> key(t)]
<1>1. CentralConnectors = Take(Sorted(T, keys), cfg.fast_connectors)
  BY DEF CentralConnectors
<1>2. T \in SUBSET Tokens /\ IsFiniteSet(T) /\ T \in SUBSET Nat
  <2>1. Tokens \in SUBSET Nat /\ IsFiniteSet(Tokens)
    BY HeuristicAssumption
  <2>2. T \in SUBSET Tokens
    BY DEF FixedInv
  <2> QED
    BY <2>1, <2>2, FS_Subset
<1>3. ASSUME NEW t \in T
      PROVE  Cardinality(known(t)) \in Int /\ TokenDegree(graph, t) \in Int /\ depth(t) \in Int
  <2>1. known(t) \in SUBSET Pools /\ IsFiniteSet(Pools)
    BY HeuristicAssumption
  <2> HIDE DEF known
  <2>2. IsFiniteSet(known(t)) /\ Cardinality(known(t)) \in Nat
    BY <2>1, FS_Subset, FS_CardinalityType
  <2>3. \A p \in Pools : depths[p] \in Nat
    BY FreshType, Log2Type
  <2>4. PICK K, d : K = known(t) /\ d = depths
    OBVIOUS
  <2>5. \A p \in K : d[p] \in Int
    <3> HIDE DEF depths
    <3> QED
      BY <2>1, <2>3, <2>4
  <2>6. Total(K, d) \in Nat
    BY <2>2, <2>4, <2>5, TotalType
  <2>7. TokenDegree(graph, t) \in Nat
    BY <1>2, DegreeType
  <2> QED
    BY <2>2, <2>4, <2>6, <2>7
<1> HIDE DEF known, depth
<1>4. ASSUME NEW t \in T
      PROVE  /\ DOMAIN keys[t] = 1 .. 4 /\ keys[t][1] = Cardinality(known(t))
             /\ keys[t][2] = TokenDegree(graph, t) /\ keys[t][3] = depth(t) /\ keys[t][4] = -t
  OBVIOUS
<1> HIDE DEF keys
<1>5. Keyed(T, keys, 4)
  <2>1. \A k \in 1 .. 4 : k = 1 \/ k = 2 \/ k = 3 \/ k = 4
    OBVIOUS
  <2>2. 4 \in 1 .. 4
    OBVIOUS
  <2>3. ASSUME NEW t \in T
        PROVE  t \in Nat /\ -t \in Int /\ \A k \in 1 .. 4 : keys[t][k] \in Int
    <3>1. t \in Nat /\ -t \in Int
      BY <1>2
    <3>2. keys[t][1] \in Int /\ keys[t][2] \in Int /\ keys[t][3] \in Int /\ keys[t][4] \in Int
      BY <1>3, <1>4, <3>1
    <3> QED
      BY <2>1, <3>1, <3>2
  <2>4. ASSUME NEW t \in T, NEW u \in T, t # u
        PROVE  keys[t][4] # keys[u][4]
    <3>1. t \in Nat /\ u \in Nat /\ keys[t][4] = -t /\ keys[u][4] = -u
      BY <1>4, <2>3
    <3> QED
      BY <2>4, <3>1
  <2> HIDE DEF T
  <2> QED
    BY <1>4, <2>2, <2>3, <2>4 DEF Keyed
<1>6. PICK S, k, n : S = T /\ k = keys /\ n = cfg.fast_connectors
  OBVIOUS
<1> HIDE DEF T
<1>7. IsFiniteSet(S) /\ Keyed(S, k, 4)
  BY <1>2, <1>5, <1>6
<1>8. Sorted(S, k) \in Seq(S) /\ Distinct(Sorted(S, k))
  BY <1>7, SortedLists
<1>9. n \in Nat
  BY <1>6 DEF ValidHeuristic, ValidFastLane
<1>10. Take(Sorted(S, k), n) \in Seq(S) /\ Distinct(Take(Sorted(S, k), n))
  BY <1>8, <1>9, TakeOf
<1>11. CentralConnectors \in Seq(S) /\ Distinct(CentralConnectors)
  BY <1>1, <1>6, <1>10
<1> QED
  BY <1>6, <1>11 DEF T

\* What auto_connector_tokens gives are tokens.
LEMMA ConnectorsType ==
  ASSUME in \in Inputs, cfg \in Configs, graph = EdgesOf(in.links),
         connectors = ConnectorTokens(cfg, in, graph)
  PROVE  FixedInv
<1> DEFINE able == {t \in Tokens \ {Source, in.target} : TokenDegree(graph, t) >= cfg.min_degree}
           key == [t \in able |-> <<TokenDegree(graph, t), -t>>]
           few == Take(Sorted(able, key), cfg.max_connectors)
<1>1. ValidConfig(cfg)
  BY HeuristicAssumption
<1>2. CASE cfg.connectors # {}
  <2>1. connectors = cfg.connectors
    BY <1>2 DEF ConnectorTokens
  <2> QED
    BY <1>1, <2>1 DEF ValidConfig, FixedInv
<1>3. CASE cfg.connectors = {} /\ cfg.mode = "exhaustive"
  <2>1. connectors = Tokens
    BY <1>3 DEF ConnectorTokens
  <2> QED
    BY <2>1 DEF FixedInv
<1>4. CASE cfg.connectors = {} /\ cfg.mode # "exhaustive"
  <2>1. connectors = ToSet(few)
    BY <1>4 DEF ConnectorTokens
  <2>2. cfg.mode = "heuristic" /\ cfg.max_connectors \in Nat
    BY <1>1, <1>4 DEF ValidConfig, ValidHeuristic
  <2>3. able \in SUBSET Tokens /\ Tokens \in SUBSET Nat /\ IsFiniteSet(Tokens)
    BY HeuristicAssumption
  <2>4. IsFiniteSet(able)
    BY <2>3, FS_Subset
  <2>5. ASSUME NEW t \in Tokens
        PROVE  TokenDegree(graph, t) \in Nat
    <3>1. IsFiniteSet(graph[t])
      BY GraphFinite
    <3> QED
      BY <3>1, FS_CardinalityType DEF TokenDegree
  <2>6. \A t \in able : /\ DOMAIN key[t] = 1 .. 2 /\ key[t][1] = TokenDegree(graph, t)
                        /\ key[t][2] = -t /\ t \in Nat /\ -t \in Int /\ TokenDegree(graph, t) \in Int
    BY <2>3, <2>5
  <2> HIDE DEF key, able
  <2>7. Keyed(able, key, 2)
    <3>1. \A k \in 1 .. 2 : k = 1 \/ k = 2
      OBVIOUS
    <3>2. 2 \in 1 .. 2
      OBVIOUS
    <3>3. \A t \in able : \A k \in 1 .. 2 : key[t][k] \in Int
      BY <2>6, <3>1
    <3>4. ASSUME NEW t \in able, NEW u \in able, t # u
          PROVE  key[t][2] # key[u][2]
      <4>1. t \in Nat /\ u \in Nat /\ key[t][2] = -t /\ key[u][2] = -u
        BY <2>6
      <4> QED
        BY <3>4, <4>1
    <3> QED
      BY <2>6, <3>2, <3>3, <3>4 DEF Keyed
  <2>8. PICK S, k, n : S = able /\ k = key /\ n = cfg.max_connectors
    OBVIOUS
  <2>9. Sorted(S, k) \in Seq(S)
    BY <2>4, <2>7, <2>8, SortedLists
  <2>10. Take(Sorted(S, k), n) \in Seq(S)
    BY <2>2, <2>8, <2>9, TakeOf
  <2>11. ToSet(Take(Sorted(S, k), n)) \subseteq S
    <3>1. PICK s \in Seq(S) : s = Take(Sorted(S, k), n)
      BY <2>10
    <3>2. \A i \in DOMAIN s : s[i] \in S
      OBVIOUS
    <3> QED
      BY <3>1, <3>2 DEF ToSet
  <2>12. connectors \subseteq Tokens
    BY <2>1, <2>3, <2>8, <2>11
  <2> QED
    BY <2>12 DEF FixedInv
<1> QED
  BY <1>2, <1>3, <1>4

------------------------------------------------------------------------------
(* The fast lane *)

\* Lists of one and of two elements.
LEMMA ShortLists ==
  ASSUME NEW x, NEW y
  PROVE  Len(<<x>>) = 1 /\ Len(<<x, y>>) = 2 /\ Append(<<x>>, y) = <<x, y>>
<1>1. <<x>> \in Seq({x, y}) /\ <<x, y>> \in Seq({x, y}) /\ y \in {x, y}
  OBVIOUS
<1>2. Len(<<x>>) = 1 /\ Len(<<x, y>>) = 2
  OBVIOUS
<1>3. /\ Append(<<x>>, y) \in Seq({x, y}) /\ Len(Append(<<x>>, y)) = 2
      /\ Append(<<x>>, y)[1] = x /\ Append(<<x>>, y)[2] = y
  BY <1>1, <1>2
<1>4. \A i \in 1 .. 2 : i = 1 \/ i = 2
  OBVIOUS
<1>5. <<x, y>>[1] = x /\ <<x, y>>[2] = y
  OBVIOUS
<1>6. PICK s, t \in Seq({x, y}) : s = Append(<<x>>, y) /\ t = <<x, y>>
  BY <1>1, <1>3
<1>7. Len(s) = 2 /\ Len(t) = 2 /\ \A i \in 1 .. 2 : s[i] = t[i]
  BY <1>2, <1>3, <1>4, <1>5, <1>6
<1>8. s = t
  BY <1>7
<1> QED
  BY <1>2, <1>6, <1>8

\* An edge of the source that may be followed is a walk of one hop.
LEMMA FirstHop ==
  ASSUME FixedInv, NEW h \in graph[Source], h.token_out = in.target \/ h.token_out \in connectors
  PROVE  <<h>> \in WalkFrom(<<>>, 1) /\ NodeOf(<<h>>) = h.token_out
<1>1. h \in Hop /\ h.token_out # Source
  BY FixedTypes, GraphEdges
<1>2. UsedPools(<<>>) = {} /\ VisitedTokens(<<>>) = {Source} /\ NodeOf(<<>>) = Source
  BY DEF UsedPools, VisitedTokens, HopsOf, NodeOf
<1>3. OpenHop(<<>>, h)
  BY <1>1, <1>2 DEF OpenHop, ClosesTarget, ConnectorAllowed
<1>4. h \in OpenHops(<<>>)
  BY <1>2, <1>3 DEF OpenHops
<1>5. <<>> \in WalkFrom(<<>>, 0) /\ 0 \in Nat /\ 0 + 1 = 1
  BY WalkUnfold
<1>6. Append(<<>>, h) \in WalkFrom(<<>>, 0 + 1)
  BY <1>4, <1>5, WalkOn
<1>7. Append(<<>>, h) = <<h>>
  OBVIOUS
<1>8. NodeOf(<<h>>) = h.token_out
  BY DEF NodeOf
<1> QED
  BY <1>5, <1>6, <1>7, <1>8

\* A second edge over another pool makes a walk of two hops.
LEMMA SecondHop ==
  ASSUME FixedInv, ~IsCycle, NEW c \in connectors \ {Source, in.target}, NEW g \in graph[Source],
         g.token_out = c, NEW h \in graph[c], h.token_out = in.target, TwoPools(g, h)
  PROVE  <<g, h>> \in WalkFrom(<<>>, 2) /\ NodeOf(<<g, h>>) = in.target
<1>1. <<g>> \in WalkFrom(<<>>, 1) /\ NodeOf(<<g>>) = c
  BY FirstHop
<1>2. UsedPools(<<g>>) = {g.pool} /\ VisitedTokens(<<g>>) = {Source, c}
  <2>1. HopsOf(<<g>>) = {g}
    BY DEF HopsOf
  <2> QED
    BY <2>1 DEF UsedPools, VisitedTokens
<1>3. OpenHop(<<g>>, h)
  BY <1>2 DEF OpenHop, ClosesTarget, IsCycle, TwoPools
<1>4. h \in OpenHops(<<g>>)
  BY <1>1, <1>3 DEF OpenHops
<1>5. 1 \in Nat /\ 1 + 1 = 2 /\ NodeOf(<<g>>) # in.target
  BY <1>1
<1>6. Append(<<g>>, h) \in WalkFrom(<<>>, 1 + 1)
  BY <1>1, <1>4, <1>5, WalkOn
<1>7. Append(<<g>>, h) = <<g, h>>
  BY ShortLists
<1>8. NodeOf(<<g, h>>) = h.token_out
  BY DEF NodeOf
<1> QED
  BY <1>5, <1>6, <1>7, <1>8

\* The direct paths of the fast lane are candidates, each once.
LEMMA DirectType ==
  ASSUME FixedInv, ValidHeuristic(cfg)
  PROVE  /\ DirectPaths \in Seq(EnumerateRoutes) /\ Distinct(DirectPaths)
         /\ \A k \in DOMAIN DirectPaths : Len(DirectPaths[k]) = 1
<1>1. CASE ~(cfg.direct_first /\ cfg.min_hops <= 1)
  <2>1. DirectPaths = <<>>
    BY <1>1 DEF DirectPaths
  <2> QED
    BY <2>1 DEF Distinct
<1>2. CASE cfg.direct_first /\ cfg.min_hops <= 1
  <2>1. PICK e : e = Between(Source, in.target, cfg.direct_edges)
    OBVIOUS
  <2>2. PICK t, n : t = in.target /\ n = cfg.direct_edges
    OBVIOUS
  <2>3. n \in Nat /\ Source \in Tokens
    BY <2>2, FixedTypes DEF ValidHeuristic, ValidFastLane
  <2>4. e \in Seq(graph[Source]) /\ Distinct(e) /\ \A i \in DOMAIN e : e[i].token_out = in.target
    BY <2>1, <2>2, <2>3, BetweenType
  <2>5. PICK r : r = [i \in DOMAIN e |-> <<e[i]>>]
    OBVIOUS
  <2>6. DirectPaths = r
    BY <1>2, <2>1, <2>5 DEF DirectPaths
  <2>7. ASSUME NEW i \in DOMAIN e
        PROVE  r[i] = <<e[i]>> /\ <<e[i]>> \in EnumerateRoutes
    <3>1. e[i] \in graph[Source] /\ e[i].token_out = in.target
      BY <2>4
    <3>2. <<e[i]>> \in WalkFrom(<<>>, 1) /\ NodeOf(<<e[i]>>) = in.target
      BY <3>1, FirstHop
    <3>3. 1 \in cfg.min_hops .. cfg.max_hops
      BY <1>2, FixedTypes
    <3> QED
      BY <2>5, <3>2, <3>3, IsRoute
  <2>8. DOMAIN e = 1 .. Len(e) /\ Len(e) \in Nat
    BY <2>4
  <2>9. r \in Seq(EnumerateRoutes) /\ DOMAIN r = DOMAIN e
    BY <2>5, <2>7, <2>8
  <2>10. Distinct(r)
    <3> SUFFICES ASSUME NEW i \in DOMAIN e, NEW j \in DOMAIN e, r[i] = r[j]
                 PROVE  i = j
      BY <2>9 DEF Distinct
    <3>1. <<e[i]>> = <<e[j]>>
      BY <2>7
    <3>2. e[i] = e[j]
      BY <3>1
    <3> QED
      BY <2>4, <3>2 DEF Distinct
  <2>11. \A i \in DOMAIN r : Len(r[i]) = 1
    BY <2>7, <2>9, ShortLists
  <2> QED
    BY <2>6, <2>9, <2>10, <2>11
<1> QED
  BY <1>1, <1>2

\* The two-hop paths of the fast lane are candidates, each once: their legs use two pools.
LEMMA ConnectorPathsType ==
  ASSUME FixedInv, ValidHeuristic(cfg), ~IsCycle
  PROVE  /\ ConnectorPaths \in Seq(EnumerateRoutes) /\ Distinct(ConnectorPaths)
         /\ \A k \in DOMAIN ConnectorPaths : Len(ConnectorPaths[k]) = 2
<1>1. CASE ~(cfg.max_hops >= 2 /\ cfg.min_hops <= 2)
  <2>1. ConnectorPaths = <<>>
    BY <1>1 DEF ConnectorPaths
  <2> QED
    BY <2>1 DEF Distinct
<1>2. CASE cfg.max_hops >= 2 /\ cfg.min_hops <= 2
  <2>1. PICK central, n : central = CentralConnectors /\ n = cfg.connector_edges
    OBVIOUS
  <2>2. /\ central \in Seq(connectors \ {Source, in.target}) /\ Distinct(central)
        /\ Len(central) \in Nat /\ DOMAIN central = 1 .. Len(central)
    BY <2>1, CentralType
  <2>3. n \in Nat /\ Source \in Tokens
    BY <2>1, FixedTypes DEF ValidHeuristic, ValidFastLane
  <2>4. PICK to : to = [i \in DOMAIN central |-> Between(Source, central[i], n)]
    OBVIOUS
  <2>5. PICK on : on = [i \in DOMAIN central |-> Between(central[i], in.target, n)]
    OBVIOUS
  <2>6. ASSUME NEW i \in DOMAIN central
        PROVE  /\ central[i] \in connectors \ {Source, in.target}
               /\ to[i] \in Seq(graph[Source]) /\ Distinct(to[i]) /\ on[i] \in Seq(graph[central[i]])
               /\ Distinct(on[i]) /\ \A j \in DOMAIN to[i] : to[i][j].token_out = central[i]
               /\ \A j \in DOMAIN on[i] : on[i][j].token_out = in.target
    <3>1. central[i] \in connectors \ {Source, in.target} /\ central[i] \in Tokens
      BY <2>2 DEF FixedInv
    <3>2. PICK t : t = in.target
      OBVIOUS
    <3>3. to[i] = Between(Source, central[i], n) /\ on[i] = Between(central[i], t, n)
      BY <2>4, <2>5, <3>2
    <3>4. /\ to[i] \in Seq(graph[Source]) /\ Distinct(to[i])
          /\ \A j \in DOMAIN to[i] : to[i][j].token_out = central[i]
      BY <2>3, <3>3, BetweenType
    <3>5. /\ on[i] \in Seq(graph[central[i]]) /\ Distinct(on[i])
          /\ \A j \in DOMAIN on[i] : on[i][j].token_out = t
      BY <2>3, <3>1, <3>3, BetweenType
    <3> QED
      BY <3>1, <3>2, <3>4, <3>5
  <2> DEFINE triples == (DOMAIN central) \X (1 .. n) \X (1 .. n)
             fits(x) == /\ x[2] \in DOMAIN to[x[1]] /\ x[3] \in DOMAIN on[x[1]]
                        /\ TwoPools(to[x[1]][x[2]], on[x[1]][x[3]])
  <2>7. PICK legs : legs = {x \in triples : fits(x)}
    OBVIOUS
  <2>8. PICK key : key = [x \in legs |-> <<-x[1], -x[2], -x[3]>>]
    OBVIOUS
  <2>9. PICK order : order = Sorted(legs, key)
    OBVIOUS
  <2>10. ASSUME NEW x \in legs
         PROVE  /\ x[1] \in DOMAIN central /\ x[2] \in 1 .. n /\ x[3] \in 1 .. n /\ fits(x)
                /\ x[1] \in Int /\ x[2] \in Int /\ x[3] \in Int /\ x = <<x[1], x[2], x[3]>>
    <3>1. x \in triples /\ fits(x)
      BY <2>7
    <3> HIDE DEF fits
    <3>2. x[1] \in DOMAIN central /\ x[2] \in 1 .. n /\ x[3] \in 1 .. n /\ x = <<x[1], x[2], x[3]>>
      BY <3>1
    <3> QED
      BY <2>2, <2>3, <3>1, <3>2
  <2>11. IsFiniteSet(legs)
    <3>1. IsFiniteSet(1 .. n) /\ IsFiniteSet(DOMAIN central)
      BY <2>2, <2>3, FS_Interval
    <3> DEFINE pairs == (DOMAIN central) \X ((1 .. n) \X (1 .. n))
               flat == [y \in pairs |-> <<y[1], y[2][1], y[2][2]>>]
    <3>2. IsFiniteSet((1 .. n) \X (1 .. n))
      BY <3>1, FS_Product
    <3>3. IsFiniteSet(pairs)
      BY <3>1, <3>2, FS_Product
    <3>4. ASSUME NEW x \in legs
          PROVE  x \in {flat[y] : y \in pairs}
      <4>1. /\ x[1] \in DOMAIN central /\ x[2] \in 1 .. n /\ x[3] \in 1 .. n
            /\ x = <<x[1], x[2], x[3]>>
        BY <2>10
      <4>2. <<x[1], <<x[2], x[3]>>>> \in pairs
        BY <4>1
      <4>3. flat[<<x[1], <<x[2], x[3]>>>>] = x
        BY <4>1, <4>2
      <4> QED
        BY <4>2, <4>3
    <3> HIDE DEF flat, pairs
    <3>5. IsFiniteSet({flat[y] : y \in pairs})
      BY <3>3, ImageFinite
    <3>6. legs \in SUBSET {flat[y] : y \in pairs}
      BY <3>4
    <3> QED
      BY <3>5, <3>6, FS_Subset
  <2> HIDE DEF triples
  <2>12. Keyed(legs, key, 3)
    <3>1. ASSUME NEW x \in legs
          PROVE  /\ DOMAIN key[x] = 1 .. 3 /\ key[x][1] = -x[1] /\ key[x][2] = -x[2] /\ key[x][3] = -x[3]
                 /\ -x[1] \in Int /\ -x[2] \in Int /\ -x[3] \in Int
      <4>1. x[1] \in Int /\ x[2] \in Int /\ x[3] \in Int
        BY <2>10
      <4> QED
        BY <2>8, <4>1
    <3>2. \A k \in 1 .. 3 : k = 1 \/ k = 2 \/ k = 3
      OBVIOUS
    <3>3. 1 \in 1 .. 3 /\ 2 \in 1 .. 3 /\ 3 \in 1 .. 3
      OBVIOUS
    <3>4. \A x \in legs : \A k \in 1 .. 3 : key[x][k] \in Int
      BY <3>1, <3>2
    <3>5. ASSUME NEW x \in legs, NEW y \in legs, x # y
          PROVE  \E k \in 1 .. 3 : key[x][k] # key[y][k]
      <4>1. /\ x[1] \in Int /\ x[2] \in Int /\ x[3] \in Int /\ x = <<x[1], x[2], x[3]>>
            /\ y[1] \in Int /\ y[2] \in Int /\ y[3] \in Int /\ y = <<y[1], y[2], y[3]>>
        BY <2>10
      <4>2. x[1] # y[1] \/ x[2] # y[2] \/ x[3] # y[3]
        BY <3>5, <4>1
      <4>3. -x[1] # -y[1] \/ -x[2] # -y[2] \/ -x[3] # -y[3]
        BY <4>1, <4>2
      <4>4. key[x][1] # key[y][1] \/ key[x][2] # key[y][2] \/ key[x][3] # key[y][3]
        BY <3>1, <4>3
      <4> QED
        BY <3>3, <4>4
    <3> QED
      BY <3>1, <3>4, <3>5 DEF Keyed
  <2>13. order \in Seq(legs) /\ Distinct(order)
    BY <2>9, <2>11, <2>12, SortedLists
  <2>14. \A k \in DOMAIN order : order[k] \in legs
    BY <2>13
  <2>15. PICK r : r = [k \in DOMAIN order |-> <<to[order[k][1]][order[k][2]], on[order[k][1]][order[k][3]]>>]
    OBVIOUS
  <2>16. ConnectorPaths = r
    <3> DEFINE first(x) == Between(Source, CentralConnectors[x[1]], cfg.connector_edges)
               second(x) == Between(CentralConnectors[x[1]], in.target, cfg.connector_edges)
               triples0 == (DOMAIN CentralConnectors) \X (1 .. cfg.connector_edges)
                             \X (1 .. cfg.connector_edges)
               legs0 == {x \in triples0 : /\ x[2] \in DOMAIN first(x) /\ x[3] \in DOMAIN second(x)
                                          /\ TwoPools(first(x)[x[2]], second(x)[x[3]])}
               order0 == Sorted(legs0, [x \in legs0 |-> <<-x[1], -x[2], -x[3]>>])
    <3>1. ConnectorPaths =
            [k \in DOMAIN order0 |-> <<first(order0[k])[order0[k][2]], second(order0[k])[order0[k][3]]>>]
      BY <1>2 DEF ConnectorPaths
    <3>2. triples0 = triples /\ \A x \in triples : x[1] \in DOMAIN central
      BY <2>1 DEF triples
    <3>3. \A x \in triples : first(x) = to[x[1]] /\ second(x) = on[x[1]]
      BY <2>1, <2>4, <2>5, <3>2
    <3> HIDE DEF triples0
    <3> HIDE DEF first, second
    <3>4. legs0 = legs
      BY <2>7, <3>2, <3>3
    <3> HIDE DEF legs0
    <3>5. order0 = order
      BY <2>8, <2>9, <3>4
    <3>6. \A k \in DOMAIN order : order[k] \in triples
      BY <2>7, <2>14
    <3> HIDE DEF order0
    <3> QED
      BY <2>15, <3>1, <3>3, <3>5, <3>6
  <2>17. ASSUME NEW x \in legs
         PROVE  <<to[x[1]][x[2]], on[x[1]][x[3]]>> \in EnumerateRoutes
    <3>1. /\ x[1] \in DOMAIN central /\ x[2] \in DOMAIN to[x[1]] /\ x[3] \in DOMAIN on[x[1]]
          /\ TwoPools(to[x[1]][x[2]], on[x[1]][x[3]])
      BY <2>10
    <3>2. PICK c, g, h : c = central[x[1]] /\ g = to[x[1]][x[2]] /\ h = on[x[1]][x[3]]
      OBVIOUS
    <3>3. /\ c \in connectors \ {Source, in.target} /\ g \in graph[Source] /\ g.token_out = c
          /\ h \in graph[c] /\ h.token_out = in.target /\ TwoPools(g, h)
      BY <2>6, <3>1, <3>2
    <3>4. <<g, h>> \in WalkFrom(<<>>, 2) /\ NodeOf(<<g, h>>) = in.target
      BY <3>3, SecondHop
    <3>5. 2 \in cfg.min_hops .. cfg.max_hops
      BY <1>2, FixedTypes
    <3> QED
      BY <3>2, <3>4, <3>5, IsRoute
  <2>18. \A k \in DOMAIN order :
           r[k] = <<to[order[k][1]][order[k][2]], on[order[k][1]][order[k][3]]>> /\ r[k] \in EnumerateRoutes
    BY <2>14, <2>15, <2>17
  <2>19. r \in Seq(EnumerateRoutes) /\ DOMAIN r = DOMAIN order
    <3>1. DOMAIN order = 1 .. Len(order) /\ Len(order) \in Nat
      BY <2>13
    <3>2. DOMAIN r = DOMAIN order /\ r = [k \in DOMAIN order |-> r[k]]
      BY <2>15
    <3> QED
      BY <2>18, <3>1, <3>2
  <2>20. ASSUME NEW k \in DOMAIN order, NEW l \in DOMAIN order, r[k] = r[l]
         PROVE  k = l
    <3>1. PICK x, y : x = order[k] /\ y = order[l]
      OBVIOUS
    <3>2. x \in legs /\ y \in legs
      BY <2>14, <3>1
    <3>3. /\ x[1] \in DOMAIN central /\ x[2] \in DOMAIN to[x[1]] /\ x[3] \in DOMAIN on[x[1]]
          /\ y[1] \in DOMAIN central /\ y[2] \in DOMAIN to[y[1]] /\ y[3] \in DOMAIN on[y[1]]
          /\ x = <<x[1], x[2], x[3]>> /\ y = <<y[1], y[2], y[3]>>
      BY <2>10, <3>2
    <3>4. <<to[x[1]][x[2]], on[x[1]][x[3]]>> = <<to[y[1]][y[2]], on[y[1]][y[3]]>>
      BY <2>18, <2>20, <3>1
    <3>5. to[x[1]][x[2]] = to[y[1]][y[2]] /\ on[x[1]][x[3]] = on[y[1]][y[3]]
      BY <3>4
    <3>6. to[x[1]][x[2]].token_out = central[x[1]] /\ to[y[1]][y[2]].token_out = central[y[1]]
      BY <2>6, <3>3
    <3>7. central[x[1]] = central[y[1]]
      BY <3>5, <3>6
    <3>8. x[1] = y[1]
      BY <2>2, <3>3, <3>7 DEF Distinct
    <3>9. Distinct(to[x[1]]) /\ Distinct(on[x[1]])
      BY <2>6, <3>3
    <3>10. x[2] = y[2] /\ x[3] = y[3]
      BY <3>3, <3>5, <3>8, <3>9 DEF Distinct
    <3>11. x = y
      BY <3>3, <3>8, <3>10
    <3> QED
      BY <2>13, <3>1, <3>11 DEF Distinct
  <2>21. Distinct(r)
    BY <2>19, <2>20 DEF Distinct
  <2>22. \A k \in DOMAIN r : Len(r[k]) = 2
    <3> SUFFICES ASSUME NEW k \in DOMAIN order
                 PROVE  Len(r[k]) = 2
      BY <2>19
    <3>1. PICK g, h : r[k] = <<g, h>>
      BY <2>18
    <3> QED
      BY <3>1, ShortLists
  <2> QED
    BY <2>16, <2>19, <2>21, <2>22
<1> QED
  BY <1>1, <1>2

\* Two lists without a common element, each without repetition, one after the other.
LEMMA ConcatDistinct ==
  ASSUME NEW T, NEW a \in Seq(T), NEW b \in Seq(T), Distinct(a), Distinct(b),
         \A i \in DOMAIN a : \A j \in DOMAIN b : a[i] # b[j]
  PROVE  a \o b \in Seq(T) /\ Distinct(a \o b)
<1>1. /\ a \o b \in Seq(T) /\ Len(a) \in Nat /\ Len(b) \in Nat
      /\ DOMAIN a = 1 .. Len(a) /\ DOMAIN b = 1 .. Len(b)
      /\ DOMAIN (a \o b) = 1 .. (Len(a) + Len(b))
  OBVIOUS
<1> DEFINE InA(i) == i \in DOMAIN a /\ (a \o b)[i] = a[i]
           InB(i) == i - Len(a) \in DOMAIN b /\ (a \o b)[i] = b[i - Len(a)]
<1>2. ASSUME NEW i \in 1 .. (Len(a) + Len(b))
      PROVE  InA(i) \/ InB(i)
  BY <1>1
<1>3. ASSUME NEW i \in 1 .. (Len(a) + Len(b)), NEW j \in 1 .. (Len(a) + Len(b)), (a \o b)[i] = (a \o b)[j]
      PROVE  i = j
  <2>1. CASE InA(i)
    <3>1. ~InB(j)
      BY <1>3, <2>1
    <3>2. InA(j)
      BY <1>2, <3>1
    <3> QED
      BY <1>3, <2>1, <3>2 DEF Distinct
  <2>2. CASE InB(i)
    <3>1. ~InA(j)
      BY <1>3, <2>2
    <3>2. InB(j)
      BY <1>2, <3>1
    <3>3. i - Len(a) = j - Len(a)
      BY <1>3, <2>2, <3>2 DEF Distinct
    <3> QED
      BY <1>1, <3>3
  <2> QED
    BY <1>2, <2>1, <2>2
<1> QED
  BY <1>1, <1>3 DEF Distinct

\* The fast lane quotes candidates, each once.
LEMMA FastLaneType ==
  ASSUME FixedInv, ValidHeuristic(cfg), ~IsCycle
  PROVE  FastLanePaths \in Seq(EnumerateRoutes) /\ Distinct(FastLanePaths)
<1>1. PICK R, a, b : R = EnumerateRoutes /\ a = DirectPaths /\ b = ConnectorPaths
  OBVIOUS
<1>2. /\ a \in Seq(R) /\ Distinct(a) /\ \A k \in DOMAIN a : Len(a[k]) = 1
      /\ b \in Seq(R) /\ Distinct(b) /\ \A k \in DOMAIN b : Len(b[k]) = 2
  BY <1>1, DirectType, ConnectorPathsType
<1>3. FastLanePaths = a \o b
  BY <1>1 DEF FastLanePaths
<1>4. ASSUME NEW i \in DOMAIN a, NEW j \in DOMAIN b
      PROVE  a[i] # b[j]
  <2>1. PICK p, q : p = a[i] /\ q = b[j] /\ Len(p) = 1 /\ Len(q) = 2
    BY <1>2
  <2>2. p # q
    BY <2>1
  <2> QED
    BY <2>1, <2>2
<1>5. a \o b \in Seq(R) /\ Distinct(a \o b)
  BY <1>2, <1>4, ConcatDistinct
<1> QED
  BY <1>1, <1>3, <1>5

------------------------------------------------------------------------------
(* Lists of quotes *)

QuoteRec == [path : EnumerateRoutes, amount : Nat]
\* Quotes of candidates, of each at most one.
GoodQuotes(qs) ==
  /\ qs \in Seq(QuoteRec)
  /\ \A i, j \in DOMAIN qs : qs[i].path = qs[j].path => i = j
\* What ResultsAreCandidates says of a list.
Listed(r) ==
  /\ \A i \in DOMAIN r : r[i].path \in EnumerateRoutes
  /\ \A i, j \in DOMAIN r : i < j => r[i].path # r[j].path /\ r[i].amount >= r[j].amount

\* The quote of a candidate.
LEMMA QuoteRecordType ==
  ASSUME FixedInv, NEW p \in EnumerateRoutes
  PROVE  QuoteRecord(p) \in QuoteRec /\ QuoteRecord(p).path = p
<1>1. p \in Seq(Hop)
  BY RoutesShape
<1>2. QuotePath(p) \in Nat
  BY <1>1, QuoteType
<1> QED
  BY <1>2 DEF QuoteRecord, QuoteRec

\* A candidate cap keeps the front of a list.
LEMMA UpToCapType ==
  ASSUME FixedInv, NEW T, NEW s \in Seq(T)
  PROVE  /\ UpToCap(s) \in Seq(T) /\ (Distinct(s) => Distinct(UpToCap(s)))
         /\ DOMAIN UpToCap(s) \subseteq DOMAIN s /\ \A i \in DOMAIN UpToCap(s) : UpToCap(s)[i] = s[i]
<1>1. CASE cfg.max_candidates = 0
  BY <1>1 DEF UpToCap
<1>2. CASE cfg.max_candidates # 0
  <2>1. PICK n \in Nat : n = cfg.max_candidates
    BY FixedTypes
  <2>2. UpToCap(s) = Take(s, n)
    BY <1>2, <2>1 DEF UpToCap
  <2>3. PICK r : r = Take(s, n)
    OBVIOUS
  <2>4. /\ r \in Seq(T) /\ DOMAIN r \subseteq DOMAIN s /\ \A i \in DOMAIN r : r[i] = s[i]
        /\ (Distinct(s) => Distinct(r))
    BY <2>3, TakeOf
  <2> QED
    BY <2>2, <2>3, <2>4
<1> QED
  BY <1>1, <1>2

\* Quoting a list of candidates gives quotes of different candidates of the list.
LEMMA ViableType ==
  ASSUME FixedInv, NEW s \in Seq(EnumerateRoutes), Distinct(s)
  PROVE  /\ GoodQuotes(ViableQuotes(s))
         /\ \A i \in DOMAIN ViableQuotes(s) : ViableQuotes(s)[i].path \in ToSet(s)
<1>1. PICK P : P = {i \in DOMAIN s : QuotePath(s[i]) # 0}
  OBVIOUS
<1>2. PICK R : R = EnumerateRoutes
  OBVIOUS
<1>3. PICK v : v = Those(s, P)
  OBVIOUS
<1>4. s \in Seq(R) /\ P \in SUBSET (DOMAIN s)
  BY <1>1, <1>2
<1>5. v \in Seq(R) /\ Distinct(v) /\ \A k \in DOMAIN v : \E i \in P : v[k] = s[i]
  BY <1>3, <1>4, ThoseOf
<1>6. ViableQuotes(s) = [i \in DOMAIN v |-> QuoteRecord(v[i])]
  BY <1>1, <1>3 DEF ViableQuotes
<1>7. PICK q : q = [i \in DOMAIN v |-> QuoteRecord(v[i])]
  OBVIOUS
<1>8. ASSUME NEW i \in DOMAIN v
      PROVE  q[i] \in QuoteRec /\ q[i].path = v[i]
  <2>1. v[i] \in EnumerateRoutes
    BY <1>2, <1>5
  <2>2. q[i] = QuoteRecord(v[i])
    BY <1>7
  <2> QED
    BY <2>1, <2>2, QuoteRecordType
<1>9. DOMAIN v = 1 .. Len(v) /\ Len(v) \in Nat
  BY <1>5
<1>10. q \in Seq(QuoteRec) /\ DOMAIN q = DOMAIN v
  <2>1. DOMAIN q = DOMAIN v /\ q = [i \in DOMAIN v |-> q[i]]
    BY <1>7
  <2> QED
    BY <1>8, <1>9, <2>1
<1>11. GoodQuotes(q)
  <2>1. \A i, j \in DOMAIN q : q[i].path = q[j].path => i = j
    BY <1>5, <1>8, <1>10 DEF Distinct
  <2> QED
    BY <1>10, <2>1 DEF GoodQuotes
<1>12. \A i \in DOMAIN q : q[i].path \in ToSet(s)
  <2> SUFFICES ASSUME NEW i \in DOMAIN v
               PROVE  v[i] \in ToSet(s)
    BY <1>8, <1>10
  <2>1. PICK k \in P : v[i] = s[k]
    BY <1>5
  <2> QED
    BY <1>4, <2>1 DEF ToSet
<1> QED
  BY <1>6, <1>7, <1>11, <1>12

\* Quotes in the order of their amounts.
LEMMA ByAmountListed ==
  ASSUME NEW qs, GoodQuotes(qs)
  PROVE  Listed(ByAmount(qs)) /\ ByAmount(qs) \in Seq(QuoteRec)
<1>1. PICK Q : Q = QuoteRec
  OBVIOUS
<1>2. PICK key : key = [i \in DOMAIN qs |-> qs[i].amount]
  OBVIOUS
<1>3. qs \in Seq(Q)
  BY <1>1 DEF GoodQuotes
<1>4. ASSUME NEW i \in DOMAIN qs
      PROVE  qs[i].path \in EnumerateRoutes /\ key[i] = qs[i].amount /\ key[i] \in Int
  <2>1. qs[i] \in QuoteRec
    BY <1>1, <1>3
  <2> QED
    BY <1>2, <2>1 DEF QuoteRec
<1>5. PICK r : r = SortedSeq(qs, key)
  OBVIOUS
<1>6. /\ r \in Seq(Q)
      /\ \A k, l \in DOMAIN r : k < l => \E i, j \in DOMAIN qs :
           i # j /\ key[i] >= key[j] /\ r[k] = qs[i] /\ r[l] = qs[j]
  BY <1>3, <1>4, <1>5, SortedSeqOf
<1>7. ByAmount(qs) = r
  BY <1>2, <1>5 DEF ByAmount
<1>8. ASSUME NEW k \in DOMAIN r
      PROVE  r[k].path \in EnumerateRoutes
  <2>1. r[k] \in QuoteRec
    BY <1>1, <1>6
  <2> QED
    BY <2>1 DEF QuoteRec
<1>9. ASSUME NEW k \in DOMAIN r, NEW l \in DOMAIN r, k < l
      PROVE  r[k].path # r[l].path /\ r[k].amount >= r[l].amount
  <2>1. PICK i, j \in DOMAIN qs : i # j /\ key[i] >= key[j] /\ r[k] = qs[i] /\ r[l] = qs[j]
    BY <1>6, <1>9
  <2>2. qs[i].path # qs[j].path
    BY <2>1 DEF GoodQuotes
  <2> QED
    BY <1>4, <2>1, <2>2
<1> QED
  BY <1>1, <1>6, <1>7, <1>8, <1>9 DEF Listed

\* The finalists are a front of the quotes by output.
LEMMA FinalistsListed ==
  ASSUME NEW qs, GoodQuotes(qs), ValidHeuristic(cfg)
  PROVE  Listed(Finalists(qs))
<1>1. PICK n : n = cfg.max_finalists
  OBVIOUS
<1>2. PICK Q, r : Q = QuoteRec /\ r = ByAmount(qs)
  OBVIOUS
<1>3. n \in Nat
  BY <1>1 DEF ValidHeuristic
<1>4. r \in Seq(Q) /\ Listed(r)
  BY <1>2, ByAmountListed
<1>5. DOMAIN Take(r, n) \subseteq DOMAIN r /\ \A i \in DOMAIN Take(r, n) : Take(r, n)[i] = r[i]
  BY <1>3, <1>4, TakeOf
<1>6. Finalists(qs) = Take(r, n)
  BY <1>1, <1>2 DEF Finalists
<1> QED
  BY <1>4, <1>5, <1>6 DEF Listed

------------------------------------------------------------------------------
(* Prefixes and their expansion *)

\* What may be on the frontier: a walk that has not reached the target.
OpenWalks ==
  {p \in Seq(Hop) : p \in WalkFrom(<<>>, Len(p)) /\ (p = <<>> \/ NodeOf(p) # in.target)}

\* The hops of a prefix that are quoted can be followed.
LEMMA QuotedHopsType ==
  ASSUME FixedInv, ValidHeuristic(cfg), NEW p \in OpenWalks, NEW t
  PROVE  QuotedHops(p, t) \in Seq(OpenHops(p))
<1>1. p \in Seq(Hop)
  BY DEF OpenWalks
<1>2. NodeOf(p) \in Tokens /\ QuotePath(p) \in Nat
  BY <1>1, NodeType, QuoteType
<1>3. PICK group, open : group = GroupHops(p, t) /\ open = OpenHops(p)
  OBVIOUS
<1>4. group \subseteq open /\ \A h \in group : h.token_out = t
  BY <1>3 DEF GroupHops
<1>5. /\ open \subseteq graph[NodeOf(p)] /\ graph[NodeOf(p)] \subseteq Hop
      /\ IsFiniteSet(graph[NodeOf(p)]) /\ \A h \in graph[NodeOf(p)] : h.token_in = NodeOf(p)
  BY <1>2, <1>3, GraphEdges DEF OpenHops
<1>6. group \in SUBSET Hop /\ IsFiniteSet(group)
  BY <1>4, <1>5, FS_Subset
<1>7. PoolsDiffer(group)
  <2> SUFFICES ASSUME NEW g \in group, NEW h \in group, g.pool = h.pool
               PROVE  g = h
    BY DEF PoolsDiffer
  <2>1. g \in Hop /\ h \in Hop /\ g.token_in = h.token_in /\ g.token_out = h.token_out
    BY <1>4, <1>5
  <2> QED
    BY <2>1 DEF Hop
<1>8. PICK all : all = RankedHops(group)
  OBVIOUS
<1>9. all \in Seq(group)
  BY <1>6, <1>7, <1>8, RankedHopsType
<1>10. PICK limit : limit = EdgeLimit
  OBVIOUS
<1>11. limit \in Nat
  BY <1>10 DEF EdgeLimit, ValidHeuristic, ValidEdgeShortlist
<1>12. PICK ranked : ranked = Shortlisted(all)
  OBVIOUS
<1>13. ranked \in Seq(group)
  <2>1. Take(all, limit) \in Seq(group)
    BY <1>9, <1>11, TakeOf
  <2> QED
    BY <1>9, <1>10, <1>12, <2>1 DEF Shortlisted
<1> DEFINE out(h) == SimulateSwap(h, QuotePath(p))
           skip(h, b) == PruneLiquidityHop(h, GroupHops(p, t), b) \/ out(h) = 0
           ranked0 == Shortlisted(RankedHops(GroupHops(p, t)))
           best[i \in 0 .. Len(ranked0)] ==
             IF i = 0 THEN 0
             ELSE IF skip(ranked0[i], best[i - 1]) THEN best[i - 1]
             ELSE Better(best[i - 1], out(ranked0[i]))
           P0 == {i \in DOMAIN ranked0 : ~skip(ranked0[i], best[i - 1])}
           quoted0 == Those(ranked0, P0)
           key0 == [i \in DOMAIN quoted0 |-> out(quoted0[i])]
           n0 == IF cfg.shortlist THEN EdgeLimit ELSE cfg.parallel_edge_limit
<1>14. QuotedHops(p, t) = Take(SortedSeq(quoted0, key0), n0)
  BY DEF QuotedHops
<1>15. ranked0 = ranked
  BY <1>3, <1>8, <1>12
<1> HIDE DEF ranked0, best, skip
<1>16. PICK P : P = P0
  OBVIOUS
<1>17. P \in SUBSET (DOMAIN ranked)
  BY <1>15, <1>16
<1> HIDE DEF P0
<1>18. PICK quoted : quoted = quoted0
  OBVIOUS
<1>19. quoted \in Seq(group)
  <2>1. quoted = Those(ranked, P)
    BY <1>15, <1>16, <1>18
  <2> QED
    BY <1>13, <1>17, <2>1, ThoseOf
<1> HIDE DEF quoted0
<1>20. PICK key : key = key0
  OBVIOUS
<1>21. \A i \in DOMAIN quoted : key[i] \in Int
  <2> SUFFICES ASSUME NEW i \in DOMAIN quoted
               PROVE  key[i] \in Int
    OBVIOUS
  <2>1. quoted[i] \in Hop
    BY <1>6, <1>19
  <2>2. key[i] = SimulateSwap(quoted[i], QuotePath(p))
    BY <1>18, <1>20
  <2>3. PICK amount \in Nat : amount = QuotePath(p)
    BY <1>2
  <2>4. SimulateSwap(quoted[i], amount) \in Nat
    BY <2>1, SwapType
  <2> QED
    BY <2>2, <2>3, <2>4
<1> HIDE DEF key0
<1>22. SortedSeq(quoted, key) \in Seq(group)
  BY <1>19, <1>21, SortedSeqOf
<1>23. PICK n : n = n0
  OBVIOUS
<1>24. n \in Nat
  BY <1>10, <1>11, <1>23 DEF ValidHeuristic
<1> HIDE DEF n0
<1>25. Take(SortedSeq(quoted, key), n) \in Seq(group)
  BY <1>22, <1>24, TakeOf
<1>26. QuotedHops(p, t) \in Seq(group)
  BY <1>14, <1>18, <1>20, <1>23, <1>25
<1>27. QuotedHops(p, t) \in Seq(open)
  BY <1>4, <1>26
<1> QED
  BY <1>3, <1>27

AccFields == {"quotes", "evaluated", "incumbent", "next", "labels", "deferred", "broke"}
\* What the loop body keeps: the quotes are of candidates noted as evaluated, and what goes
\* to the next level are prefixes.
AccOk(acc) ==
  /\ DOMAIN acc = AccFields
  /\ GoodQuotes(acc.quotes) /\ \A i \in DOMAIN acc.quotes : acc.quotes[i].path \in acc.evaluated
  /\ acc.next \in Seq(OpenWalks)

\* A quote of a path that was not evaluated can be added.
LEMMA AddQuote ==
  ASSUME NEW qs, GoodQuotes(qs), NEW E, \A i \in DOMAIN qs : qs[i].path \in E,
         NEW q \in QuoteRec, q.path \notin E
  PROVE  /\ GoodQuotes(Append(qs, q))
         /\ \A i \in DOMAIN Append(qs, q) : Append(qs, q)[i].path \in E \cup {q.path}
<1>1. PICK Q : Q = QuoteRec
  OBVIOUS
<1>2. qs \in Seq(Q) /\ q \in Q
  BY <1>1 DEF GoodQuotes
<1>3. PICK s : s = Append(qs, q)
  OBVIOUS
<1>4. /\ s \in Seq(Q) /\ Len(qs) \in Nat /\ DOMAIN s = 1 .. (Len(qs) + 1) /\ DOMAIN qs = 1 .. Len(qs)
      /\ s[Len(qs) + 1] = q /\ \A i \in 1 .. Len(qs) : s[i] = qs[i]
  BY <1>2, <1>3
<1>5. \A i \in DOMAIN s : i \in DOMAIN qs \/ i = Len(qs) + 1
  BY <1>4
<1>6. \A i \in DOMAIN qs : s[i].path = qs[i].path /\ qs[i].path \in E
  BY <1>4
<1>7. s[Len(qs) + 1].path = q.path
  BY <1>4
<1>8. \A i, j \in DOMAIN s : s[i].path = s[j].path => i = j
  BY <1>5, <1>6, <1>7 DEF GoodQuotes
<1>9. \A i \in DOMAIN s : s[i].path \in E \cup {q.path}
  BY <1>5, <1>6, <1>7
<1> QED
  BY <1>1, <1>3, <1>4, <1>8, <1>9 DEF GoodQuotes

\* What one open hop makes of a prefix: a candidate at the target, else a prefix.
LEMMA LongerPrefix ==
  ASSUME FixedInv, NEW p \in OpenWalks, Len(p) < cfg.max_hops, NEW h \in OpenHops(p)
  PROVE  /\ Append(p, h) \in Seq(Hop) /\ Len(Append(p, h)) = Len(p) + 1
         /\ Append(p, h) \in WalkFrom(<<>>, Len(p) + 1)
         /\ ClosesTarget(h) /\ ~(Len(Append(p, h)) < cfg.min_hops) => Append(p, h) \in EnumerateRoutes
         /\ ~ClosesTarget(h) => Append(p, h) \in OpenWalks
<1>1. PICK n : n = Len(p)
  OBVIOUS
<1>2. p \in Seq(Hop) /\ n \in Nat /\ p \in WalkFrom(<<>>, n) /\ (p = <<>> \/ NodeOf(p) # in.target)
  BY <1>1 DEF OpenWalks
<1>3. p \in Walks(n)
  BY <1>2, WalkShape
<1>4. PICK q : q = Append(p, h)
  OBVIOUS
<1>5. q \in Walks(n + 1) /\ NodeOf(q) = h.token_out
  BY <1>2, <1>3, <1>4, LongerWalk
<1>6. q \in Seq(Hop) /\ Len(q) = n + 1
  BY <1>5 DEF Walks
<1>7. q \in WalkFrom(<<>>, n + 1)
  BY <1>2, <1>4, WalkOn
<1>8. ASSUME ClosesTarget(h), ~(Len(q) < cfg.min_hops)
      PROVE  q \in EnumerateRoutes
  <2>1. n + 1 \in cfg.min_hops .. cfg.max_hops
    BY <1>1, <1>2, <1>6, <1>8, FixedTypes
  <2>2. NodeOf(q) = in.target
    BY <1>5, <1>8 DEF ClosesTarget
  <2> QED
    BY <1>7, <2>1, <2>2, IsRoute
<1>9. ASSUME ~ClosesTarget(h)
      PROVE  q \in OpenWalks
  <2>1. NodeOf(q) # in.target
    BY <1>5, <1>9 DEF ClosesTarget
  <2> QED
    BY <1>6, <1>7, <2>1 DEF OpenWalks
<1> QED
  BY <1>1, <1>4, <1>6, <1>7, <1>8, <1>9

\* One quoted hop: quotes stay those of different candidates, prefixes stay walks.
LEMMA KeepHopOk ==
  ASSUME FixedInv, NEW p \in OpenWalks, Len(p) < cfg.max_hops, NEW h \in OpenHops(p),
         NEW acc, AccOk(acc)
  PROVE  AccOk(KeepHop(p, acc, h))
<1>1. PICK q : q = Append(p, h)
  OBVIOUS
<1>2. CASE KeepHop(p, acc, h) = acc
  BY <1>2
<1>3. CASE /\ ClosesTarget(h) /\ ~(Len(q) < cfg.min_hops) /\ q \notin acc.evaluated
           /\ KeepHop(p, acc, h) = [acc EXCEPT !.evaluated = @ \cup {q},
                                               !.quotes = Append(@, QuoteRecord(q)),
                                               !.incumbent = Better(@, QuotePath(q)),
                                               !.broke = MaxCandidatesReached(Len(acc.quotes) + 1)]
  <2>1. q \in EnumerateRoutes
    BY <1>1, <1>3, LongerPrefix
  <2>2. PICK r : r = QuoteRecord(q)
    OBVIOUS
  <2>3. r \in QuoteRec /\ r.path = q
    BY <2>1, <2>2, QuoteRecordType
  <2>4. PICK b : b = KeepHop(p, acc, h)
    OBVIOUS
  <2>5. /\ DOMAIN b = AccFields /\ b.evaluated = acc.evaluated \cup {q}
        /\ b.quotes = Append(acc.quotes, r) /\ b.next = acc.next
    BY <1>3, <2>2, <2>4 DEF AccOk, AccFields
  <2>6. PICK qs, E : qs = acc.quotes /\ E = acc.evaluated
    OBVIOUS
  <2>7. GoodQuotes(qs) /\ \A i \in DOMAIN qs : qs[i].path \in E
    BY <2>6 DEF AccOk
  <2>8. GoodQuotes(Append(qs, r)) /\ \A i \in DOMAIN Append(qs, r) : Append(qs, r)[i].path \in E \cup {q}
    BY <1>3, <2>3, <2>6, <2>7, AddQuote
  <2>9. GoodQuotes(b.quotes) /\ \A i \in DOMAIN b.quotes : b.quotes[i].path \in b.evaluated
    BY <2>5, <2>6, <2>8
  <2>10. b.next \in Seq(OpenWalks)
    BY <2>5 DEF AccOk
  <2>11. AccOk(b)
    BY <2>5, <2>9, <2>10 DEF AccOk
  <2> QED
    BY <2>4, <2>11
<1>4. CASE /\ ~ClosesTarget(h)
           /\ KeepHop(p, acc, h) = [acc EXCEPT !.next = Append(@, q),
                                               !.labels = IF cfg.dominance THEN InsertLabel(@, q) ELSE @]
  <2>1. q \in OpenWalks
    BY <1>1, <1>4, LongerPrefix
  <2>2. PICK b : b = KeepHop(p, acc, h)
    OBVIOUS
  <2>3. /\ DOMAIN b = AccFields /\ b.evaluated = acc.evaluated /\ b.quotes = acc.quotes
        /\ b.next = Append(acc.next, q)
    BY <1>4, <2>2 DEF AccOk, AccFields
  <2>4. PICK F, s : F = OpenWalks /\ s = acc.next
    OBVIOUS
  <2>5. s \in Seq(F) /\ q \in F
    BY <2>1, <2>4 DEF AccOk
  <2>6. Append(s, q) \in Seq(F)
    BY <2>5
  <2>7. b.next \in Seq(OpenWalks)
    BY <2>3, <2>4, <2>6
  <2>8. GoodQuotes(b.quotes) /\ \A i \in DOMAIN b.quotes : b.quotes[i].path \in b.evaluated
    BY <2>3 DEF AccOk
  <2>9. AccOk(b)
    BY <2>3, <2>7, <2>8 DEF AccOk
  <2> QED
    BY <2>2, <2>9
<1> QED
  BY <1>1, <1>2, <1>3, <1>4 DEF KeepHop

\* The loop over the hops of a group.
IsKept(path, acc, hops, n, f) == f = [i \in 0 .. n |-> IF i = 0 THEN acc ELSE KeepHop(path, f[i - 1], hops[i])]
KeptSteps(path, acc, hops, n, f) == f[0] = acc /\ \A i \in 1 .. n : f[i] = KeepHop(path, f[i - 1], hops[i])

\* The loop over the quoted hops, hop by hop.
LEMMA KeptUnfold ==
  ASSUME NEW path, NEW acc, NEW hops, NEW n \in Nat, NEW f, IsKept(path, acc, hops, n, f)
  PROVE  KeptSteps(path, acc, hops, n, f)
<1>1. \A i \in 0 .. n : f[i] = IF i = 0 THEN acc ELSE KeepHop(path, f[i - 1], hops[i])
  <2> DEFINE body(i) == IF i = 0 THEN acc ELSE KeepHop(path, f[i - 1], hops[i])
  <2>1. f = [i \in 0 .. n |-> body(i)]
    BY DEF IsKept
  <2> HIDE DEF body
  <2>2. \A i \in 0 .. n : f[i] = body(i)
    BY <2>1
  <2> QED
    BY <2>2 DEF body
<1> QED
  BY <1>1 DEF KeptSteps

\* There is such a function.
LEMMA KeptExists ==
  ASSUME NEW path, NEW acc, NEW hops, NEW n \in Nat
  PROVE  \E f : IsKept(path, acc, hops, n, f)
<1> DEFINE S == {m \in Nat : \E f : IsKept(path, acc, hops, m, f)}
<1>1. 0 \in S
  <2>1. IsKept(path, acc, hops, 0, [i \in 0 .. 0 |-> acc])
    BY DEF IsKept
  <2> QED
    BY <2>1
<1>2. ASSUME NEW m \in Nat, m \in S
      PROVE  m + 1 \in S
  <2>1. PICK f : IsKept(path, acc, hops, m, f)
    BY <1>2
  <2>2. KeptSteps(path, acc, hops, m, f)
    BY <2>1, KeptUnfold
  <2>3. f[0] = acc /\ \A i \in 1 .. m : f[i] = KeepHop(path, f[i - 1], hops[i])
    BY <2>2 DEF KeptSteps
  <2> DEFINE g == [i \in 0 .. (m + 1) |-> IF i = m + 1 THEN KeepHop(path, f[m], hops[m + 1]) ELSE f[i]]
  <2>4. ASSUME NEW i \in 0 .. (m + 1)
        PROVE  g[i] = IF i = 0 THEN acc ELSE KeepHop(path, g[i - 1], hops[i])
    <3>1. CASE i = 0
      BY <2>3, <3>1
    <3>2. CASE i \in 1 .. m
      <4>1. g[i] = f[i] /\ g[i - 1] = f[i - 1]
        BY <3>2
      <4> QED
        BY <2>3, <3>2, <4>1
    <3>3. CASE i = m + 1
      <4>1. g[i] = KeepHop(path, f[m], hops[i]) /\ g[i - 1] = f[m]
        BY <3>3
      <4> QED
        BY <3>3, <4>1
    <3> QED
      BY <3>1, <3>2, <3>3
  <2>5. IsKept(path, acc, hops, m + 1, g)
    <3>1. g = [i \in 0 .. (m + 1) |-> g[i]]
      OBVIOUS
    <3> HIDE DEF g
    <3> QED
      BY <2>4, <3>1 DEF IsKept
  <2> QED
    BY <2>5
<1>3. n \in S
  <2> HIDE DEF S
  <2> QED
    BY <1>1, <1>2, SetInduction
<1> QED
  BY <1>3

\* The loop body for the hops to one token.
LEMMA ExpandGroupOk ==
  ASSUME FixedInv, ValidHeuristic(cfg), NEW p \in OpenWalks, Len(p) < cfg.max_hops, NEW t, NEW acc, AccOk(acc)
  PROVE  AccOk(ExpandGroup(p, acc, t))
<1> DEFINE leaves == /\ pass = "initial" /\ HasRefinementPass
                     /\ Cardinality(GroupHops(p, t)) > EdgeLimit
           start == [acc EXCEPT !.deferred = @ \/ leaves]
<1>1. PICK hops, a, n : hops = QuotedHops(p, t) /\ a = start /\ n = Len(hops)
  OBVIOUS
<1>2. PICK open : open = OpenHops(p)
  OBVIOUS
<1>3. hops \in Seq(open) /\ n \in Nat
  BY <1>1, <1>2, QuotedHopsType
<1>4. AccOk(a)
  <2>1. /\ DOMAIN a = AccFields /\ a.quotes = acc.quotes /\ a.evaluated = acc.evaluated
        /\ a.next = acc.next
    BY <1>1 DEF AccOk, AccFields
  <2> QED
    BY <2>1 DEF AccOk
<1>5. ExpandGroup(p, acc, t) = IF acc.broke THEN acc ELSE (CHOOSE f : IsKept(p, a, hops, n, f))[n]
  BY <1>1 DEF ExpandGroup, IsKept
<1>6. PICK f : f = CHOOSE w : IsKept(p, a, hops, n, w)
  OBVIOUS
<1>7. IsKept(p, a, hops, n, f)
  BY <1>3, <1>6, KeptExists
<1>8. KeptSteps(p, a, hops, n, f)
  BY <1>3, <1>7, KeptUnfold
<1>9. f[0] = a /\ \A i \in 1 .. n : f[i] = KeepHop(p, f[i - 1], hops[i])
  BY <1>8 DEF KeptSteps
<1> DEFINE S == {m \in Nat : m <= n => AccOk(f[m])}
<1>10. 0 \in S
  BY <1>4, <1>9
<1>11. ASSUME NEW m \in Nat, m \in S
       PROVE  m + 1 \in S
  <2> SUFFICES ASSUME m + 1 <= n
               PROVE  AccOk(f[m + 1])
    OBVIOUS
  <2>1. m + 1 \in 1 .. n /\ (m + 1) - 1 = m
    BY <1>3
  <2>2. PICK b, h : b = f[m] /\ h = hops[m + 1]
    OBVIOUS
  <2>3. AccOk(b)
    BY <1>3, <1>11, <2>2
  <2>4. h \in OpenHops(p)
    BY <1>1, <1>2, <1>3, <2>1, <2>2
  <2>5. AccOk(KeepHop(p, b, h))
    BY <2>3, <2>4, KeepHopOk
  <2>6. f[m + 1] = KeepHop(p, b, h)
    BY <1>9, <2>1, <2>2
  <2> QED
    BY <2>5, <2>6
<1>12. n \in S
  <2> HIDE DEF S
  <2> QED
    BY <1>3, <1>10, <1>11, SetInduction
<1>13. AccOk(f[n])
  BY <1>3, <1>12
<1> QED
  BY <1>5, <1>6, <1>13

\* The loop over the groups of a prefix.
IsGroups(path, acc, groups, n, f) == f = [i \in 0 .. n |-> IF i = 0 THEN acc ELSE ExpandGroup(path, f[i - 1], groups[i])]
GroupsSteps(path, acc, groups, n, f) == f[0] = acc /\ \A i \in 1 .. n : f[i] = ExpandGroup(path, f[i - 1], groups[i])

\* The loop over the groups, group by group.
LEMMA GroupsUnfold ==
  ASSUME NEW path, NEW acc, NEW groups, NEW n \in Nat, NEW f, IsGroups(path, acc, groups, n, f)
  PROVE  GroupsSteps(path, acc, groups, n, f)
<1>1. \A i \in 0 .. n : f[i] = IF i = 0 THEN acc ELSE ExpandGroup(path, f[i - 1], groups[i])
  <2> DEFINE body(i) == IF i = 0 THEN acc ELSE ExpandGroup(path, f[i - 1], groups[i])
  <2>1. f = [i \in 0 .. n |-> body(i)]
    BY DEF IsGroups
  <2> HIDE DEF body
  <2>2. \A i \in 0 .. n : f[i] = body(i)
    BY <2>1
  <2> QED
    BY <2>2 DEF body
<1> QED
  BY <1>1 DEF GroupsSteps

\* There is such a function.
LEMMA GroupsExists ==
  ASSUME NEW path, NEW acc, NEW groups, NEW n \in Nat
  PROVE  \E f : IsGroups(path, acc, groups, n, f)
<1> DEFINE S == {m \in Nat : \E f : IsGroups(path, acc, groups, m, f)}
<1>1. 0 \in S
  <2>1. IsGroups(path, acc, groups, 0, [i \in 0 .. 0 |-> acc])
    BY DEF IsGroups
  <2> QED
    BY <2>1
<1>2. ASSUME NEW m \in Nat, m \in S
      PROVE  m + 1 \in S
  <2>1. PICK f : IsGroups(path, acc, groups, m, f)
    BY <1>2
  <2>2. GroupsSteps(path, acc, groups, m, f)
    BY <2>1, GroupsUnfold
  <2>3. f[0] = acc /\ \A i \in 1 .. m : f[i] = ExpandGroup(path, f[i - 1], groups[i])
    BY <2>2 DEF GroupsSteps
  <2> DEFINE g == [i \in 0 .. (m + 1) |-> IF i = m + 1 THEN ExpandGroup(path, f[m], groups[m + 1]) ELSE f[i]]
  <2>4. ASSUME NEW i \in 0 .. (m + 1)
        PROVE  g[i] = IF i = 0 THEN acc ELSE ExpandGroup(path, g[i - 1], groups[i])
    <3>1. CASE i = 0
      BY <2>3, <3>1
    <3>2. CASE i \in 1 .. m
      <4>1. g[i] = f[i] /\ g[i - 1] = f[i - 1]
        BY <3>2
      <4> QED
        BY <2>3, <3>2, <4>1
    <3>3. CASE i = m + 1
      <4>1. g[i] = ExpandGroup(path, f[m], groups[i]) /\ g[i - 1] = f[m]
        BY <3>3
      <4> QED
        BY <3>3, <4>1
    <3> QED
      BY <3>1, <3>2, <3>3
  <2>5. IsGroups(path, acc, groups, m + 1, g)
    <3>1. g = [i \in 0 .. (m + 1) |-> g[i]]
      OBVIOUS
    <3> HIDE DEF g
    <3> QED
      BY <2>4, <3>1 DEF IsGroups
  <2> QED
    BY <2>5
<1>3. n \in S
  <2> HIDE DEF S
  <2> QED
    BY <1>1, <1>2, SetInduction
<1> QED
  BY <1>3

\* A whole prefix expanded.
LEMMA ExpandGroupsOk ==
  ASSUME FixedInv, ValidHeuristic(cfg), NEW p \in OpenWalks, Len(p) < cfg.max_hops, NEW acc, AccOk(acc)
  PROVE  AccOk(ExpandGroups(p, acc))
<1>1. PICK groups, n : groups = SortedGroups(p) /\ n = Len(groups)
  OBVIOUS
<1>2. n \in Nat
  <2>1. PICK T : T = {t \in Tokens : GroupHops(p, t) # {}}
    OBVIOUS
  <2>2. T \in SUBSET Tokens /\ IsFiniteSet(Tokens)
    BY <2>1, HeuristicAssumption
  <2>3. Cardinality(T) \in Nat
    BY <2>2, FS_Subset, FS_CardinalityType
  <2>4. PICK key : SortedGroups(p) = Sorted(T, key)
    BY <2>1 DEF SortedGroups
  <2>5. PICK k \in Nat : k = Cardinality(T)
    BY <2>3
  <2> DEFINE keyed == {<<x, key[x]>> : x \in T}
             nth(i) == CHOOSE e \in keyed : Cardinality({d \in keyed : Above(d[2], e[2])}) = i - 1
  <2>6. groups = [i \in 1 .. k |-> nth(i)[1]]
    BY <1>1, <2>4, <2>5 DEF Sorted
  <2> HIDE DEF nth
  <2>7. DOMAIN groups = 1 .. k
    BY <2>6
  <2>8. groups = [i \in 1 .. k |-> groups[i]]
    BY <2>6
  <2>9. PICK G : G = {groups[i] : i \in 1 .. k}
    OBVIOUS
  <2>10. groups \in Seq(G)
    BY <2>8, <2>9
  <2> QED
    BY <1>1, <2>10
<1>3. ExpandGroups(p, acc) = (CHOOSE f : IsGroups(p, acc, groups, n, f))[n]
  BY <1>1 DEF ExpandGroups, IsGroups
<1>4. PICK f : f = CHOOSE w : IsGroups(p, acc, groups, n, w)
  OBVIOUS
<1>5. IsGroups(p, acc, groups, n, f)
  BY <1>2, <1>4, GroupsExists
<1>6. GroupsSteps(p, acc, groups, n, f)
  BY <1>2, <1>5, GroupsUnfold
<1>7. f[0] = acc /\ \A i \in 1 .. n : f[i] = ExpandGroup(p, f[i - 1], groups[i])
  BY <1>6 DEF GroupsSteps
<1> DEFINE S == {m \in Nat : m <= n => AccOk(f[m])}
<1>8. 0 \in S
  BY <1>7
<1>9. ASSUME NEW m \in Nat, m \in S
      PROVE  m + 1 \in S
  <2> SUFFICES ASSUME m + 1 <= n
               PROVE  AccOk(f[m + 1])
    OBVIOUS
  <2>1. m + 1 \in 1 .. n /\ (m + 1) - 1 = m
    BY <1>2
  <2>2. PICK b, t : b = f[m] /\ t = groups[m + 1]
    OBVIOUS
  <2>3. AccOk(b)
    BY <1>2, <1>9, <2>2
  <2>4. AccOk(ExpandGroup(p, b, t))
    BY <2>3, ExpandGroupOk
  <2>5. f[m + 1] = ExpandGroup(p, b, t)
    BY <1>7, <2>1, <2>2
  <2> QED
    BY <2>4, <2>5
<1>10. n \in S
  <2> HIDE DEF S
  <2> QED
    BY <1>2, <1>8, <1>9, SetInduction
<1>11. AccOk(f[n])
  BY <1>2, <1>10
<1> QED
  BY <1>3, <1>4, <1>11

------------------------------------------------------------------------------
(* The search *)

\* The quotes gathered so far are of different candidates, and each is remembered as
\* evaluated, so that no later pass quotes its route again.
QuotesInv == GoodQuotes(quotes) /\ \A i \in DOMAIN quotes : quotes[i].path \in evaluated
\* What waits to be expanded are walks that have not reached the target.
FrontierInv == frontier \in Seq(OpenWalks) /\ next \in Seq(OpenWalks)
SearchInv ==
  /\ FixedInv /\ pc \in {"enumerate", "fast lane", "expand", "done"}
  /\ pc \in {"fast lane", "expand"} => ValidHeuristic(cfg)
  /\ QuotesInv /\ FrontierInv /\ Listed(results)

\* The snapshot and the configuration do not change, so neither do the candidates.
LEMMA SameRoutes ==
  ASSUME UNCHANGED fixed, FixedInv
  PROVE  /\ FixedInv' /\ cfg' = cfg /\ EnumerateRoutes' = EnumerateRoutes /\ QuoteRec' = QuoteRec
         /\ OpenWalks' = OpenWalks
<1>1. in' = in /\ cfg' = cfg /\ graph' = graph /\ connectors' = connectors
  BY DEF fixed
<1>2. FixedInv'
  BY <1>1 DEF FixedInv
<1>3. ASSUME NEW p
      PROVE  OpenHops(p)' = OpenHops(p)
  BY <1>1 DEF OpenHops, OpenHop, NodeOf, UsedPools, VisitedTokens, IsCycle, ClosesTarget,
              ConnectorAllowed
<1>4. ASSUME NEW p
      PROVE  NodeOf(p)' = NodeOf(p)
  BY DEF NodeOf
<1>5. ASSUME NEW p, NEW n
      PROVE  WalkFrom(p, n)' = WalkFrom(p, n)
  BY <1>1 DEF WalkFrom, OpenHops, OpenHop, NodeOf, UsedPools, VisitedTokens, IsCycle,
              ClosesTarget, ConnectorAllowed
<1>6. ASSUME NEW n
      PROVE  RoutesOf(n)' = RoutesOf(n)
  BY <1>1, <1>4, <1>5 DEF RoutesOf
<1>7. EnumerateRoutes' = EnumerateRoutes
  BY <1>1, <1>6 DEF EnumerateRoutes
<1>8. QuoteRec' = QuoteRec
  BY <1>7 DEF QuoteRec
<1>9. OpenWalks' = OpenWalks
  BY <1>1, <1>4, <1>5 DEF OpenWalks
<1> QED
  BY <1>1, <1>2, <1>7, <1>8, <1>9

\* The invariant after a step, of what the step leaves behind.
LEMMA SearchInvNext ==
  ASSUME FixedInv, UNCHANGED fixed,
         NEW st, NEW qs, NEW E, NEW fr, NEW nx, NEW rs,
         pc' = st, quotes' = qs, evaluated' = E, frontier' = fr, next' = nx, results' = rs,
         st \in {"enumerate", "fast lane", "expand", "done"},
         st \in {"fast lane", "expand"} => ValidHeuristic(cfg),
         GoodQuotes(qs), \A i \in DOMAIN qs : qs[i].path \in E,
         fr \in Seq(OpenWalks), nx \in Seq(OpenWalks), Listed(rs)
  PROVE  SearchInv'
<1>1. /\ FixedInv' /\ cfg' = cfg /\ EnumerateRoutes' = EnumerateRoutes /\ QuoteRec' = QuoteRec
      /\ OpenWalks' = OpenWalks
  BY SameRoutes
<1>2. PICK R, Q, P : R = EnumerateRoutes /\ Q = QuoteRec /\ P = OpenWalks
  OBVIOUS
<1>3. QuotesInv'
  <2>1. qs \in Seq(Q) /\ \A i, j \in DOMAIN qs : qs[i].path = qs[j].path => i = j
    BY <1>2 DEF GoodQuotes
  <2>2. quotes' \in Seq(QuoteRec') /\ \A i, j \in DOMAIN quotes' : quotes'[i].path = quotes'[j].path => i = j
    BY <1>1, <1>2, <2>1
  <2> QED
    BY <2>2 DEF QuotesInv, GoodQuotes
<1>4. FrontierInv'
  <2>1. frontier' \in Seq(OpenWalks') /\ next' \in Seq(OpenWalks')
    BY <1>1
  <2> QED
    BY <2>1 DEF FrontierInv
<1>5. Listed(results)'
  <2>1. /\ \A i \in DOMAIN rs : rs[i].path \in R
        /\ \A i, j \in DOMAIN rs : i < j => rs[i].path # rs[j].path /\ rs[i].amount >= rs[j].amount
    BY <1>2 DEF Listed
  <2>2. /\ \A i \in DOMAIN results' : results'[i].path \in EnumerateRoutes'
        /\ \A i, j \in DOMAIN results' :
             i < j => results'[i].path # results'[j].path /\ results'[i].amount >= results'[j].amount
    BY <1>1, <1>2, <2>1
  <2> QED
    BY <2>2 DEF Listed
<1>6. ValidHeuristic(cfg) => ValidHeuristic(cfg)'
  BY <1>1 DEF ValidHeuristic, ValidFastLane, ValidEdgeShortlist
<1> QED
  BY <1>1, <1>3, <1>4, <1>5, <1>6 DEF SearchInv

\* The empty list and the empty path.
LEMMA EmptyLists ==
  /\ GoodQuotes(<<>>) /\ Listed(<<>>) /\ <<>> \in Seq(OpenWalks) /\ <<>> \in OpenWalks
  /\ <<<<>>>> \in Seq(OpenWalks)
<1>1. <<>> \in WalkFrom(<<>>, 0) /\ Len(<<>>) = 0 /\ <<>> \in Seq(Hop)
  BY WalkUnfold
<1>2. <<>> \in OpenWalks
  BY <1>1 DEF OpenWalks
<1>3. PICK P, Q : P = OpenWalks /\ Q = QuoteRec
  OBVIOUS
<1>4. <<>> \in Seq(P) /\ <<>> \in Seq(Q) /\ <<<<>>>> \in Seq(P)
  BY <1>2, <1>3
<1>5. DOMAIN <<>> = {}
  OBVIOUS
<1> QED
  BY <1>2, <1>3, <1>4, <1>5 DEF GoodQuotes, Listed

\* The search starts in the invariant.
LEMMA SearchInvInit ==
  ASSUME Init
  PROVE  SearchInv
<1>1. FixedInv
  BY ConnectorsType DEF Init
<1>2. pc \in {"enumerate", "fast lane"} /\ (pc = "fast lane" => cfg.mode # "exhaustive")
  BY DEF Init
<1>3. ValidConfig(cfg)
  BY <1>1, FixedTypes
<1>4. pc \in {"fast lane", "expand"} => ValidHeuristic(cfg)
  BY <1>2, <1>3 DEF ValidConfig
<1>5. quotes = <<>> /\ frontier = <<>> /\ next = <<>> /\ results = <<>>
  BY DEF Init
<1>6. QuotesInv
  <2>1. DOMAIN quotes = {}
    BY <1>5
  <2> QED
    BY <1>5, <2>1, EmptyLists DEF QuotesInv
<1> QED
  BY <1>1, <1>2, <1>4, <1>5, <1>6, EmptyLists DEF SearchInv, FrontierInv

\* Exhaustive mode keeps the invariant.
LEMMA QuoteAndRankInv ==
  ASSUME SearchInv, QuoteAndRank
  PROVE  SearchInv'
<1>1. PICK R, s : R = EnumerateRoutes /\ s = UpToCap(Enumerated)
  OBVIOUS
<1>2. FixedInv
  BY DEF SearchInv
<1>3. s \in Seq(R) /\ Distinct(s)
  <2>1. PICK e : e = Enumerated
    OBVIOUS
  <2>2. e \in Seq(R) /\ Distinct(e)
    BY <1>1, <1>2, <2>1, EnumeratedType
  <2> QED
    BY <1>1, <1>2, <2>1, <2>2, UpToCapType
<1>4. PICK v : v = ViableQuotes(s)
  OBVIOUS
<1>5. GoodQuotes(v)
  BY <1>1, <1>2, <1>3, <1>4, ViableType
<1>6. PICK r : r = ByAmount(v)
  OBVIOUS
<1>7. Listed(r)
  BY <1>5, <1>6, ByAmountListed
<1>8. results' = r
  BY <1>1, <1>4, <1>6 DEF QuoteAndRank
<1>9. PICK qs, E, fr, nx, st : /\ qs = quotes /\ E = evaluated /\ fr = frontier /\ nx = next
                               /\ st = "done"
  OBVIOUS
<1>10. /\ UNCHANGED fixed /\ pc' = st /\ quotes' = qs /\ evaluated' = E /\ frontier' = fr
       /\ next' = nx
  BY <1>9 DEF QuoteAndRank
<1>11. /\ GoodQuotes(qs) /\ \A i \in DOMAIN qs : qs[i].path \in E
       /\ fr \in Seq(OpenWalks) /\ nx \in Seq(OpenWalks)
       /\ st \in {"enumerate", "fast lane", "expand", "done"}
       /\ (st \in {"fast lane", "expand"} => ValidHeuristic(cfg))
  BY <1>9 DEF SearchInv, QuotesInv, FrontierInv
<1> QED
  BY <1>2, <1>7, <1>8, <1>10, <1>11, SearchInvNext

\* The fast lane keeps the invariant.
LEMMA FastLaneInv ==
  ASSUME SearchInv, FastLane
  PROVE  SearchInv'
<1>1. PICK R, paths : /\ R = EnumerateRoutes
                      /\ paths = IF ~IsCycle /\ cfg.fast_lane THEN FastLanePaths ELSE <<>>
  OBVIOUS
<1>2. FixedInv /\ ValidHeuristic(cfg)
  BY DEF SearchInv, FastLane
<1>3. paths \in Seq(R) /\ Distinct(paths)
  <2>1. CASE ~IsCycle /\ cfg.fast_lane
    BY <1>1, <1>2, <2>1, FastLaneType
  <2>2. CASE ~(~IsCycle /\ cfg.fast_lane)
    <3>1. paths = <<>>
      BY <1>1, <2>2
    <3>2. DOMAIN paths = {}
      BY <3>1
    <3> QED
      BY <3>1, <3>2 DEF Distinct
  <2> QED
    BY <2>1, <2>2
<1>4. PICK Q, v, kept : Q = QuoteRec /\ v = ViableQuotes(paths) /\ kept = UpToCap(v)
  OBVIOUS
<1>5. GoodQuotes(v) /\ \A i \in DOMAIN v : v[i].path \in ToSet(paths)
  BY <1>1, <1>2, <1>3, <1>4, ViableType
<1>6. /\ kept \in Seq(Q) /\ DOMAIN kept \subseteq DOMAIN v
      /\ \A i \in DOMAIN kept : kept[i] = v[i]
  <2>1. v \in Seq(Q)
    BY <1>4, <1>5 DEF GoodQuotes
  <2> QED
    BY <1>2, <1>4, <2>1, UpToCapType
<1>7. GoodQuotes(kept)
  BY <1>4, <1>5, <1>6 DEF GoodQuotes
<1>8. PICK E, fr, nx, rs, st : E = ToSet(paths) /\ fr = frontier' /\ nx = next /\ rs = results' /\ st = pc'
  OBVIOUS
<1>9. \A i \in DOMAIN kept : kept[i].path \in E
  BY <1>5, <1>6, <1>8
<1>10. /\ UNCHANGED fixed /\ evaluated' = E /\ quotes' = kept /\ next' = nx
       /\ IF MaxCandidatesReached(Len(kept))
            THEN st = "done" /\ fr = <<>> /\ rs = Finalists(kept)
            ELSE st = "expand" /\ fr = <<<<>>>> /\ rs = results
  BY <1>1, <1>4, <1>8 DEF FastLane
<1>11. /\ fr \in Seq(OpenWalks) /\ nx \in Seq(OpenWalks) /\ Listed(rs)
       /\ st \in {"enumerate", "fast lane", "expand", "done"}
  <2>1. nx \in Seq(OpenWalks) /\ Listed(results)
    BY <1>8 DEF SearchInv, FrontierInv
  <2>2. CASE MaxCandidatesReached(Len(kept))
    <3>1. fr = <<>> /\ st = "done" /\ rs = Finalists(kept)
      BY <1>10, <2>2
    <3>2. Listed(Finalists(kept))
      BY <1>2, <1>7, FinalistsListed
    <3>3. Listed(rs)
      BY <3>1, <3>2
    <3> QED
      BY <2>1, <3>1, <3>3, EmptyLists
  <2>3. CASE ~MaxCandidatesReached(Len(kept))
    <3>1. fr = <<<<>>>> /\ st = "expand" /\ rs = results
      BY <1>10, <2>3
    <3> QED
      BY <2>1, <3>1, EmptyLists
  <2> QED
    BY <2>2, <2>3
<1> QED
  BY <1>2, <1>7, <1>8, <1>9, <1>10, <1>11, SearchInvNext

\* Expanding a prefix keeps the invariant.
LEMMA ExpandInv ==
  ASSUME SearchInv, Expand
  PROVE  SearchInv'
<1>1. FixedInv /\ ValidHeuristic(cfg) /\ Listed(results) /\ pc = "expand"
  BY DEF SearchInv, Expand
<1>2. PICK P, fs : P = OpenWalks /\ fs = frontier
  OBVIOUS
<1>3. fs \in Seq(P) /\ fs # <<>>
  BY <1>2 DEF SearchInv, FrontierInv, Expand
<1>4. PICK path : path = Head(fs)
  OBVIOUS
<1>5. path \in OpenWalks /\ Tail(fs) \in Seq(P)
  <2>1. Head(fs) \in P /\ Tail(fs) \in Seq(P)
    BY <1>3
  <2> QED
    BY <1>2, <1>4, <2>1
<1>6. PICK pruned : pruned = (\/ Len(path) >= cfg.max_hops \/ PruneUpperBound(path)
                              \/ cfg.dominance /\ IsStrictlyDominated(labels, path))
  OBVIOUS
<1>7. PICK acc0 : acc0 = [quotes |-> quotes, evaluated |-> evaluated, incumbent |-> incumbent,
                          next |-> next, labels |-> labels, deferred |-> deferred, broke |-> FALSE]
  OBVIOUS
<1>8. PICK acc : acc = IF pruned THEN acc0 ELSE ExpandGroups(path, acc0)
  OBVIOUS
<1>9. AccOk(acc0)
  <2>1. acc0.quotes = quotes /\ acc0.evaluated = evaluated /\ acc0.next = next
    BY <1>7
  <2>2. DOMAIN acc0 = AccFields
    BY <1>7 DEF AccFields
  <2>3. QuotesInv /\ FrontierInv
    BY DEF SearchInv
  <2> QED
    BY <2>1, <2>2, <2>3 DEF AccOk, QuotesInv, FrontierInv
<1>10. AccOk(acc)
  <2>1. CASE pruned
    BY <1>8, <1>9, <2>1
  <2>2. CASE ~pruned
    <3>1. Len(path) < cfg.max_hops
      <4>1. ~(Len(path) >= cfg.max_hops)
        BY <1>6, <2>2
      <4>2. path \in Seq(Hop)
        BY <1>5 DEF OpenWalks
      <4>3. Len(path) \in Nat /\ cfg.max_hops \in Nat
        BY <1>1, <4>2, FixedTypes
      <4> QED
        BY <4>1, <4>3
    <3>2. AccOk(ExpandGroups(path, acc0))
      BY <1>1, <1>5, <1>9, <3>1, ExpandGroupsOk
    <3> QED
      BY <1>8, <2>2, <3>2
  <2> QED
    BY <2>1, <2>2
<1>11. PICK qs, E, fr, nx, rs : /\ qs = acc.quotes /\ E = acc.evaluated /\ rs = results
                                /\ fr = (IF acc.broke THEN <<>> ELSE Tail(fs))
                                /\ nx = (IF acc.broke THEN <<>> ELSE acc.next)
  OBVIOUS
<1>12. /\ UNCHANGED fixed /\ quotes' = qs /\ evaluated' = E /\ next' = nx /\ frontier' = fr
       /\ results' = rs /\ pc' = "expand"
  BY <1>1, <1>2, <1>4, <1>6, <1>7, <1>8, <1>11 DEF Expand
<1>13. GoodQuotes(qs) /\ \A i \in DOMAIN qs : qs[i].path \in E
  BY <1>10, <1>11 DEF AccOk
<1>14. fr \in Seq(OpenWalks) /\ nx \in Seq(OpenWalks)
  <2>1. acc.next \in Seq(OpenWalks) /\ Tail(fs) \in Seq(OpenWalks)
    BY <1>2, <1>5, <1>10 DEF AccOk
  <2> QED
    BY <1>11, <2>1, EmptyLists
<1>15. Listed(rs)
  BY <1>1, <1>11
<1> QED
  BY <1>1, <1>12, <1>13, <1>14, <1>15, SearchInvNext

\* The beam keeps prefixes.
LEMMA BeamType ==
  ASSUME FixedInv, ValidHeuristic(cfg), NEW paths \in Seq(OpenWalks)
  PROVE  ApplyBeamWidth(paths) \in Seq(OpenWalks)
<1>1. PICK P, n, key : /\ P = OpenWalks /\ n = cfg.beam_width
                       /\ key = [i \in DOMAIN paths |-> QuotePath(paths[i])]
  OBVIOUS
<1>2. n \in Nat
  BY <1>1 DEF ValidHeuristic
<1>3. ASSUME NEW i \in DOMAIN paths
      PROVE  key[i] \in Int
  <2>1. paths[i] \in OpenWalks
    OBVIOUS
  <2>2. PICK p : p = paths[i]
    OBVIOUS
  <2>3. p \in Seq(Hop)
    BY <2>1, <2>2 DEF OpenWalks
  <2>4. QuotePath(p) \in Nat
    BY <2>3, QuoteType
  <2> QED
    BY <1>1, <2>2, <2>4
<1>4. PICK sorted : sorted = SortedSeq(paths, key)
  OBVIOUS
<1>5. sorted \in Seq(P)
  BY <1>1, <1>3, <1>4, SortedSeqOf
<1>6. PICK t : t = Take(sorted, n)
  OBVIOUS
<1>7. t \in Seq(P)
  BY <1>2, <1>5, <1>6, TakeOf
<1>8. ApplyBeamWidth(paths) \in {t, paths, sorted}
  BY <1>1, <1>4, <1>6 DEF ApplyBeamWidth
<1> QED
  BY <1>1, <1>5, <1>7, <1>8

\* The end of a level keeps the invariant.
LEMMA EndLevelInv ==
  ASSUME SearchInv, EndLevel
  PROVE  SearchInv'
<1>1. FixedInv /\ ValidHeuristic(cfg) /\ Listed(results) /\ pc = "expand"
  BY DEF SearchInv, EndLevel
<1>2. PICK P, ns, D : /\ P = OpenWalks /\ ns = next
                      /\ D = {i \in DOMAIN ns : ~(cfg.dominance /\ IsStrictlyDominated(labels, ns[i]))}
  OBVIOUS
<1>3. ns \in Seq(P) /\ D \in SUBSET (DOMAIN ns)
  BY <1>2 DEF SearchInv, FrontierInv
<1>4. PICK left : left = Those(ns, D)
  OBVIOUS
<1>5. left \in Seq(P)
  BY <1>3, <1>4, ThoseOf
<1>6. PICK fr : fr = ApplyBeamWidth(left)
  OBVIOUS
<1>7. fr \in Seq(OpenWalks)
  BY <1>1, <1>2, <1>5, <1>6, BeamType
<1>8. PICK qs, E, rs : qs = quotes /\ E = evaluated /\ rs = results
  OBVIOUS
<1>9. /\ UNCHANGED fixed /\ pc' = "expand" /\ quotes' = qs /\ evaluated' = E /\ results' = rs
      /\ next' = <<>>
  BY <1>1, <1>8 DEF EndLevel
<1>10. frontier' = fr
  BY <1>2, <1>4, <1>6 DEF EndLevel
<1>11. /\ GoodQuotes(qs) /\ \A i \in DOMAIN qs : qs[i].path \in E
       /\ Listed(rs) /\ <<>> \in Seq(OpenWalks)
  BY <1>1, <1>8, EmptyLists DEF SearchInv, QuotesInv
<1> QED
  BY <1>1, <1>7, <1>9, <1>10, <1>11, SearchInvNext

\* The end of a pass keeps the invariant.
LEMMA EndPassInv ==
  ASSUME SearchInv, EndPass
  PROVE  SearchInv'
<1>1. FixedInv /\ ValidHeuristic(cfg) /\ Listed(results) /\ pc = "expand"
  BY DEF SearchInv, EndPass
<1>2. PICK qs, E, fr, nx, rs, st : /\ qs = quotes /\ E = evaluated /\ fr = frontier' /\ nx = next
                                   /\ rs = results' /\ st = pc'
  OBVIOUS
<1>3. /\ UNCHANGED fixed /\ quotes' = qs /\ evaluated' = E /\ next' = nx
      /\ \/ st = "expand" /\ fr = <<<<>>>> /\ rs = results
         \/ st = "done" /\ fr = frontier /\ rs = Finalists(qs)
  BY <1>1, <1>2 DEF EndPass
<1>4. GoodQuotes(qs) /\ \A i \in DOMAIN qs : qs[i].path \in E
  BY <1>2 DEF SearchInv, QuotesInv
<1>5. nx \in Seq(OpenWalks) /\ frontier \in Seq(OpenWalks)
  BY <1>2 DEF SearchInv, FrontierInv
<1>6. Listed(Finalists(qs))
  BY <1>1, <1>4, FinalistsListed
<1>7. fr \in Seq(OpenWalks) /\ Listed(rs) /\ st \in {"enumerate", "fast lane", "expand", "done"}
  <2>1. CASE st = "expand" /\ fr = <<<<>>>> /\ rs = results
    BY <1>1, <2>1, EmptyLists
  <2>2. CASE st = "done" /\ fr = frontier /\ rs = Finalists(qs)
    <3>1. Listed(rs)
      BY <1>6, <2>2
    <3> QED
      BY <1>5, <2>2, <3>1
  <2> QED
    BY <1>3, <2>1, <2>2
<1> QED
  BY <1>1, <1>2, <1>3, <1>4, <1>5, <1>7, SearchInvNext

\* Every state the search passes through satisfies the invariant.
THEOREM SearchInvAlways == Spec => []SearchInv
<1>1. Init => SearchInv
  BY SearchInvInit
<1>2. SearchInv /\ [Next]_vars => SearchInv'
  <2> SUFFICES ASSUME SearchInv, [Next]_vars
               PROVE  SearchInv'
    OBVIOUS
  <2>1. CASE QuoteAndRank
    BY <2>1, QuoteAndRankInv
  <2>2. CASE FastLane
    BY <2>2, FastLaneInv
  <2>3. CASE Expand
    BY <2>3, ExpandInv
  <2>4. CASE EndLevel
    BY <2>4, EndLevelInv
  <2>5. CASE EndPass
    BY <2>5, EndPassInv
  <2>6. CASE UNCHANGED vars
    <3>1. PICK st, qs, E, fr, nx, rs : /\ st = pc /\ qs = quotes /\ E = evaluated /\ fr = frontier
                                       /\ nx = next /\ rs = results
      OBVIOUS
    <3>2. /\ UNCHANGED fixed /\ pc' = st /\ quotes' = qs /\ evaluated' = E /\ frontier' = fr
          /\ next' = nx /\ results' = rs
      BY <2>6, <3>1 DEF vars
    <3>3. /\ FixedInv /\ st \in {"enumerate", "fast lane", "expand", "done"}
          /\ (st \in {"fast lane", "expand"} => ValidHeuristic(cfg))
          /\ GoodQuotes(qs) /\ (\A i \in DOMAIN qs : qs[i].path \in E)
          /\ fr \in Seq(OpenWalks) /\ nx \in Seq(OpenWalks) /\ Listed(rs)
      BY <3>1 DEF SearchInv, QuotesInv, FrontierInv
    <3> QED
      BY <3>2, <3>3, SearchInvNext
  <2> QED
    BY <2>1, <2>2, <2>3, <2>4, <2>5, <2>6 DEF Next
<1> QED
  BY <1>1, <1>2, PTL DEF Spec

\* For every graph, balances, quotes and configuration: what either search mode hands out,
\* whichever of the fast lane, the first pass and the refinement pass found it, is a
\* candidate of the request, once, and the list is ordered by output.
THEOREM ResultsAreCandidatesAlways == Spec => []ResultsAreCandidates
<1>1. SearchInv => ResultsAreCandidates
  BY DEF SearchInv, Listed, ResultsAreCandidates
<1> QED
  BY <1>1, SearchInvAlways, PTL
==============================================================================
