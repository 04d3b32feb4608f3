------------------------ MODULE StreamingSearchProofs ------------------------
(***************************************************************************)
(* Proofs about the streaming search and its shared quote cache, for any    *)
(* number of workers, any routes and any settings.                          *)
(***************************************************************************)
EXTENDS StreamingSearch, FiniteSetTheorems, TLAPS

------------------------------------------------------------------------------
(* Lists and orders *)

TotalOrder(R, S) ==
  /\ \A x, y \in S : <<x, y>> \in R \/ <<y, x>> \in R
  /\ \A x, y \in S : <<x, y>> \in R /\ <<y, x>> \in R => x = y
  /\ \A x, y, z \in S : <<x, y>> \in R /\ <<y, z>> \in R => <<x, z>> \in R

Distinct(s) == \A i, j \in DOMAIN s : s[i] = s[j] => i = j

\* InOrder lists every element of a finite set, once.
LEMMA InOrderLists ==
  ASSUME NEW S, IsFiniteSet(S), NEW R, TotalOrder(R, S)
  PROVE  /\ InOrder(S, R) \in Seq(S) /\ Distinct(InOrder(S, R))
         /\ ToSet(InOrder(S, R)) = S
<1> DEFINE n == Cardinality(S)
           below(x) == {y \in S : <<y, x>> \in R}
           rk(x) == Cardinality(below(x))
           f == [x \in S |-> rk(x)]
<1>1. n \in Nat
  BY FS_CardinalityType
<1>2. \A x \in S : IsFiniteSet(below(x)) /\ rk(x) \in Nat /\ rk(x) <= n /\ rk(x) # 0
  <2> SUFFICES ASSUME NEW x \in S
               PROVE  IsFiniteSet(below(x)) /\ rk(x) \in Nat /\ rk(x) <= n /\ rk(x) # 0
    OBVIOUS
  <2>1. x \in below(x)
    BY DEF TotalOrder
  <2>2. below(x) \in SUBSET S
    OBVIOUS
  <2> HIDE DEF below
  <2>3. IsFiniteSet(below(x)) /\ rk(x) <= n
    BY <2>2, FS_Subset
  <2> QED
    BY <2>1, <2>3, FS_CardinalityType, FS_EmptySet
<1>3. ASSUME NEW x \in S, NEW y \in S, x # y, <<x, y>> \in R
      PROVE  rk(x) # rk(y)
  <2>1. below(x) \in SUBSET below(y)
    BY <1>3 DEF TotalOrder
  <2>2. y \in below(y) /\ y \notin below(x)
    BY <1>3 DEF TotalOrder
  <2>3. IsFiniteSet(below(y))
    BY <1>2
  <2> HIDE DEF below
  <2> QED
    BY <2>1, <2>2, <2>3, FS_Subset
<1>4. \A x, y \in S : rk(x) = rk(y) => x = y
  <2> SUFFICES ASSUME NEW x \in S, NEW y \in S, rk(x) = rk(y), x # y
               PROVE  FALSE
    OBVIOUS
  <2>1. <<x, y>> \in R \/ <<y, x>> \in R
    BY DEF TotalOrder
  <2> HIDE DEF rk
  <2> QED
    BY <1>3, <2>1
<1> HIDE DEF rk
<1>5. f \in Injection(S, 1 .. n)
  <2>1. f \in [S -> 1 .. n]
    <3>1. ASSUME NEW x \in S
          PROVE  rk(x) \in 1 .. n
      <4>1. rk(x) \in Nat /\ rk(x) <= n /\ rk(x) # 0
        BY <1>2
      <4> HIDE DEF n
      <4> QED
        BY <1>1, <4>1
    <3> HIDE DEF n
    <3> QED
      BY <3>1
  <2> QED
    BY <1>4, <2>1 DEF Injection, IsInjective
<1>6. \A i \in 1 .. n : \E x \in S : rk(x) = i
  <2>1. IsFiniteSet(1 .. n) /\ Cardinality(1 .. n) = n
    BY <1>1, FS_Interval
  <2> HIDE DEF f
  <2>2. f \in Surjection(S, 1 .. n)
    BY <1>5, <2>1, FS_Injection
  <2> USE DEF f
  <2> QED
    BY <2>2 DEF Surjection
<1>7. InOrder(S, R) = [i \in 1 .. n |-> CHOOSE x \in S : rk(x) = i]
  BY DEF InOrder, rk
<1> DEFINE s == InOrder(S, R)
<1>8. \A i \in 1 .. n : s[i] \in S /\ rk(s[i]) = i
  BY <1>6, <1>7
<1>9. DOMAIN s = 1 .. n /\ s = [i \in 1 .. n |-> s[i]]
  BY <1>7
<1> HIDE DEF s
<1>10. s \in Seq(S)
  BY <1>1, <1>8, <1>9
<1>11. Distinct(s)
  BY <1>8, <1>9 DEF Distinct
<1>12. ToSet(s) = S
  <2>1. ASSUME NEW x \in S
        PROVE  \E i \in DOMAIN s : s[i] = x
    <3>1. rk(x) \in 1 .. n
      BY <1>1, <1>2 DEF rk
    <3> QED
      BY <1>4, <1>8, <1>9, <3>1
  <2> QED
    BY <1>8, <1>9, <2>1 DEF ToSet
<1> QED
  BY <1>10, <1>11, <1>12 DEF s

\* What InOrder needs of the orders of the model.
LEMMA AscendingIsTotal ==
  ASSUME NEW S \in SUBSET Int
  PROVE  TotalOrder(Ascending(S), S)
BY DEF TotalOrder, Ascending

LEMMA MinOfTwo ==
  ASSUME NEW a \in Nat, NEW b \in Nat
  PROVE  Min({a, b}) \in {a, b} /\ Min({a, b}) <= a /\ Min({a, b}) <= b
<1>1. \E x \in {a, b} : \A y \in {a, b} : x =< y
  OBVIOUS
<1> QED
  BY <1>1 DEF Min

LEMMA MaxWithZero ==
  ASSUME NEW a \in Int
  PROVE  Max({a, 0}) \in Nat
<1>1. \E x \in {a, 0} : \A y \in {a, 0} : x >= y
  OBVIOUS
<1> QED
  BY <1>1 DEF Max
------------------------------------------------------------------------------
(* The split of the routes among the workers *)

LEMMA RemainderOfWorker ==
  ASSUME NEW w \in Nat \ {0}
  PROVE  /\ \A t \in 1 .. w : t % w = IF t = w THEN 0 ELSE t
         /\ \A i \in Nat : i % w \in 0 .. (w - 1)
<1>1. ASSUME NEW i \in 0 .. (w - 1)
      PROVE  i % w = i
  OBVIOUS
<1>2. w % w = 0
  OBVIOUS
<1>3. ASSUME NEW i \in Nat
      PROVE  i % w \in 0 .. (w - 1)
  OBVIOUS
<1>4. ASSUME NEW t \in 1 .. w
      PROVE  t % w = IF t = w THEN 0 ELSE t
  <2>1. CASE t = w
    BY <1>2, <2>1
  <2>2. CASE t # w
    <3>1. t \in 0 .. (w - 1)
      BY <2>2
    <3> QED
      BY <1>1, <2>2, <3>1
  <2> QED
    BY <2>1, <2>2
<1> QED
  BY <1>3, <1>4

LEMMA WorkersBound ==
  ASSUME NEW items, Len(items) \in Nat
  PROVE  /\ Workers(items) \in Nat /\ Workers(items) <= Cardinality(Threads)
         /\ Len(items) # 0 => Workers(items) # 0
<1>1. Cardinality(Threads) \in Nat /\ Cardinality(Threads) # 0
  BY StreamingAssumption
<1> QED
  BY <1>1, MinOfTwo DEF Workers

\* split_paths gives every route to one worker.
LEMMA SplitPathsSplits ==
  ASSUME NEW T, NEW paths \in Seq(T)
  PROVE  /\ SplitPaths(paths) \in [Threads -> Seq(T)]
         /\ \A t \in Threads : ToSet(SplitPaths(paths)[t]) \subseteq ToSet(paths)
         /\ \A p \in ToSet(paths) : \E t \in Threads : p \in ToSet(SplitPaths(paths)[t])
         /\ Distinct(paths) =>
              /\ \A t \in Threads : Distinct(SplitPaths(paths)[t])
              /\ \A t, u \in Threads :
                   t # u => ToSet(SplitPaths(paths)[t]) \cap ToSet(SplitPaths(paths)[u]) = {}
<1> DEFINE w == Workers(paths)
           mine(t) == {i \in DOMAIN paths : i % w = t % w}
           idx(t) == InOrder(mine(t), Ascending(mine(t)))
           C == SplitPaths(paths)
<1>1. Len(paths) \in Nat /\ DOMAIN paths = 1 .. Len(paths) /\ \A i \in DOMAIN paths : paths[i] \in T
  OBVIOUS
<1>2. w \in Nat /\ w <= Cardinality(Threads) /\ (Len(paths) # 0 => w # 0)
  BY <1>1, WorkersBound
<1>3. Threads = 1 .. Cardinality(Threads) /\ Cardinality(Threads) \in Nat
  BY StreamingAssumption
<1>4. C = [t \in Threads |-> IF t > w THEN <<>> ELSE [i \in DOMAIN idx(t) |-> paths[idx(t)[i]]]]
  BY DEF SplitPaths
<1> HIDE DEF w, C
<1>5. ASSUME NEW t \in Threads
      PROVE  /\ idx(t) \in Seq(mine(t)) /\ Distinct(idx(t)) /\ ToSet(idx(t)) = mine(t)
             /\ mine(t) \subseteq DOMAIN paths
  <2>1. mine(t) \in SUBSET Int /\ mine(t) \in SUBSET (1 .. Len(paths))
    BY <1>1
  <2> HIDE DEF mine
  <2>2. IsFiniteSet(mine(t))
    <3>1. IsFiniteSet(1 .. Len(paths))
      BY <1>1, FS_Interval
    <3> QED
      BY <2>1, <3>1, FS_Subset
  <2>3. TotalOrder(Ascending(mine(t)), mine(t))
    BY <2>1, AscendingIsTotal
  <2> QED
    BY <1>1, <2>1, <2>2, <2>3, InOrderLists
<1>6. ASSUME NEW t \in Threads, t > w
      PROVE  C[t] = <<>> /\ C[t] \in Seq(T) /\ ToSet(C[t]) = {} /\ Distinct(C[t])
  BY <1>4, <1>6 DEF ToSet, Distinct
<1>7. ASSUME NEW t \in Threads, ~(t > w)
      PROVE  /\ C[t] = [i \in DOMAIN idx(t) |-> paths[idx(t)[i]]]
             /\ C[t] \in Seq(T)
             /\ ToSet(C[t]) = {paths[i] : i \in mine(t)}
             /\ Distinct(paths) => Distinct(C[t])
  <2>1. /\ idx(t) \in Seq(mine(t)) /\ Distinct(idx(t)) /\ ToSet(idx(t)) = mine(t)
        /\ mine(t) \subseteq DOMAIN paths
    BY <1>5
  <2>2. C[t] = [i \in DOMAIN idx(t) |-> paths[idx(t)[i]]]
    BY <1>4, <1>7
  <2> HIDE DEF idx, mine
  <2>3. \A i \in DOMAIN idx(t) : idx(t)[i] \in mine(t) /\ idx(t)[i] \in DOMAIN paths
    BY <2>1
  <2>4. C[t] \in Seq(T)
    BY <1>1, <2>1, <2>2, <2>3
  <2>5. ToSet(C[t]) = {paths[i] : i \in mine(t)}
    <3>1. \A i \in mine(t) : \E j \in DOMAIN idx(t) : idx(t)[j] = i
      BY <2>1 DEF ToSet
    <3> QED
      BY <2>2, <2>3, <3>1 DEF ToSet
  <2>6. Distinct(paths) => Distinct(C[t])
    BY <2>1, <2>2, <2>3 DEF Distinct
  <2> QED
    BY <2>2, <2>4, <2>5, <2>6
<1>8. C \in [Threads -> Seq(T)]
  <2>1. \A t \in Threads : C[t] \in Seq(T)
    BY <1>6, <1>7
  <2>2. C = [t \in Threads |-> C[t]]
    BY <1>4
  <2> QED
    BY <2>1, <2>2
<1>9. \A t \in Threads : ToSet(C[t]) \subseteq ToSet(paths)
  <2> SUFFICES ASSUME NEW t \in Threads, ~(t > w)
               PROVE  ToSet(C[t]) \subseteq ToSet(paths)
    BY <1>6
  <2>1. ToSet(C[t]) = {paths[i] : i \in mine(t)} /\ mine(t) \subseteq DOMAIN paths
    BY <1>5, <1>7
  <2> HIDE DEF mine
  <2> QED
    BY <2>1 DEF ToSet
<1>10. ASSUME NEW p \in ToSet(paths)
       PROVE  \E t \in Threads : p \in ToSet(C[t])
  <2>1. PICK i \in 1 .. Len(paths) : paths[i] = p
    BY <1>1 DEF ToSet
  <2>2. w \in Nat \ {0}
    BY <1>1, <1>2, <2>1
  <2>3. i % w \in 0 .. (w - 1) /\ \A t \in 1 .. w : t % w = IF t = w THEN 0 ELSE t
    <3>1. i \in Nat
      BY <1>1, <2>1
    <3> QED
      BY <2>2, <3>1, RemainderOfWorker
  <2> DEFINE r == i % w
  <2>4. PICK t \in 1 .. w : t % w = r
    <3>1. CASE r = 0
      BY <2>2, <2>3, <3>1
    <3>2. CASE r # 0
      <4>1. r \in 1 .. w /\ r # w
        BY <2>2, <2>3, <3>2
      <4> HIDE DEF r
      <4> QED
        BY <2>3, <4>1
    <3> QED
      BY <3>1, <3>2
  <2>5. t \in Threads /\ ~(t > w)
    BY <1>2, <1>3, <2>2
  <2>6. i \in mine(t)
    BY <1>1, <2>1, <2>4
  <2> QED
    BY <1>7, <2>1, <2>5, <2>6
<1>11. ASSUME Distinct(paths), NEW t \in Threads, NEW u \in Threads, t # u
       PROVE  ToSet(C[t]) \cap ToSet(C[u]) = {}
  <2> SUFFICES ASSUME ~(t > w), ~(u > w), NEW p \in ToSet(C[t]), p \in ToSet(C[u])
               PROVE  FALSE
    BY <1>6
  <2>0. ToSet(C[t]) = {paths[i] : i \in mine(t)} /\ ToSet(C[u]) = {paths[i] : i \in mine(u)}
    BY <1>7
  <2>1. PICK i \in mine(t) : paths[i] = p
    BY <2>0
  <2>2. PICK j \in mine(u) : paths[j] = p
    BY <2>0
  <2>3. i = j /\ i % w = t % w /\ j % w = u % w /\ w \in Nat \ {0}
    BY <1>1, <1>2, <1>11, <2>1, <2>2 DEF Distinct
  <2>4. t \in 1 .. w /\ u \in 1 .. w
    BY <1>2, <1>3
  <2>5. t % w = (IF t = w THEN 0 ELSE t) /\ u % w = (IF u = w THEN 0 ELSE u)
    BY <2>3, <2>4, RemainderOfWorker
  <2> QED
    BY <1>11, <2>3, <2>4, <2>5
<1> QED
  BY <1>6, <1>7, <1>8, <1>9, <1>10, <1>11 DEF C
------------------------------------------------------------------------------
(* What is left to quote, and the routes of a request *)

LEMMA PathsFinite == Paths = 1 .. Len(PathKeys) /\ Len(PathKeys) \in Nat /\ IsFiniteSet(Paths)
<1>1. Paths = 1 .. Len(PathKeys) /\ Len(PathKeys) \in Nat
  BY StreamingAssumption DEF Paths
<1> QED
  BY <1>1, FS_Interval

LEMMA PathKeysType ==
  \A p \in Paths : PathKeys[p] \in Seq(Keys) /\ Len(PathKeys[p]) \in Nat \ {0}
BY StreamingAssumption DEF Paths

LEMMA SettingsValid ==
  ASSUME cfg \in Settings
  PROVE  /\ cfg.cap \in Nat /\ cfg.requests \in Seq(Seq(Paths))
         /\ cfg.completion = "parallel" => Len(cfg.requests) = 1
BY StreamingAssumption DEF ValidSettings

LEMMA UpToCapType ==
  ASSUME cfg \in Settings, NEW T, NEW r \in Seq(T)
  PROVE  UpToCap(r) \in Seq(T) /\ ToSet(UpToCap(r)) \subseteq ToSet(r)
<1>1. cfg.cap \in Nat /\ Len(r) \in Nat /\ \A i \in 1 .. Len(r) : r[i] \in T
  BY SettingsValid
<1> DEFINE m == Min({cfg.cap, Len(r)})
<1>2. m \in Nat /\ m <= Len(r)
  BY <1>1, MinOfTwo
<1>3. UpToCap(r) = IF cfg.cap = 0 THEN r ELSE SubSeq(r, 1, m)
  BY DEF UpToCap
<1> HIDE DEF m
<1>4. /\ SubSeq(r, 1, m) \in Seq(T)
      /\ \A i \in DOMAIN SubSeq(r, 1, m) : i \in DOMAIN r /\ SubSeq(r, 1, m)[i] = r[i]
  BY <1>1, <1>2
<1> QED
  BY <1>3, <1>4 DEF ToSet

\* enumerate_routes_filtered lists the routes not quoted yet, all of them without a cap.
LEMMA RemainingLists ==
  ASSUME cfg \in Settings, Evaluated(st) \in Int
  PROVE  /\ Remaining \in Seq(Paths) /\ Distinct(Remaining) /\ ToSet(Remaining) \subseteq Unquoted
         /\ cfg.cap = 0 => ToSet(Remaining) = Unquoted
<1> DEFINE left == InOrder(Unquoted, Ascending(Unquoted))
           m == Min({Max({cfg.cap - Evaluated(st), 0}), Len(left)})
<1>1. Unquoted \in SUBSET Int /\ Unquoted \in SUBSET Paths /\ IsFiniteSet(Unquoted)
  <2>1. Unquoted \in SUBSET Paths
    BY DEF Unquoted
  <2>2. IsFiniteSet(Unquoted)
    BY <2>1, PathsFinite, FS_Subset
  <2>3. Paths \subseteq Int
    BY PathsFinite
  <2> QED
    BY <2>1, <2>2, <2>3
<1>2. left \in Seq(Unquoted) /\ Distinct(left) /\ ToSet(left) = Unquoted
  BY <1>1, AscendingIsTotal, InOrderLists
<1>3. Remaining = IF cfg.cap = 0 THEN left ELSE SubSeq(left, 1, m)
  BY DEF Remaining
<1>4. m \in Nat /\ m <= Len(left)
  <2>1. cfg.cap \in Nat
    BY SettingsValid
  <2> DEFINE b == Max({cfg.cap - Evaluated(st), 0})
  <2>2. b \in Nat
    <3>1. cfg.cap - Evaluated(st) \in Int
      BY <2>1
    <3> QED
      BY <3>1, MaxWithZero
  <2> HIDE DEF b, left
  <2>3. Len(left) \in Nat
    BY <1>2
  <2>4. Min({b, Len(left)}) \in Nat /\ Min({b, Len(left)}) <= Len(left)
    BY <2>2, <2>3, MinOfTwo
  <2> QED
    BY <2>4 DEF b
<1> HIDE DEF left, m
<1>5. left \in Seq(Paths)
  <2>1. left \in Seq(Unquoted) /\ Unquoted \subseteq Paths
    BY <1>1, <1>2
  <2> QED
    BY <2>1
<1>6. /\ SubSeq(left, 1, m) \in Seq(Paths) /\ Len(SubSeq(left, 1, m)) = m
      /\ \A i \in 1 .. m : i \in DOMAIN left /\ SubSeq(left, 1, m)[i] = left[i]
  BY <1>4, <1>5
<1>7. Distinct(SubSeq(left, 1, m)) /\ ToSet(SubSeq(left, 1, m)) \subseteq Unquoted
  BY <1>2, <1>6, SMTT(30) DEF Distinct, ToSet
<1> QED
  BY <1>2, <1>3, <1>5, <1>6, <1>7

\* A worker of a batch quotes exactly the routes of the requests it was given.
LEMMA RoutesOfType ==
  ASSUME cfg \in Settings, NEW i \in DOMAIN cfg.requests
  PROVE  RoutesOf(i) \in Seq(Paths)
<1>1. cfg.requests[i] \in Seq(Paths)
  BY SettingsValid
<1> QED
  BY <1>1, UpToCapType DEF RoutesOf

\* Results with the indexes they are for, and the lemma that collect_ordered_results puts
\* them in the places of their indexes.
Tagged(f, n) == {<<i, f[i]>> : i \in 1 .. n}
LEMMA CollectOrderedPlaces ==
  ASSUME NEW n \in Nat, NEW f, NEW S, S = Tagged(f, n)
  PROVE  DOMAIN CollectOrdered(S) = 1 .. n /\ \A i \in 1 .. n : CollectOrdered(S)[i] = f[i]
<1> USE DEF Tagged
<1> DEFINE R == {r \in S \X S : r[1][1] <= r[2][1]}
           upTo(k) == {<<i, f[i]>> : i \in 1 .. k}
<1>1. ASSUME NEW k \in 0 .. n
      PROVE  Cardinality(upTo(k)) = k
  <2> DEFINE g == [i \in 1 .. k |-> <<i, f[i]>>]
  <2>1. g \in Injection(1 .. k, upTo(k))
    BY DEF Injection, IsInjective
  <2>2. g \in Surjection(1 .. k, upTo(k))
    BY DEF Surjection
  <2>3. ExistsBijection(1 .. k, upTo(k))
    BY <2>1, <2>2 DEF ExistsBijection, Bijection
  <2> HIDE DEF upTo
  <2> QED
    BY <2>3, FS_CountingElements
<1>2. ASSUME NEW k \in 1 .. n
      PROVE  {y \in S : <<y, <<k, f[k]>>>> \in R} = upTo(k)
  <2>1. \A y \in S : <<y, <<k, f[k]>>>> \in R <=> y[1] <= k
    OBVIOUS
  <2> QED
    BY <2>1
<1>3. Cardinality(S) = n
  BY <1>1
<1> HIDE DEF upTo
<1>4. ASSUME NEW k \in 1 .. n
      PROVE  (CHOOSE x \in S : Cardinality({y \in S : <<y, x>> \in R}) = k) = <<k, f[k]>>
  <2> DEFINE rk(x) == Cardinality({y \in S : <<y, x>> \in R})
  <2>1. ASSUME NEW i \in 1 .. n
        PROVE  rk(<<i, f[i]>>) = i
    <3>1. {y \in S : <<y, <<i, f[i]>>>> \in R} = upTo(i)
      BY <1>2
    <3>2. Cardinality(upTo(i)) = i
      BY <1>1
    <3> QED
      BY <3>1, <3>2, Zenon
  <2>2. <<k, f[k]>> \in S
    OBVIOUS
  <2> HIDE DEF rk, R
  <2>3. \A x \in S : rk(x) = k => x = <<k, f[k]>>
    BY <2>1
  <2>4. (CHOOSE x \in S : rk(x) = k) = <<k, f[k]>>
    BY <2>1, <2>2, <2>3
  <2> QED
    BY <2>4 DEF rk
<1>5. DOMAIN InOrder(S, R) = 1 .. n /\ \A i \in 1 .. n : InOrder(S, R)[i] = <<i, f[i]>>
  BY <1>3, <1>4 DEF InOrder
<1>6. CollectOrdered(S) = [i \in DOMAIN InOrder(S, R) |-> InOrder(S, R)[i][2]]
  BY DEF CollectOrdered
<1> DEFINE order == InOrder(S, R)
<1> HIDE DEF R
<1>7. /\ DOMAIN order = 1 .. n /\ \A i \in 1 .. n : order[i] = <<i, f[i]>>
      /\ CollectOrdered(S) = [i \in DOMAIN order |-> order[i][2]]
  BY <1>5, <1>6
<1> HIDE DEF order
<1>8. DOMAIN CollectOrdered(S) = 1 .. n /\ \A i \in 1 .. n : CollectOrdered(S)[i] = order[i][2]
  BY <1>7, Zenon
<1>9. \A i \in 1 .. n : <<i, f[i]>>[2] = f[i]
  OBVIOUS
<1> QED
  BY <1>7, <1>8, <1>9, Zenon
------------------------------------------------------------------------------
(* The inductive invariants *)

Early == {"start", "heuristic", "heuristic over", "heuristic done", "heuristic phase", "enumerate"}
Quoting == {"workers", "ranking"}
Locations == Early \cup Quoting \cup {"stopping", "refused", "exhaustive phase", "returned"}

SearchTypes ==
  /\ cfg \in Settings /\ pc \in Locations /\ cancelled \in BOOLEAN
  /\ chunk \in [Threads -> Seq(Paths)] /\ hop \in [Threads -> Nat \ {0}]
  /\ channel \in Seq(Paths) /\ quoted \subseteq Paths
  /\ worker \in [Threads -> {"idle", "running", "ended", "panicked"}]
  /\ pc \in Early => channel = <<>> /\ ~cancelled
  /\ pc = "ranking" => OneShot(cfg) /\ ~cancelled
  /\ pc \notin {"start", "ranking", "returned"} => ~OneShot(cfg)

\* The key a worker needs next; the hops before it were quoted. It asks the cache for that
\* key and no other, and the reply it holds is the quote of that key.
KeyAt(t) == PathKeys[Head(chunk[t])][hop[t]]
WorkerInv(t) ==
  /\ chunk[t] # <<>> =>
       /\ hop[t] <= Len(PathKeys[Head(chunk[t])])
       /\ \A i \in 1 .. (hop[t] - 1) : Outcome[PathKeys[Head(chunk[t])][i]] # 0
  /\ doing[t] # "idle" => asking[t] = KeyAt(t) /\ reply[t] = <<>>
  /\ reply[t] # <<>> => reply[t] = <<KeyAt(t), Outcome[KeyAt(t)]>>
  /\ doing[t] # "idle" \/ reply[t] # <<>> => worker[t] = "running" /\ chunk[t] # <<>>
  /\ worker[t] = "running" => pc \in Quoting
  /\ pc \in Early => chunk[t] = <<>> /\ hop[t] = 1 /\ worker[t] = "idle"

WorkInv == SearchTypes /\ \A t \in Threads : WorkerInv(t)

CacheTypes ==
  /\ entries \in [Keys -> {Absent, InFlight} \cup Nat] /\ indexed \subseteq Keys
  /\ doing \in [Threads -> {"idle", "lookup", "asleep", "simulating"}]
  /\ DOMAIN asking = Threads /\ DOMAIN reply = Threads
  /\ asking = [t \in Threads |-> asking[t]] /\ reply = [t \in Threads |-> reply[t]]

\* What is in flight is simulated, by one thread, and what is ready is the key's outcome.
Simulates(t, k) == doing[t] = "simulating" /\ asking[t] = k
FlightInv ==
  /\ indexed = {k \in Keys : entries[k] # Absent}
  /\ \A k \in Keys : entries[k] \in {Absent, InFlight, Outcome[k]}
  /\ \A k \in Keys : entries[k] = InFlight <=> \E t \in Threads : Simulates(t, k)
  /\ \A k \in Keys : \A t, u \in Threads : Simulates(t, k) /\ Simulates(u, k) => t = u

CacheInv == CacheTypes /\ FlightInv

\* The best is that of the routes quoted, which are counted once each.
StateFields ==
  {"best", "heuristic", "top", "observed", "failed", "total", "completed", "released", "finality"}
StateShape(s) ==
  /\ DOMAIN s = StateFields /\ s = [f \in StateFields |-> s[f]]
  /\ s.best \in Nat /\ s.observed \in Nat
  /\ s.finality \in {"none", "stopped", "policy"} /\ s.released \in BOOLEAN
StateInv ==
  /\ StateShape(st)
  /\ pc \in Early => st.failed \in Nat
  /\ outcome \in {"none", "error", "ranked"} \cup SearchFinality
  /\ pc # "returned" => outcome = "none"
BestInv ==
  /\ \A p \in quoted : AmountOf(p) # 0 /\ AmountOf(p) <= st.best
  /\ st.best # 0 => \E p \in quoted : AmountOf(p) = st.best
  /\ OneShot(cfg) => quoted = {}
CallerInv == (st.best = 0 => told = 0) /\ refused \in BOOLEAN /\ CallerKnowsBest

\* The callback's stop and the policy's are told apart, and neither survives where the
\* coordinating thread goes on.
FinalityInv ==
  /\ st.finality = "stopped" => refused
  /\ pc \in {"heuristic phase", "enumerate"} => st.finality = "none"
  /\ pc = "refused" => refused \/ st.finality = "none"
ReportInv == StateInv /\ BestInv /\ CallerInv /\ FinalityInv /\ EachRouteOnce

\* A route waits in one place only: in a chunk, in the channel, or it was received.
DisjointInv ==
  ~OneShot(cfg) =>
    /\ Distinct(channel) /\ ToSet(channel) \cap quoted = {}
    /\ \A t \in Threads : /\ Distinct(chunk[t]) /\ ToSet(chunk[t]) \cap quoted = {}
                          /\ ToSet(chunk[t]) \cap ToSet(channel) = {}
    /\ \A t, u \in Threads : t # u => ToSet(chunk[t]) \cap ToSet(chunk[u]) = {}

\* No route gets lost, unless a worker panicked or the search was cancelled.
Pending(p) == p \in ToSet(channel) \/ \E t \in Threads : p \in ToSet(chunk[t])
NoPanic == \A t \in Threads : worker[t] # "panicked"
SentAreQuoted == \A p \in ToSet(channel) : AmountOf(p) # 0
NoneLost ==
  (pc \in Quoting /\ ~cancelled /\ NoPanic) =>
    /\ \A t \in Threads : worker[t] # "running" => chunk[t] = <<>>
    /\ (pc = "workers" /\ cfg.cap = 0) =>
         \A p \in Paths : AmountOf(p) = 0 \/ p \in quoted \/ Pending(p)
AllSeen ==
  /\ (pc = "exhaustive phase" \/ outcome = "exhaustive") /\ cfg.cap = 0 =>
       \A p \in Paths : AmountOf(p) = 0 \/ p \in quoted
  /\ outcome = "exhaustive" => st.best # 0
CoverInv == SentAreQuoted /\ NoneLost /\ AllSeen

\* A worker of a one-shot search holds the routes of the request it serves, and keeps what it
\* quotes for that request.
ServeTypes ==
  /\ serving \in [Threads -> Seq(DOMAIN cfg.requests)]
  /\ ~OneShot(cfg) => \A t \in Threads : serving[t] = <<>>
ChunksServe ==
  OneShot(cfg) =>
    \A t \in Threads :
      chunk[t] # <<>> => serving[t] # <<>> /\ ToSet(chunk[t]) \subseteq ToSet(RoutesOf(Head(serving[t])))
KeptFor(q) == \E i \in DOMAIN cfg.requests : \E p \in ToSet(RoutesOf(i)) : q = <<i, p>> /\ AmountOf(p) # 0
KeptServe == \A q \in kept : KeptFor(q)

\* A route of a request is kept, in the chunk of the worker that serves the request, or that
\* request is still to be served, unless a worker panicked.
InChunk(i, p) == \E t \in Threads : serving[t] # <<>> /\ Head(serving[t]) = i /\ p \in ToSet(chunk[t])
ToServe(i) == \E t \in Threads : \E j \in 2 .. Len(serving[t]) : serving[t][j] = i
Waiting(i, p) == <<i, p>> \in kept \/ InChunk(i, p) \/ ToServe(i)
NoneUnserved ==
  (pc = "ranking" /\ NoPanic) =>
    /\ \A t \in Threads : worker[t] # "running" => Len(serving[t]) <= 1
    /\ \A i \in DOMAIN cfg.requests : \A p \in ToSet(RoutesOf(i)) : AmountOf(p) = 0 \/ Waiting(i, p)
AnswersExact ==
  outcome = "ranked" =>
    /\ DOMAIN answers = DOMAIN cfg.requests
    /\ \A i \in DOMAIN cfg.requests :
         ToSet(answers[i]) = {p \in ToSet(RoutesOf(i)) : AmountOf(p) # 0}
ServeInv == ServeTypes /\ ChunksServe /\ KeptServe /\ NoneUnserved /\ AnswersExact

IInv == WorkInv /\ CacheInv /\ ReportInv /\ DisjointInv /\ CoverInv /\ ServeInv
------------------------------------------------------------------------------
------------------------------------------------------------------------------
(* The workers' state *)

\* The steps of the coordinating thread that touch neither the workers nor the cache.
QuietStep ==
  /\ UNCHANGED <<cfg, quoted, workerVars, cacheVars>>
  /\ pc' \in Locations /\ (pc' \in Early => pc \in Early)
  /\ (pc' \in Quoting => pc' = pc)
  /\ (pc \in Quoting => pc' = pc \/ \A t \in Threads : worker[t] # "running")
  /\ (pc' # "returned" => pc' = pc \/ (~OneShot(cfg) /\ pc' # "start"))

QuietAction(n) ==
  \/ Start \/ Cancel \/ FinishHeuristic(n) \/ Stopping(n) \/ Refused(n) \/ Join(n)
  \/ \E f \in 0 .. MaxFailed, c \in BOOLEAN : HeuristicOver(f, c, n)
  \/ \E s \in BOOLEAN : HeuristicPhase(s, n) \/ ExhaustivePhase(s, n)

LEMMA QuietActionIsQuiet ==
  ASSUME SearchTypes, NEW n \in Stops, QuietAction(n)
  PROVE  QuietStep
<1> USE DEF QuietStep, Locations, Early, Quoting
<1>1. pc \in Locations /\ (pc \notin {"start", "ranking", "returned"} => ~OneShot(cfg))
  BY DEF SearchTypes
<1>2. ASSUME NEW finality, NEW completed, FinishReport(finality, completed, n)
      PROVE  UNCHANGED <<cfg, quoted, workerVars, cacheVars>> /\ pc' = "returned"
  BY <1>2 DEF FinishReport
<1>3. CASE Start
  BY <1>1, <1>3 DEF Start
<1>4. CASE Cancel
  BY <1>1, <1>4 DEF Cancel
<1>5. CASE FinishHeuristic(n)
  BY <1>1, <1>5 DEF FinishHeuristic
<1>6. CASE Stopping(n)
  BY <1>1, <1>2, <1>6 DEF Stopping, StopReport
<1>7. CASE Refused(n)
  BY <1>1, <1>2, <1>7 DEF Refused
<1>8. CASE Join(n)
  BY <1>1, <1>8 DEF Join, Fail
<1>9. ASSUME NEW f \in 0 .. MaxFailed, NEW c \in BOOLEAN, HeuristicOver(f, c, n)
      PROVE  QuietStep
  BY <1>1, <1>9 DEF HeuristicOver
<1>10. ASSUME NEW s \in BOOLEAN, HeuristicPhase(s, n)
       PROVE  QuietStep
  BY <1>1, <1>2, <1>10 DEF HeuristicPhase, Fail, searchVars
<1>11. ASSUME NEW s \in BOOLEAN, ExhaustivePhase(s, n)
       PROVE  QuietStep
  BY <1>1, <1>2, <1>11 DEF ExhaustivePhase, Fail
<1> QED
  BY <1>3, <1>4, <1>5, <1>6, <1>7, <1>8, <1>9, <1>10, <1>11 DEF QuietAction

LEMMA QuietKeepsWork ==
  ASSUME WorkInv, QuietStep
  PROVE  WorkInv'
<1>1. SearchTypes'
  BY DEF WorkInv, SearchTypes, QuietStep, workerVars, OneShot, Early, Quoting
<1>2. ASSUME NEW t \in Threads
      PROVE  WorkerInv(t)'
  <2>1. WorkerInv(t) /\ pc \in Locations
    BY DEF WorkInv, SearchTypes
  <2> QED
    BY <2>1 DEF WorkerInv, KeyAt, QuietStep, workerVars, cacheVars, Quoting
<1> QED
  BY <1>1, <1>2 DEF WorkInv

\* Chunks are handed out to workers that did nothing yet.
LEMMA HandOutKeepsWork ==
  ASSUME WorkInv, pc \in Early, pc' \in {"workers", "ranking", "stopping"},
         NEW C \in [Threads -> Seq(Paths)], chunk' = C,
         worker' \in [Threads -> {"idle", "running"}],
         pc' = "stopping" => \A t \in Threads : worker'[t] = "idle",
         pc' = "ranking" <=> OneShot(cfg),
         UNCHANGED <<cfg, quoted, hop, channel, cancelled, cacheVars>>
  PROVE  WorkInv'
<1>1. SearchTypes'
  BY DEF WorkInv, SearchTypes, OneShot, Early, Quoting, Locations
<1>2. ASSUME NEW t \in Threads
      PROVE  WorkerInv(t)'
  <2>1. WorkerInv(t) /\ hop \in [Threads -> Nat \ {0}]
    BY DEF WorkInv, SearchTypes
  <2>2. doing[t] = "idle" /\ reply[t] = <<>> /\ hop[t] = 1
    BY <2>1 DEF WorkerInv
  <2>3. UNCHANGED <<doing, asking, reply, hop>> /\ chunk'[t] \in Seq(Paths)
    BY DEF cacheVars
  <2>4. C[t] # <<>> => Head(C[t]) \in Paths
    OBVIOUS
  <2>5. C[t] # <<>> => 1 <= Len(PathKeys[Head(C[t])])
    BY <2>4, PathKeysType
  <2>6. pc' \notin Early
    BY DEF Early
  <2> QED
    BY <2>2, <2>3, <2>5, <2>6 DEF WorkerInv, Quoting
<1> QED
  BY <1>1, <1>2 DEF WorkInv
\* Enumerate and the starts of the other searches hand out chunks.
LEMMA EnumerateHandsOut ==
  ASSUME WorkInv, StateInv, NEW n \in Stops, Enumerate(n), live
  PROVE  /\ chunk' \in [Threads -> Seq(Paths)]
         /\ worker' = [t \in Threads |-> IF chunk'[t] # <<>> /\ ~Halted THEN "running" ELSE "idle"]
         /\ pc' = IF Halted THEN "stopping" ELSE "workers"
         /\ UNCHANGED <<cfg, quoted, hop, channel, cancelled, cacheVars, outcome, error, answers>>
         /\ \A t \in Threads : Distinct(chunk'[t]) /\ ToSet(chunk'[t]) \subseteq Unquoted
         /\ \A t, u \in Threads : t # u => ToSet(chunk'[t]) \cap ToSet(chunk'[u]) = {}
         /\ cfg.cap = 0 => \A p \in Unquoted : \E t \in Threads : p \in ToSet(chunk'[t])
         /\ Announce([st EXCEPT !.total = Evaluated(st) + Len(Remaining)], <<>>, n)
<1> DEFINE left == Remaining
<1>1. /\ chunk' = (IF left = <<>> THEN chunk ELSE SplitPaths(left))
      /\ worker' = [t \in Threads |-> IF chunk'[t] # <<>> /\ ~Halted THEN "running" ELSE "idle"]
      /\ pc' = (IF Halted THEN "stopping" ELSE "workers")
      /\ UNCHANGED <<cfg, quoted, hop, channel, cancelled, cacheVars, outcome, error, answers>>
      /\ Announce([st EXCEPT !.total = Evaluated(st) + Len(Remaining)], <<>>, n)
  BY DEF Enumerate
<1>2. /\ left \in Seq(Paths) /\ Distinct(left) /\ ToSet(left) \subseteq Unquoted
      /\ cfg.cap = 0 => ToSet(left) = Unquoted
  <2>1. cfg \in Settings
    BY DEF WorkInv, SearchTypes
  <2>2. Evaluated(st) \in Int
    BY DEF StateInv, StateShape, Evaluated, Enumerate, Early
  <2> QED
    BY <2>1, <2>2, RemainingLists
<1>3. \A t \in Threads : chunk[t] = <<>>
  BY DEF WorkInv, WorkerInv, Enumerate, Early
<1>4. chunk \in [Threads -> Seq(Paths)]
  BY DEF WorkInv, SearchTypes
<1> HIDE DEF left
<1>5. CASE left = <<>>
  <2>1. ToSet(left) = {}
    BY <1>5 DEF ToSet
  <2>2. chunk' = chunk
    BY <1>1, <1>5
  <2>3. \A t \in Threads : Distinct(chunk'[t]) /\ ToSet(chunk'[t]) = {}
    BY <1>3, <2>2 DEF Distinct, ToSet
  <2> QED
    BY <1>1, <1>2, <1>4, <2>1, <2>2, <2>3
<1>6. CASE left # <<>>
  <2>1. chunk' = SplitPaths(left)
    BY <1>1, <1>6
  <2>2. /\ SplitPaths(left) \in [Threads -> Seq(Paths)]
        /\ \A t \in Threads : ToSet(SplitPaths(left)[t]) \subseteq ToSet(left)
        /\ \A p \in ToSet(left) : \E t \in Threads : p \in ToSet(SplitPaths(left)[t])
        /\ \A t \in Threads : Distinct(SplitPaths(left)[t])
        /\ \A t, u \in Threads :
             t # u => ToSet(SplitPaths(left)[t]) \cap ToSet(SplitPaths(left)[u]) = {}
    BY <1>2, SplitPathsSplits
  <2> QED
    BY <1>1, <1>2, <2>1, <2>2
<1> QED
  BY <1>5, <1>6

LEMMA EnumerateKeepsWork ==
  ASSUME WorkInv, StateInv, NEW n \in Stops, Enumerate(n)
  PROVE  WorkInv'
<1>1. pc = "enumerate" /\ pc \in Early /\ ~OneShot(cfg)
  BY DEF WorkInv, SearchTypes, Enumerate, Early
<1>2. CASE ~live
  <2>1. UNCHANGED <<searchVars, workerVars, cacheVars>> /\ pc' = "refused"
    BY <1>2 DEF Enumerate
  <2>2. QuietStep
    BY <1>1, <2>1 DEF QuietStep, searchVars, Early, Quoting, Locations
  <2> QED
    BY <2>2, QuietKeepsWork
<1>3. CASE live
  <2>1. /\ chunk' \in [Threads -> Seq(Paths)]
        /\ worker' = [t \in Threads |-> IF chunk'[t] # <<>> /\ ~Halted THEN "running" ELSE "idle"]
        /\ pc' = IF Halted THEN "stopping" ELSE "workers"
        /\ UNCHANGED <<cfg, quoted, hop, channel, cancelled, cacheVars>>
    BY <1>3, EnumerateHandsOut
  <2>2. /\ worker' \in [Threads -> {"idle", "running"}]
        /\ pc' = "stopping" => \A t \in Threads : worker'[t] = "idle"
        /\ pc' \in {"workers", "ranking", "stopping"} /\ (pc' = "ranking" <=> OneShot(cfg))
    BY <1>1, <2>1
  <2> QED
    BY <1>1, <2>1, <2>2, HandOutKeepsWork
<1> QED
  BY <1>2, <1>3

LEMMA StartHandsOut ==
  ASSUME WorkInv, StartParallel \/ StartBatch
  PROVE  /\ OneShot(cfg) /\ pc = "start" /\ pc' = "ranking" /\ chunk' \in [Threads -> Seq(Paths)]
         /\ serving' \in [Threads -> Seq(DOMAIN cfg.requests)]
         /\ worker' = [t \in Threads |-> IF serving'[t] # <<>> THEN "running" ELSE "idle"]
         /\ UNCHANGED <<searchVars, hop, channel, cancelled, kept, cacheVars>>
         /\ \A t \in Threads : chunk'[t] # <<>> =>
              serving'[t] # <<>> /\ ToSet(chunk'[t]) \subseteq ToSet(RoutesOf(Head(serving'[t])))
         /\ \A i \in DOMAIN cfg.requests : \A p \in ToSet(RoutesOf(i)) : \E t \in Threads :
              \/ serving'[t] # <<>> /\ Head(serving'[t]) = i /\ p \in ToSet(chunk'[t])
              \/ \E j \in 2 .. Len(serving'[t]) : serving'[t][j] = i
<1>1. cfg \in Settings /\ cfg.requests \in Seq(Seq(Paths))
  BY SettingsValid DEF WorkInv, SearchTypes
<1>2. ASSUME NEW indexes, NEW chunks, StartWorkers(indexes, chunks)
      PROVE  /\ pc = "start" /\ pc' = "ranking" /\ serving' = indexes /\ chunk' = chunks
             /\ worker' = [t \in Threads |-> IF indexes[t] # <<>> THEN "running" ELSE "idle"]
             /\ UNCHANGED <<searchVars, hop, channel, cancelled, kept, cacheVars>>
  BY <1>2 DEF StartWorkers
<1>3. CASE StartParallel
  <2> DEFINE split == SplitPaths(RoutesOf(1))
             indexes == [t \in Threads |-> IF split[t] = <<>> THEN <<>> ELSE <<1>>]
  <2>1. cfg.completion = "parallel" /\ StartWorkers(indexes, split)
    BY <1>3 DEF StartParallel
  <2>2. DOMAIN cfg.requests = {1}
    <3>1. Len(cfg.requests) = 1
      BY <1>1, <2>1, SettingsValid
    <3> QED
      BY <1>1, <3>1
  <2>3. RoutesOf(1) \in Seq(Paths)
    BY <1>1, <2>2, RoutesOfType
  <2>4. /\ split \in [Threads -> Seq(Paths)]
        /\ \A t \in Threads : ToSet(split[t]) \subseteq ToSet(RoutesOf(1))
        /\ \A p \in ToSet(RoutesOf(1)) : \E t \in Threads : p \in ToSet(split[t])
    BY <2>3, SplitPathsSplits
  <2>5. ToSet(<<>>) = {}
    BY DEF ToSet
  <2> HIDE DEF split
  <2>6. /\ indexes \in [Threads -> Seq(DOMAIN cfg.requests)]
        /\ \A t \in Threads : indexes[t] = <<>> <=> split[t] = <<>>
        /\ \A t \in Threads : indexes[t] # <<>> => Head(indexes[t]) = 1
    <3>1. <<1>> \in Seq(DOMAIN cfg.requests) /\ <<>> \in Seq(DOMAIN cfg.requests)
      BY <2>2
    <3>2. <<1>> # <<>> /\ Head(<<1>>) = 1
      OBVIOUS
    <3> QED
      BY <3>1, <3>2
  <2> HIDE DEF indexes
  <2>7. /\ serving' = indexes /\ chunk' = split
        /\ worker' = [t \in Threads |-> IF indexes[t] # <<>> THEN "running" ELSE "idle"]
        /\ UNCHANGED <<searchVars, hop, channel, cancelled, kept, cacheVars>>
        /\ pc = "start" /\ pc' = "ranking" /\ OneShot(cfg)
    BY <1>2, <2>1 DEF OneShot
  <2>8. \A i \in DOMAIN cfg.requests : \A p \in ToSet(RoutesOf(i)) : \E t \in Threads :
          indexes[t] # <<>> /\ Head(indexes[t]) = i /\ p \in ToSet(split[t])
    BY <2>2, <2>4, <2>5, <2>6
  <2>9. \A t \in Threads : split[t] # <<>> =>
          indexes[t] # <<>> /\ ToSet(split[t]) \subseteq ToSet(RoutesOf(Head(indexes[t])))
    BY <2>4, <2>6
  <2> QED
    BY <2>4, <2>6, <2>7, <2>8, <2>9
<1>4. CASE StartBatch
  <2> DEFINE indexes == [i \in DOMAIN cfg.requests |-> i]
             split == SplitIndexedItems(cfg.requests)
             C == [t \in Threads |-> IF split[t] = <<>> THEN <<>> ELSE RoutesOf(Head(split[t]))]
  <2>1. cfg.completion = "batch" /\ StartWorkers(split, C)
    BY <1>4 DEF StartBatch
  <2>2. indexes \in Seq(DOMAIN cfg.requests) /\ ToSet(indexes) = DOMAIN cfg.requests
    BY <1>1 DEF ToSet
  <2>3. split = SplitPaths(indexes)
    BY DEF SplitIndexedItems
  <2> HIDE DEF indexes, split
  <2>4. /\ split \in [Threads -> Seq(DOMAIN cfg.requests)]
        /\ \A i \in DOMAIN cfg.requests : \E t \in Threads : i \in ToSet(split[t])
    BY <2>2, <2>3, SplitPathsSplits
  <2>5. ASSUME NEW t \in Threads
        PROVE  /\ C[t] \in Seq(Paths)
               /\ C[t] # <<>> => split[t] # <<>> /\ ToSet(C[t]) \subseteq ToSet(RoutesOf(Head(split[t])))
               /\ split[t] # <<>> => C[t] = RoutesOf(Head(split[t]))
    <3>1. split[t] # <<>> => Head(split[t]) \in DOMAIN cfg.requests
      BY <2>4
    <3>2. split[t] # <<>> => RoutesOf(Head(split[t])) \in Seq(Paths)
      BY <1>1, <3>1, RoutesOfType
    <3> QED
      BY <3>2
  <2>6. C \in [Threads -> Seq(Paths)]
    BY <2>5
  <2>7. ASSUME NEW i \in DOMAIN cfg.requests, NEW p \in ToSet(RoutesOf(i))
        PROVE  \E t \in Threads : \/ split[t] # <<>> /\ Head(split[t]) = i /\ p \in ToSet(C[t])
                                  \/ \E j \in 2 .. Len(split[t]) : split[t][j] = i
    <3>1. PICK t \in Threads : i \in ToSet(split[t])
      BY <2>4
    <3>2. PICK j \in DOMAIN split[t] : split[t][j] = i
      BY <3>1 DEF ToSet
    <3>3. split[t] \in Seq(DOMAIN cfg.requests)
      BY <2>4
    <3> HIDE DEF C
    <3>4. CASE j = 1
      <4>1. split[t] # <<>> /\ Head(split[t]) = i
        BY <3>2, <3>3, <3>4
      <4> QED
        BY <2>5, <4>1
    <3>5. CASE j # 1
      <4>1. j \in 2 .. Len(split[t])
        BY <3>3, <3>5
      <4> QED
        BY <3>2, <4>1
    <3> QED
      BY <3>4, <3>5
  <2> HIDE DEF C
  <2>8. /\ serving' = split /\ chunk' = C
        /\ worker' = [t \in Threads |-> IF split[t] # <<>> THEN "running" ELSE "idle"]
        /\ UNCHANGED <<searchVars, hop, channel, cancelled, kept, cacheVars>>
        /\ pc = "start" /\ pc' = "ranking" /\ OneShot(cfg)
    BY <1>2, <2>1 DEF OneShot
  <2> QED
    BY <2>4, <2>5, <2>6, <2>7, <2>8
<1> QED
  BY <1>3, <1>4

LEMMA StartKeepsWork ==
  ASSUME WorkInv, StartParallel \/ StartBatch
  PROVE  WorkInv'
<1>1. /\ OneShot(cfg) /\ pc = "start" /\ pc' = "ranking" /\ chunk' \in [Threads -> Seq(Paths)]
      /\ worker' = [t \in Threads |-> IF serving'[t] # <<>> THEN "running" ELSE "idle"]
      /\ UNCHANGED <<cfg, quoted, hop, channel, cancelled, cacheVars>>
  BY StartHandsOut DEF searchVars
<1>2. pc \in Early /\ worker' \in [Threads -> {"idle", "running"}]
  BY <1>1 DEF Early
<1> QED
  BY <1>1, <1>2, HandOutKeepsWork
LEMMA SameWorker ==
  ASSUME NEW u \in Threads, WorkerInv(u), pc' = pc,
         chunk'[u] = chunk[u], hop'[u] = hop[u], worker'[u] = worker[u],
         asking'[u] = asking[u], reply'[u] = reply[u],
         doing'[u] # "idle" <=> doing[u] # "idle"
  PROVE  WorkerInv(u)'
BY DEF WorkerInv, KeyAt

LEMMA HeuristicQuoteKeepsWork ==
  ASSUME WorkInv, NEW n \in Stops, NEW p \in Paths, HeuristicQuote(p, n)
  PROVE  WorkInv'
<1>1. /\ pc = "heuristic" /\ pc' \in {"heuristic", "heuristic over"}
      /\ quoted' = quoted \cup {p} /\ UNCHANGED <<cfg, workerVars, asking, doing, reply>>
  BY DEF HeuristicQuote, Quoted
<1>2. SearchTypes'
  BY <1>1 DEF WorkInv, SearchTypes, workerVars, OneShot, Early, Quoting, Locations
<1>3. ASSUME NEW t \in Threads
      PROVE  WorkerInv(t)'
  <2>1. WorkerInv(t)
    BY DEF WorkInv
  <2> QED
    BY <1>1, <2>1 DEF WorkerInv, KeyAt, workerVars, Early, Quoting
<1> QED
  BY <1>2, <1>3 DEF WorkInv

LEMMA ReceiveKeepsWork ==
  ASSUME WorkInv, NEW n \in Stops, Receive(n)
  PROVE  WorkInv'
<1>1. /\ pc = "workers" /\ pc' = pc /\ channel # <<>>
      /\ quoted' = quoted \cup {Head(channel)}
      /\ cancelled' \in BOOLEAN /\ channel' \in {<<>>, Tail(channel)}
      /\ UNCHANGED <<cfg, chunk, hop, worker, cacheVars>>
  BY DEF Receive, Halted
<1>2. channel \in Seq(Paths) /\ Head(channel) \in Paths /\ Tail(channel) \in Seq(Paths)
  <2>1. channel \in Seq(Paths)
    BY DEF WorkInv, SearchTypes
  <2> QED
    BY <1>1, <2>1
<1>3. SearchTypes'
  <2>1. channel' \in Seq(Paths)
    <3>1. CASE channel' = <<>>
      BY <3>1
    <3>2. CASE channel' = Tail(channel)
      BY <1>2, <3>2
    <3> QED
      BY <1>1, <3>1, <3>2
  <2>2. quoted' \subseteq Paths
    BY <1>1, <1>2 DEF WorkInv, SearchTypes
  <2> QED
    BY <1>1, <2>1, <2>2 DEF WorkInv, SearchTypes, OneShot, Early
<1>4. ASSUME NEW t \in Threads
      PROVE  WorkerInv(t)'
  BY <1>1, SameWorker DEF WorkInv, cacheVars
<1> QED
  BY <1>3, <1>4 DEF WorkInv

LEMMA RankAnswersKeepsWork ==
  ASSUME WorkInv, RankAnswers
  PROVE  WorkInv'
<1>1. /\ pc = "ranking" /\ pc' = "returned" /\ \A t \in Threads : worker[t] # "running"
      /\ UNCHANGED <<cfg, quoted, chunk, hop, channel, worker, cancelled, cacheVars>>
  BY DEF RankAnswers, Fail, workerVars
<1>2. SearchTypes'
  BY <1>1 DEF WorkInv, SearchTypes, OneShot, Early, Locations
<1>3. ASSUME NEW t \in Threads
      PROVE  WorkerInv(t)'
  <2>1. WorkerInv(t)
    BY DEF WorkInv
  <2> QED
    BY <1>1, <2>1 DEF WorkerInv, KeyAt, cacheVars, Early, Quoting
<1> QED
  BY <1>2, <1>3 DEF WorkInv

\* A step of worker t on the cache: it asks, looks up, simulates.
LEMMA AskHopKeepsWork ==
  ASSUME WorkInv, CacheTypes, NEW t \in Threads, AskHop(t)
  PROVE  WorkInv'
<1>1. /\ worker[t] = "running" /\ chunk[t] # <<>> /\ doing[t] = "idle"
      /\ asking' = [asking EXCEPT ![t] = KeyAt(t)] /\ doing' = [doing EXCEPT ![t] = "lookup"]
      /\ reply' = [reply EXCEPT ![t] = <<>>]
      /\ UNCHANGED <<searchVars, pc, workerVars>>
  BY DEF AskHop, Ask, coordinatorIdle, KeyAt
<1>2. SearchTypes'
  BY <1>1 DEF WorkInv, SearchTypes, searchVars, workerVars, OneShot
<1>3. ASSUME NEW u \in Threads
      PROVE  WorkerInv(u)'
  <2>1. CASE u = t
    <3>1. WorkerInv(t)
      BY DEF WorkInv
    <3>2. asking'[t] = KeyAt(t) /\ doing'[t] = "lookup" /\ reply'[t] = <<>>
      BY <1>1 DEF CacheTypes
    <3>3. UNCHANGED <<chunk, hop, worker, pc>>
      BY <1>1 DEF workerVars
    <3> QED
      BY <1>1, <2>1, <3>1, <3>2, <3>3 DEF WorkerInv, KeyAt
  <2>2. CASE u # t
    <3>1. WorkerInv(u) /\ UNCHANGED <<chunk, hop, worker, pc>>
      BY <1>1 DEF WorkInv, workerVars
    <3>2. asking'[u] = asking[u] /\ doing'[u] = doing[u] /\ reply'[u] = reply[u]
      BY <1>1, <2>2 DEF CacheTypes
    <3> QED
      BY <3>1, <3>2, SameWorker
  <2> QED
    BY <2>1, <2>2
<1> QED
  BY <1>2, <1>3 DEF WorkInv

\* A thread that gets or waits for a key gets it for its worker.
LEMMA AskedKey ==
  ASSUME WorkInv, NEW t \in Threads, doing[t] # "idle" \/ reply[t] # <<>>
  PROVE  /\ worker[t] = "running" /\ chunk[t] # <<>> /\ KeyAt(t) \in Keys
         /\ Head(chunk[t]) \in Paths /\ Len(PathKeys[Head(chunk[t])]) \in Nat /\ hop[t] \in Nat \ {0}
         /\ hop[t] <= Len(PathKeys[Head(chunk[t])])
         /\ doing[t] # "idle" => asking[t] = KeyAt(t) /\ reply[t] = <<>>
<1>1. WorkerInv(t) /\ chunk \in [Threads -> Seq(Paths)] /\ hop[t] \in Nat \ {0}
  BY DEF WorkInv, SearchTypes
<1>2. /\ worker[t] = "running" /\ chunk[t] # <<>> /\ hop[t] <= Len(PathKeys[Head(chunk[t])])
      /\ doing[t] # "idle" => asking[t] = KeyAt(t) /\ reply[t] = <<>>
  BY <1>1 DEF WorkerInv
<1>3. Head(chunk[t]) \in Paths
  BY <1>1, <1>2
<1>4. PathKeys[Head(chunk[t])] \in Seq(Keys) /\ Len(PathKeys[Head(chunk[t])]) \in Nat
  BY <1>3, PathKeysType
<1>5. KeyAt(t) \in Keys
  BY <1>1, <1>2, <1>4 DEF KeyAt
<1> QED
  BY <1>1, <1>2, <1>3, <1>4, <1>5

\* Looking up and simulating leave everything of a worker but its place in the cache, and
\* answer it with the outcome of its key.
LEMMA CacheStepKeepsWork ==
  ASSUME WorkInv, CacheTypes, NEW t \in Threads,
         UNCHANGED <<searchVars, pc, workerVars>>, doing[t] # "idle",
         \A u \in Threads \ {t} : /\ asking'[u] = asking[u] /\ reply'[u] = reply[u]
                                  /\ doing'[u] # "idle" <=> doing[u] # "idle",
         \/ doing'[t] # "idle" /\ asking'[t] = asking[t] /\ reply'[t] = reply[t]
         \/ doing'[t] = "idle" /\ reply'[t] = <<asking[t], Outcome[asking[t]]>>
  PROVE  WorkInv'
<1>1. UNCHANGED <<chunk, hop, worker, pc>>
  BY DEF workerVars
<1>2. SearchTypes'
  BY DEF WorkInv, SearchTypes, searchVars, workerVars, OneShot
<1>3. ASSUME NEW u \in Threads
      PROVE  WorkerInv(u)'
  <2>0. WorkerInv(u)
    BY DEF WorkInv
  <2>1. CASE u = t
    <3>1. asking[t] = KeyAt(t) /\ KeyAt(t)' = KeyAt(t) /\ worker[t] = "running" /\ chunk[t] # <<>>
      BY <1>1, AskedKey DEF KeyAt
    <3> QED
      BY <1>1, <2>0, <2>1, <3>1 DEF WorkerInv
  <2>2. CASE u # t
    BY <1>1, <2>0, <2>2, SameWorker
  <2> QED
    BY <2>1, <2>2
<1> QED
  BY <1>2, <1>3 DEF WorkInv
\* What the steps on the cache do to the threads.
LEMMA NotifiedKeepsBusy ==
  ASSUME CacheTypes, NEW t \in Threads, doing' = Notified([doing EXCEPT ![t] = "idle"])
  PROVE  /\ doing' \in [Threads -> {"idle", "lookup", "asleep", "simulating"}] /\ doing'[t] = "idle"
         /\ \A u \in Threads \ {t} : /\ doing'[u] # "idle" <=> doing[u] # "idle"
                                     /\ doing'[u] = "simulating" <=> doing[u] = "simulating"
BY DEF Notified, CacheTypes

LEMMA LookUpKeepsWork ==
  ASSUME WorkInv, CacheInv, NEW t \in Threads, WorkerLookUp(t)
  PROVE  WorkInv'
<1>1. UNCHANGED <<searchVars, pc, workerVars>> /\ doing[t] = "lookup"
  BY DEF WorkerLookUp, LookUp, coordinatorIdle
<1>2. asking[t] \in Keys
  BY <1>1, AskedKey
<1>3. \/ /\ entries[asking[t]] >= 0 /\ Returned(t, entries[asking[t]])
         /\ doing' = [doing EXCEPT ![t] = "idle"]
      \/ doing' = [doing EXCEPT ![t] = "asleep"] /\ UNCHANGED <<asking, reply>>
      \/ doing' = [doing EXCEPT ![t] = "simulating"] /\ UNCHANGED <<asking, reply>>
  BY DEF WorkerLookUp, LookUp
<1>4. \A u \in Threads \ {t} : /\ asking'[u] = asking[u] /\ reply'[u] = reply[u]
                               /\ doing'[u] = doing[u]
  BY <1>3 DEF Returned, CacheInv, CacheTypes
<1>5. \/ doing'[t] # "idle" /\ asking'[t] = asking[t] /\ reply'[t] = reply[t]
      \/ doing'[t] = "idle" /\ reply'[t] = <<asking[t], Outcome[asking[t]]>>
  <2>1. CASE entries[asking[t]] >= 0 /\ Returned(t, entries[asking[t]])
             /\ doing' = [doing EXCEPT ![t] = "idle"]
    <3>1. entries[asking[t]] = Outcome[asking[t]]
      BY <1>2, <2>1 DEF CacheInv, FlightInv, Absent, InFlight
    <3> QED
      BY <2>1, <3>1 DEF Returned, CacheInv, CacheTypes
  <2> QED
    BY <1>3, <2>1 DEF CacheInv, CacheTypes
<1> QED
  BY <1>1, <1>4, <1>5, CacheStepKeepsWork DEF CacheInv

LEMMA SimulatedKeepsWork ==
  ASSUME WorkInv, CacheInv, NEW t \in Threads, WorkerSimulated(t)
  PROVE  WorkInv'
<1>1. /\ UNCHANGED <<searchVars, pc, workerVars>> /\ doing[t] = "simulating"
      /\ Returned(t, Outcome[asking[t]]) /\ doing' = Notified([doing EXCEPT ![t] = "idle"])
  BY DEF WorkerSimulated, Simulated, coordinatorIdle
<1>2. CacheTypes
  BY DEF CacheInv
<1>3. \A u \in Threads \ {t} : /\ asking'[u] = asking[u] /\ reply'[u] = reply[u]
                               /\ doing'[u] # "idle" <=> doing[u] # "idle"
  BY <1>1, <1>2, NotifiedKeepsBusy DEF Returned, CacheTypes
<1>4. doing'[t] = "idle" /\ reply'[t] = <<asking[t], Outcome[asking[t]]>>
  BY <1>1, <1>2, NotifiedKeepsBusy DEF Returned, CacheTypes
<1> QED
  BY <1>1, <1>2, <1>3, <1>4, CacheStepKeepsWork

LEMMA PanicsKeepsWork ==
  ASSUME WorkInv, CacheInv, NEW t \in Threads, WorkerPanics(t)
  PROVE  WorkInv'
<1>1. /\ doing[t] = "simulating" /\ asking' = [asking EXCEPT ![t] = Absent]
      /\ doing' = Notified([doing EXCEPT ![t] = "idle"]) /\ reply' = reply
      /\ worker' = [worker EXCEPT ![t] = "panicked"] /\ chunk' = [chunk EXCEPT ![t] = <<>>]
      /\ UNCHANGED <<searchVars, pc, hop, failures, channel, cancelled>>
  BY DEF WorkerPanics, Panicked, coordinatorIdle
<1>2. CacheTypes
  BY DEF CacheInv
<1>3. /\ reply[t] = <<>> /\ worker[t] = "running" /\ pc \in Quoting
  <2>1. reply[t] = <<>> /\ worker[t] = "running"
    BY <1>1, AskedKey
  <2> QED
    BY <2>1 DEF WorkInv, WorkerInv
<1>4. chunk' \in [Threads -> Seq(Paths)]
  <2>1. <<>> \in Seq(Paths) /\ chunk \in [Threads -> Seq(Paths)]
    BY DEF WorkInv, SearchTypes
  <2> QED
    BY <1>1, <2>1
<1>5. SearchTypes'
  BY <1>1, <1>4 DEF WorkInv, SearchTypes, searchVars, OneShot
<1>6. ASSUME NEW u \in Threads
      PROVE  WorkerInv(u)'
  <2>1. CASE u = t
    <3>1. chunk'[t] = <<>> /\ worker'[t] = "panicked"
      BY <1>1 DEF WorkInv, SearchTypes
    <3>2. doing'[t] = "idle" /\ reply'[t] = <<>> /\ pc' = pc
      BY <1>1, <1>2, <1>3, NotifiedKeepsBusy
    <3>3. pc' \notin Early
      BY <1>3, <3>2 DEF Early, Quoting
    <3> QED
      BY <2>1, <3>1, <3>2, <3>3 DEF WorkerInv
  <2>2. CASE u # t
    <3>1. chunk'[u] = chunk[u] /\ worker'[u] = worker[u] /\ hop'[u] = hop[u] /\ pc' = pc
      BY <1>1, <2>2 DEF WorkInv, SearchTypes
    <3>2. asking'[u] = asking[u] /\ reply'[u] = reply[u] /\ (doing'[u] # "idle" <=> doing[u] # "idle")
      BY <1>1, <1>2, <2>2, NotifiedKeepsBusy DEF CacheTypes
    <3>3. WorkerInv(u)
      BY DEF WorkInv
    <3> QED
      BY <3>1, <3>2, <3>3, SameWorker
  <2> QED
    BY <2>1, <2>2
<1> QED
  BY <1>5, <1>6 DEF WorkInv

\* A worker that is done with a route goes on to the next one.
LEMMA NextPathKeepsWork ==
  ASSUME WorkInv, CacheTypes, NEW t \in Threads, NextPath(t), Consumed(t), doing[t] = "idle",
         reply[t] # <<>>, channel' \in Seq(Paths),
         worker' \in [Threads -> {"idle", "running", "ended", "panicked"}],
         \A u \in Threads \ {t} : worker'[u] = worker[u], worker'[t] \in {"running", "ended"},
         UNCHANGED <<searchVars, pc, cancelled>>
  PROVE  WorkInv'
<1>1. worker[t] = "running" /\ chunk[t] # <<>> /\ pc \in Quoting
  <2>1. worker[t] = "running" /\ chunk[t] # <<>>
    BY AskedKey
  <2> QED
    BY <2>1 DEF WorkInv, WorkerInv
<1>2. chunk \in [Threads -> Seq(Paths)] /\ hop \in [Threads -> Nat \ {0}]
  BY DEF WorkInv, SearchTypes
<1>3. /\ chunk' = [chunk EXCEPT ![t] = Tail(chunk[t])] /\ hop' = [hop EXCEPT ![t] = 1]
      /\ reply' = [reply EXCEPT ![t] = <<>>] /\ UNCHANGED <<asking, doing>>
  BY DEF NextPath, Consumed
<1>4. Tail(chunk[t]) \in Seq(Paths)
  BY <1>1, <1>2
<1>5. chunk' \in [Threads -> Seq(Paths)] /\ hop' \in [Threads -> Nat \ {0}]
  BY <1>2, <1>3, <1>4
<1>6. SearchTypes'
  <2>1. pc \notin Early
    BY <1>1 DEF Early, Quoting
  <2> QED
    BY <1>5, <2>1 DEF WorkInv, SearchTypes, searchVars, OneShot
<1>7. ASSUME NEW u \in Threads
      PROVE  WorkerInv(u)'
  <2>1. CASE u = t
    <3>1. chunk'[t] = Tail(chunk[t]) /\ hop'[t] = 1 /\ reply'[t] = <<>> /\ doing'[t] = "idle" /\ pc' = pc
      BY <1>2, <1>3 DEF CacheTypes
    <3>2. chunk'[t] # <<>> => Head(chunk'[t]) \in Paths
      BY <1>4, <3>1
    <3>3. chunk'[t] # <<>> => 1 <= Len(PathKeys[Head(chunk'[t])])
      BY <3>2, PathKeysType
    <3>4. pc' \notin Early /\ pc' \in Quoting
      BY <1>1, <3>1 DEF Early, Quoting
    <3> QED
      BY <2>1, <3>1, <3>3, <3>4 DEF WorkerInv
  <2>2. CASE u # t
    <3>1. chunk'[u] = chunk[u] /\ hop'[u] = hop[u] /\ worker'[u] = worker[u]
      BY <1>2, <1>3, <2>2
    <3>2. reply'[u] = reply[u] /\ asking'[u] = asking[u] /\ doing'[u] = doing[u] /\ pc' = pc
      BY <1>3, <2>2 DEF CacheTypes
    <3>3. WorkerInv(u)
      BY DEF WorkInv
    <3> QED
      BY <3>1, <3>2, <3>3, SameWorker
  <2> QED
    BY <2>1, <2>2
<1> QED
  BY <1>6, <1>7 DEF WorkInv

LEMMA HopDoneKeepsWork ==
  ASSUME WorkInv, CacheInv, NEW t \in Threads, HopDone(t)
  PROVE  WorkInv'
<1>1. /\ doing[t] = "idle" /\ reply[t] # <<>> /\ chunk[t] # <<>> /\ Consumed(t)
      /\ UNCHANGED <<searchVars, pc, channel, cancelled, worker>>
      /\ \/ NextPath(t)
         \/ /\ reply[t][2] # 0 /\ hop[t] < Len(PathKeys[Head(chunk[t])])
            /\ hop' = [hop EXCEPT ![t] = hop[t] + 1] /\ UNCHANGED chunk
  BY DEF HopDone, coordinatorIdle
<1>2. CacheTypes
  BY DEF CacheInv
<1>3. worker[t] = "running"
  BY <1>1, AskedKey
<1>4. CASE NextPath(t)
  <2>1. channel' \in Seq(Paths) /\ worker' \in [Threads -> {"idle", "running", "ended", "panicked"}]
    BY <1>1 DEF WorkInv, SearchTypes
  <2> QED
    BY <1>1, <1>2, <1>3, <1>4, <2>1, NextPathKeepsWork
<1>5. CASE /\ reply[t][2] # 0 /\ hop[t] < Len(PathKeys[Head(chunk[t])])
           /\ hop' = [hop EXCEPT ![t] = hop[t] + 1] /\ UNCHANGED chunk
  <2>1. hop \in [Threads -> Nat \ {0}] /\ WorkerInv(t)
    BY DEF WorkInv, SearchTypes
  <2>2. hop' \in [Threads -> Nat \ {0}] /\ hop'[t] = hop[t] + 1
    BY <1>5, <2>1
  <2>3. SearchTypes'
    BY <1>1, <1>5, <2>2 DEF WorkInv, SearchTypes, searchVars, OneShot
  <2>4. ASSUME NEW u \in Threads
        PROVE  WorkerInv(u)'
    <3>1. CASE u = t
      <4>1. reply[t] = <<KeyAt(t), Outcome[KeyAt(t)]>>
        BY <1>1, <2>1 DEF WorkerInv
      <4>2. Outcome[PathKeys[Head(chunk[t])][hop[t]]] # 0
        BY <1>5, <4>1 DEF KeyAt
      <4>3. Len(PathKeys[Head(chunk[t])]) \in Nat
        BY <1>1, AskedKey
      <4>4. /\ hop'[t] <= Len(PathKeys[Head(chunk[t])])
            /\ \A i \in 1 .. (hop'[t] - 1) : Outcome[PathKeys[Head(chunk[t])][i]] # 0
        <5>1. \A i \in 1 .. (hop'[t] - 1) : i = hop[t] \/ i \in 1 .. (hop[t] - 1)
          BY <2>1, <2>2
        <5>2. hop'[t] <= Len(PathKeys[Head(chunk[t])])
          BY <1>5, <2>1, <2>2, <4>3
        <5> QED
          BY <1>1, <2>1, <4>2, <5>1, <5>2 DEF WorkerInv
      <4>5. doing'[t] = "idle" /\ reply'[t] = <<>> /\ UNCHANGED <<chunk, pc, worker>>
        BY <1>1, <1>2, <1>5 DEF Consumed, CacheTypes
      <4>6. pc \in Quoting /\ pc \notin Early
        BY <1>3, <2>1 DEF WorkerInv, Early, Quoting
      <4> QED
        BY <1>1, <3>1, <4>4, <4>5, <4>6 DEF WorkerInv
    <3>2. CASE u # t
      <4>1. hop'[u] = hop[u] /\ chunk'[u] = chunk[u] /\ worker'[u] = worker[u] /\ pc' = pc
        BY <1>1, <1>5, <2>1, <3>2
      <4>2. reply'[u] = reply[u] /\ asking'[u] = asking[u] /\ doing'[u] = doing[u]
        BY <1>1, <1>2, <3>2 DEF Consumed, CacheTypes
      <4>3. WorkerInv(u)
        BY DEF WorkInv
      <4> QED
        BY <4>1, <4>2, <4>3, SameWorker
    <3> QED
      BY <3>1, <3>2
  <2> QED
    BY <2>3, <2>4 DEF WorkInv
<1> QED
  BY <1>1, <1>4, <1>5

LEMMA SendQuoteKeepsWork ==
  ASSUME WorkInv, CacheInv, NEW t \in Threads, SendQuote(t)
  PROVE  WorkInv'
<1>1. /\ doing[t] = "idle" /\ reply[t] # <<>> /\ NextPath(t) /\ Consumed(t)
      /\ UNCHANGED <<searchVars, pc, cancelled>>
      /\ \/ worker' = [worker EXCEPT ![t] = "ended"] /\ UNCHANGED channel
         \/ channel' = Append(channel, Head(chunk[t])) /\ UNCHANGED worker
         \/ UNCHANGED <<channel, worker>>
  BY DEF SendQuote, coordinatorIdle
<1>2. worker[t] = "running" /\ Head(chunk[t]) \in Paths
  BY <1>1, AskedKey
<1>3. /\ channel \in Seq(Paths) /\ worker \in [Threads -> {"idle", "running", "ended", "panicked"}]
      /\ CacheTypes
  BY DEF WorkInv, SearchTypes, CacheInv
<1>4. channel' \in Seq(Paths)
  BY <1>1, <1>2, <1>3
<1>5. /\ worker' \in [Threads -> {"idle", "running", "ended", "panicked"}]
      /\ \A u \in Threads \ {t} : worker'[u] = worker[u]
      /\ worker'[t] \in {"running", "ended"}
  BY <1>1, <1>2, <1>3
<1> QED
  BY <1>1, <1>3, <1>4, <1>5, NextPathKeepsWork

\* A worker goes on to the routes of its next request.
LEMMA NextRequestKeepsWork ==
  ASSUME WorkInv, CacheTypes, ServeTypes, NEW t \in Threads, NextRequest(t)
  PROVE  WorkInv' /\ OneShot(cfg)
<1>1. /\ worker[t] = "running" /\ chunk[t] = <<>> /\ Len(serving[t]) > 1
      /\ chunk' = [chunk EXCEPT ![t] = RoutesOf(serving[t][2])] /\ hop' = [hop EXCEPT ![t] = 1]
      /\ UNCHANGED <<searchVars, pc, channel, cancelled, worker, cacheVars>>
  BY DEF NextRequest, coordinatorIdle
<1>2. chunk \in [Threads -> Seq(Paths)] /\ hop \in [Threads -> Nat \ {0}] /\ cfg \in Settings
  BY DEF WorkInv, SearchTypes
<1>3. RoutesOf(serving[t][2]) \in Seq(Paths)
  <2>1. serving[t] \in Seq(DOMAIN cfg.requests)
    BY DEF ServeTypes
  <2>2. serving[t][2] \in DOMAIN cfg.requests
    BY <1>1, <2>1
  <2> QED
    BY <1>2, <2>2, RoutesOfType
<1>4. /\ chunk' \in [Threads -> Seq(Paths)] /\ hop' \in [Threads -> Nat \ {0}]
      /\ chunk'[t] \in Seq(Paths) /\ hop'[t] = 1
  BY <1>1, <1>2, <1>3
<1>5. WorkerInv(t) /\ pc \in Quoting /\ pc \notin Early
  <2>1. WorkerInv(t)
    BY DEF WorkInv
  <2> QED
    BY <1>1, <2>1 DEF WorkerInv, Early, Quoting
<1>6. SearchTypes'
  BY <1>1, <1>4 DEF WorkInv, SearchTypes, searchVars, OneShot
<1>7. ASSUME NEW u \in Threads
      PROVE  WorkerInv(u)'
  <2>1. CASE u = t
    <3>1. doing[t] = "idle" /\ reply[t] = <<>>
      BY <1>1, <1>5 DEF WorkerInv
    <3>2. chunk'[t] # <<>> => Head(chunk'[t]) \in Paths
      BY <1>4
    <3>3. chunk'[t] # <<>> => 1 <= Len(PathKeys[Head(chunk'[t])])
      BY <3>2, PathKeysType
    <3>4. UNCHANGED <<doing, reply, worker, pc>>
      BY <1>1 DEF cacheVars
    <3> QED
      BY <1>4, <1>5, <2>1, <3>1, <3>3, <3>4 DEF WorkerInv
  <2>2. CASE u # t
    <3>1. chunk'[u] = chunk[u] /\ hop'[u] = hop[u] /\ worker'[u] = worker[u] /\ pc' = pc
      BY <1>1, <1>2, <2>2
    <3>2. WorkerInv(u) /\ UNCHANGED <<asking, reply, doing>>
      BY <1>1 DEF WorkInv, cacheVars
    <3> QED
      BY <3>1, <3>2, SameWorker
  <2> QED
    BY <2>1, <2>2
<1>8. OneShot(cfg)
  <2>1. serving[t] # <<>>
    BY <1>1
  <2> QED
    BY <2>1 DEF ServeTypes
<1> QED
  BY <1>6, <1>7, <1>8 DEF WorkInv

LEMMA WorkerEndsKeepsWork ==
  ASSUME WorkInv, CacheInv, NEW t \in Threads, WorkerEnds(t)
  PROVE  WorkInv'
<1>1. /\ worker[t] = "running" /\ chunk[t] = <<>> /\ worker' = [worker EXCEPT ![t] = "ended"]
      /\ UNCHANGED <<searchVars, pc, chunk, hop, failures, channel, cancelled, cacheVars>>
  BY DEF WorkerEnds, coordinatorIdle
<1>2. worker \in [Threads -> {"idle", "running", "ended", "panicked"}]
  BY DEF WorkInv, SearchTypes
<1>3. SearchTypes'
  BY <1>1 DEF WorkInv, SearchTypes, searchVars, OneShot
<1>4. ASSUME NEW u \in Threads
      PROVE  WorkerInv(u)'
  <2>1. WorkerInv(u) /\ UNCHANGED <<asking, doing, reply, chunk, hop, pc>>
    BY <1>1 DEF WorkInv, cacheVars
  <2>2. CASE u = t
    <3>1. worker'[t] = "ended" /\ pc \notin Early
      BY <1>1, <1>2, <2>1, <2>2 DEF WorkerInv, Early, Quoting
    <3> QED
      BY <1>1, <2>1, <2>2, <3>1 DEF WorkerInv
  <2>3. CASE u # t
    <3>1. worker'[u] = worker[u]
      BY <1>1, <1>2, <2>3
    <3> QED
      BY <2>1, <3>1, SameWorker
  <2> QED
    BY <2>2, <2>3
<1> QED
  BY <1>3, <1>4 DEF WorkInv
------------------------------------------------------------------------------
(* The cache *)

LEMMA OutcomeType == \A k \in Keys : Outcome[k] \in Nat
BY CacheAssumption

\* A thread that begins or goes on without simulating, and the entries as they were.
LEMMA AskHopKeepsCache ==
  ASSUME WorkInv, CacheInv, NEW t \in Threads, AskHop(t)
  PROVE  CacheInv'
<1>1. /\ doing[t] = "idle" /\ asking' = [asking EXCEPT ![t] = KeyAt(t)]
      /\ doing' = [doing EXCEPT ![t] = "lookup"] /\ reply' = [reply EXCEPT ![t] = <<>>]
      /\ UNCHANGED <<entries, indexed>>
  BY DEF AskHop, Ask, KeyAt
<1>2. CacheTypes'
  BY <1>1 DEF CacheInv, CacheTypes
<1>3. \A u \in Threads, k \in Keys : Simulates(u, k)' <=> Simulates(u, k)
  BY <1>1 DEF CacheInv, CacheTypes, Simulates
<1> QED
  BY <1>1, <1>2, <1>3 DEF CacheInv, FlightInv

LEMMA ConsumedKeepsCache ==
  ASSUME CacheInv, NEW t \in Threads, Consumed(t)
  PROVE  CacheInv'
<1>1. reply' = [reply EXCEPT ![t] = <<>>] /\ UNCHANGED <<entries, indexed, asking, doing>>
  BY DEF Consumed
<1>2. CacheTypes'
  BY <1>1 DEF CacheInv, CacheTypes
<1>3. FlightInv'
  BY <1>1 DEF CacheInv, FlightInv, Simulates
<1> QED
  BY <1>2, <1>3 DEF CacheInv

LEMMA LookUpKeepsCache ==
  ASSUME WorkInv, CacheInv, NEW t \in Threads, LookUp(t)
  PROVE  CacheInv'
<1>1. doing[t] = "lookup" /\ asking[t] \in Keys
  <2>1. doing[t] = "lookup"
    BY DEF LookUp
  <2> QED
    BY <2>1, AskedKey
<1>2. CASE /\ entries[asking[t]] >= 0 /\ Returned(t, entries[asking[t]])
           /\ doing' = [doing EXCEPT ![t] = "idle"] /\ UNCHANGED <<entries, indexed>>
  <2>1. CacheTypes'
    BY <1>2 DEF CacheInv, CacheTypes, Returned
  <2>2. \A u \in Threads, k \in Keys : Simulates(u, k)' <=> Simulates(u, k)
    BY <1>1, <1>2 DEF CacheInv, CacheTypes, Simulates, Returned
  <2> QED
    BY <1>2, <2>1, <2>2 DEF CacheInv, FlightInv
<1>3. CASE doing' = [doing EXCEPT ![t] = "asleep"] /\ UNCHANGED <<entries, indexed, asking, reply>>
  <2>1. CacheTypes'
    BY <1>3 DEF CacheInv, CacheTypes
  <2>2. \A u \in Threads, k \in Keys : Simulates(u, k)' <=> Simulates(u, k)
    BY <1>1, <1>3 DEF CacheInv, CacheTypes, Simulates
  <2> QED
    BY <1>3, <2>1, <2>2 DEF CacheInv, FlightInv
<1>4. CASE /\ Misses(asking[t]) /\ entries' = [entries EXCEPT ![asking[t]] = InFlight]
           /\ indexed' = indexed \cup {asking[t]} /\ doing' = [doing EXCEPT ![t] = "simulating"]
           /\ UNCHANGED <<asking, reply>>
  <2>1. CacheTypes'
    BY <1>1, <1>4 DEF CacheInv, CacheTypes
  <2>2. \A u \in Threads, k \in Keys :
          Simulates(u, k)' <=> Simulates(u, k) \/ (u = t /\ k = asking[t])
    BY <1>1, <1>4 DEF CacheInv, CacheTypes, Simulates
  <2>3. \A u \in Threads : ~Simulates(u, asking[t])
    BY <1>1, <1>4 DEF CacheInv, FlightInv, Misses, Absent, InFlight
  <2>4. \A k \in Keys : entries'[k] = IF k = asking[t] THEN InFlight ELSE entries[k]
    BY <1>1, <1>4 DEF CacheInv, CacheTypes
  <2>5. indexed' = {k \in Keys : entries'[k] # Absent}
    BY <1>1, <1>4, <2>4 DEF CacheInv, FlightInv, Absent, InFlight
  <2>6. \A k \in Keys : entries'[k] = InFlight <=> \E u \in Threads : Simulates(u, k)'
    BY <1>1, <2>2, <2>4 DEF CacheInv, FlightInv
  <2>7. \A k \in Keys : \A u, v \in Threads : Simulates(u, k)' /\ Simulates(v, k)' => u = v
    BY <2>2, <2>3 DEF CacheInv, FlightInv
  <2>8. \A k \in Keys : entries'[k] \in {Absent, InFlight, Outcome[k]}
    BY <2>4 DEF CacheInv, FlightInv
  <2> QED
    BY <2>1, <2>5, <2>6, <2>7, <2>8 DEF CacheInv, FlightInv
<1> QED
  BY <1>2, <1>3, <1>4 DEF LookUp

\* A simulation that ends, with a result or by a panic, lands its entry.
LEMMA LandingKeepsCache ==
  ASSUME CacheInv, NEW t \in Threads, doing[t] = "simulating", NEW k \in Keys, asking[t] = k,
         NEW landed \in {Absent, Outcome[k]}, entries' = [entries EXCEPT ![k] = landed],
         indexed' = IF landed = Absent THEN indexed \ {k} ELSE indexed,
         doing' = Notified([doing EXCEPT ![t] = "idle"]),
         DOMAIN reply' = Threads, reply' = [u \in Threads |-> reply'[u]],
         asking' = [asking EXCEPT ![t] = Absent]
  PROVE  CacheInv'
<1>1. CacheTypes /\ Outcome[k] \in Nat
  BY OutcomeType DEF CacheInv
<1>2. /\ doing' \in [Threads -> {"idle", "lookup", "asleep", "simulating"}] /\ doing'[t] = "idle"
      /\ \A u \in Threads \ {t} : doing'[u] = "simulating" <=> doing[u] = "simulating"
  BY <1>1, NotifiedKeepsBusy, ZenonT(30)
<1>3. CacheTypes'
  <2>1. entries' \in [Keys -> {Absent, InFlight} \cup Nat] /\ indexed' \subseteq Keys
    BY <1>1 DEF CacheTypes
  <2>2. /\ DOMAIN asking' = Threads /\ asking' = [u \in Threads |-> asking'[u]]
        /\ DOMAIN reply' = Threads /\ reply' = [u \in Threads |-> reply'[u]]
    BY <1>1 DEF CacheTypes
  <2> QED
    BY <1>2, <2>1, <2>2 DEF CacheTypes
<1>4. \A u \in Threads, l \in Keys : Simulates(u, l)' <=> Simulates(u, l) /\ u # t
  BY <1>1, <1>2 DEF Simulates, CacheTypes
<1>5. Simulates(t, k) /\ (\A l \in Keys : Simulates(t, l) => l = k) /\ entries[k] = InFlight
  BY DEF Simulates, CacheInv, FlightInv
<1>6. \A l \in Keys : entries'[l] = IF l = k THEN landed ELSE entries[l]
  BY <1>1 DEF CacheTypes
<1>7. landed # InFlight /\ (landed = Absent <=> landed \notin Nat)
  BY <1>1 DEF Absent, InFlight
<1>8. indexed' = {l \in Keys : entries'[l] # Absent}
  <2>1. indexed = {l \in Keys : entries[l] # Absent} /\ k \in indexed
    BY <1>5 DEF CacheInv, FlightInv, Absent, InFlight
  <2> QED
    BY <1>6, <2>1
<1>9. \A l \in Keys : entries'[l] = InFlight <=> \E u \in Threads : Simulates(u, l)'
  <2> SUFFICES ASSUME NEW l \in Keys
               PROVE  entries'[l] = InFlight <=> \E u \in Threads : Simulates(u, l) /\ u # t
    BY <1>4
  <2>1. CASE l = k
    BY <1>5, <1>6, <1>7, <2>1 DEF CacheInv, FlightInv
  <2>2. CASE l # k
    BY <1>5, <1>6, <2>2 DEF CacheInv, FlightInv
  <2> QED
    BY <2>1, <2>2
<1>10. \A l \in Keys : \A u, v \in Threads : Simulates(u, l)' /\ Simulates(v, l)' => u = v
  BY <1>4 DEF CacheInv, FlightInv
<1>11. \A l \in Keys : entries'[l] \in {Absent, InFlight, Outcome[l]}
  BY <1>6 DEF CacheInv, FlightInv
<1> QED
  BY <1>3, <1>8, <1>9, <1>10, <1>11 DEF CacheInv, FlightInv

LEMMA SimulatedKeepsCache ==
  ASSUME WorkInv, CacheInv, NEW t \in Threads, Simulated(t)
  PROVE  CacheInv' /\ entries' = [entries EXCEPT ![asking[t]] = Outcome[asking[t]]]
<1>1. doing[t] = "simulating"
  BY DEF Simulated
<1>2. asking[t] \in Keys
  BY <1>1, AskedKey
<1>3. entries[asking[t]] = InFlight
  BY <1>1, <1>2 DEF CacheInv, FlightInv, Simulates
<1>4. /\ entries' = [entries EXCEPT ![asking[t]] = Outcome[asking[t]]] /\ indexed' = indexed
      /\ doing' = Notified([doing EXCEPT ![t] = "idle"]) /\ asking' = [asking EXCEPT ![t] = Absent]
      /\ reply' = [reply EXCEPT ![t] = <<asking[t], Outcome[asking[t]]>>]
  BY <1>2, <1>3 DEF Simulated, Returned
<1>5. PICK k \in Keys : k = asking[t]
  BY <1>2
<1>6. PICK o \in {Absent, Outcome[k]} : o = Outcome[k]
  OBVIOUS
<1>7. o # Absent
  BY <1>6, OutcomeType DEF Absent
<1>8. CacheInv'
  <2>1. entries' = [entries EXCEPT ![k] = o] /\ reply' = [reply EXCEPT ![t] = <<k, o>>]
    BY <1>4, <1>5, <1>6
  <2>2. DOMAIN reply' = Threads /\ reply' = [u \in Threads |-> reply'[u]]
    BY <2>1 DEF CacheInv, CacheTypes
  <2>3. indexed' = IF o = Absent THEN indexed \ {k} ELSE indexed
    BY <1>4, <1>7
  <2> QED
    BY <1>1, <1>4, <1>5, <2>1, <2>2, <2>3, LandingKeepsCache
<1> QED
  BY <1>4, <1>8

LEMMA PanickedKeepsCache ==
  ASSUME WorkInv, CacheInv, NEW t \in Threads, Panicked(t)
  PROVE  CacheInv' /\ asking[t] \in Keys
<1>1. /\ doing[t] = "simulating" /\ entries' = [entries EXCEPT ![asking[t]] = Absent]
      /\ indexed' = indexed \ {asking[t]} /\ reply' = reply
      /\ doing' = Notified([doing EXCEPT ![t] = "idle"]) /\ asking' = [asking EXCEPT ![t] = Absent]
  BY DEF Panicked
<1>2. asking[t] \in Keys
  BY <1>1, AskedKey
<1>3. DOMAIN reply' = Threads /\ reply' = [u \in Threads |-> reply'[u]]
  BY <1>1 DEF CacheInv, CacheTypes
<1> QED
  BY <1>1, <1>2, <1>3, LandingKeepsCache

LEMMA QuotedKeepsCache ==
  ASSUME CacheInv, NEW S \in SUBSET Keys, Quoted(S)
  PROVE  CacheInv'
<1>1. /\ entries' = [k \in Keys |-> IF k \in S /\ entries[k] = Absent THEN Outcome[k] ELSE entries[k]]
      /\ indexed' = indexed \cup S /\ UNCHANGED <<asking, doing, reply>>
  BY DEF Quoted
<1>2. CacheTypes'
  BY <1>1, OutcomeType DEF CacheInv, CacheTypes
<1>3. \A k \in Keys : Outcome[k] # Absent /\ Outcome[k] # InFlight
  BY OutcomeType DEF Absent, InFlight
<1>4. \A u \in Threads, k \in Keys : Simulates(u, k)' <=> Simulates(u, k)
  BY <1>1 DEF Simulates
<1>5. \A k \in Keys : entries'[k] = InFlight <=> entries[k] = InFlight
  BY <1>1, <1>3 DEF Absent, InFlight
<1>6. indexed' = {k \in Keys : entries'[k] # Absent}
  BY <1>1, <1>3 DEF CacheInv, FlightInv
<1>7. \A k \in Keys : entries'[k] \in {Absent, InFlight, Outcome[k]}
  BY <1>1 DEF CacheInv, FlightInv
<1> QED
  BY <1>2, <1>4, <1>5, <1>6, <1>7 DEF CacheInv, FlightInv

LEMMA SameCacheKeepsCache ==
  ASSUME CacheInv, UNCHANGED cacheVars
  PROVE  CacheInv'
BY DEF CacheInv, CacheTypes, FlightInv, Simulates, cacheVars
------------------------------------------------------------------------------
(* What the coordinating thread tells the caller *)

EventNames == {"progress", "ready", "best", "found"}

LEMMA ToSetOfConcat ==
  ASSUME NEW T, NEW a \in Seq(T), NEW b \in Seq(T)
  PROVE  a \o b \in Seq(T) /\ ToSet(a \o b) = ToSet(a) \cup ToSet(b)
<1>1. /\ Len(a) \in Nat /\ Len(b) \in Nat /\ Len(a \o b) = Len(a) + Len(b) /\ a \o b \in Seq(T)
      /\ DOMAIN a = 1 .. Len(a) /\ DOMAIN b = 1 .. Len(b) /\ DOMAIN (a \o b) = 1 .. Len(a \o b)
  OBVIOUS
<1>2. \A i \in DOMAIN a : i \in DOMAIN (a \o b) /\ (a \o b)[i] = a[i]
  BY <1>1
<1>3. \A i \in DOMAIN b : i + Len(a) \in DOMAIN (a \o b) /\ (a \o b)[i + Len(a)] = b[i]
  BY <1>1
<1>4. \A i \in DOMAIN (a \o b) : \/ i \in DOMAIN a /\ (a \o b)[i] = a[i]
                                 \/ i - Len(a) \in DOMAIN b /\ (a \o b)[i] = b[i - Len(a)]
  BY <1>1
<1> HIDE DEF ToSet
<1>5. \A x \in ToSet(a \o b) : x \in ToSet(a) \/ x \in ToSet(b)
  BY <1>4 DEF ToSet
<1>6. \A x \in ToSet(a) : x \in ToSet(a \o b)
  BY <1>2 DEF ToSet
<1>7. \A x \in ToSet(b) : x \in ToSet(a \o b)
  BY <1>3 DEF ToSet
<1> QED
  BY <1>1, <1>5, <1>6, <1>7

\* The events of a step: the gate opens with "ready", and an open gate lets the others pass
\* unless the stop policy is satisfied.
LEMMA EventsOf ==
  ASSUME NEW s, NEW more \in Seq(EventNames)
  PROVE  /\ Events(s, more) \in Seq(EventNames)
         /\ (s.released \in BOOLEAN /\ s.released /\ ~(s.best # 0 /\ IsSatisfied(cfg.stop, s))) =>
              ToSet(more) \subseteq ToSet(Events(s, more))
<1> DEFINE a == IF ~s.released /\ s.best # 0 /\ IsSatisfied(cfg.gate, s) THEN <<"ready">> ELSE <<>>
           b == IF ~s.released \/ (s.best # 0 /\ IsSatisfied(cfg.stop, s)) THEN <<>> ELSE more
<1>1. Events(s, more) = <<"progress">> \o a \o b
  BY DEF Events
<1>2. <<"progress">> \in Seq(EventNames) /\ a \in Seq(EventNames) /\ b \in Seq(EventNames)
  <2>1. <<"progress">> \in Seq(EventNames) /\ <<"ready">> \in Seq(EventNames)
    BY DEF EventNames
  <2>2. <<>> \in Seq(EventNames)
    OBVIOUS
  <2>3. a \in Seq(EventNames)
    BY <2>1, <2>2, Zenon
  <2>4. b \in Seq(EventNames)
    BY <2>2, Zenon
  <2> QED
    BY <2>1, <2>3, <2>4
<1>3. (s.released \in BOOLEAN /\ s.released /\ ~(s.best # 0 /\ IsSatisfied(cfg.stop, s))) => b = more
  OBVIOUS
<1> HIDE DEF a, b
<1>4. <<"progress">> \o a \in Seq(EventNames)
  BY <1>2
<1>5. /\ (<<"progress">> \o a) \o b \in Seq(EventNames)
      /\ ToSet((<<"progress">> \o a) \o b) = ToSet(<<"progress">> \o a) \cup ToSet(b)
  BY <1>2, <1>4, ToSetOfConcat, ZenonT(30)
<1> QED
  BY <1>1, <1>3, <1>5

\* Where the coordinating thread goes on, or was refused.
Unstopped == {"heuristic phase", "enumerate", "refused"}

\* What announcing a state s leaves.
Announced(s, more) ==
  /\ StateShape(st') /\ \A f \in StateFields \ {"released", "finality"} : st'[f] = s[f]
  /\ told' \in {told, s.best} /\ refused' \in BOOLEAN
  /\ (refused => refused') /\ (st'.finality = "stopped" => refused' \/ s.finality = "stopped")
  /\ (~refused' /\ st'.released /\ st'.finality # "policy") =>
       /\ ~refused /\ s.finality # "policy"
       /\ told' = s.best \/ (s.released /\ told' = told /\ "best" \notin ToSet(more))

LEMMA AnnounceKeeps ==
  ASSUME NEW s, StateShape(s), NEW more \in Seq(EventNames), NEW n \in Stops, Announce(s, more, n),
         refused \in BOOLEAN
  PROVE  Announced(s, more)
<1> DEFINE evs == Events(s, more)
           emitted == IF n = 0 THEN evs ELSE SubSeq(evs, 1, n)
           halt == n = 0 /\ s.best # 0 /\ IsSatisfied(cfg.stop, s)
           open == s.released \/ "ready" \in ToSet(emitted)
           final == IF n # 0 THEN "stopped" ELSE IF halt THEN "policy" ELSE s.finality
<1>1. /\ st' = [s EXCEPT !.released = open, !.finality = final]
      /\ told' = (IF ToSet(emitted) \cap {"ready", "best"} # {} THEN s.best ELSE told)
      /\ refused' = (refused \/ n # 0)
  BY DEF Announce
<1>2. open \in BOOLEAN /\ final \in {"none", "stopped", "policy"}
  BY DEF StateShape
<1>3. (s.released /\ n = 0 /\ ~halt) => ToSet(more) \subseteq ToSet(emitted)
  BY EventsOf DEF StateShape
<1>4. n \in Nat /\ refused' \in BOOLEAN /\ told' \in {told, s.best}
  BY <1>1 DEF Stops
<1>5. ASSUME ~refused', open, final # "policy"
      PROVE  /\ ~refused /\ s.finality # "policy"
             /\ told' = s.best \/ (s.released /\ told' = told /\ "best" \notin ToSet(more))
  <2>1. ~refused /\ n = 0 /\ ~halt /\ s.finality # "policy"
    BY <1>1, <1>5
  <2>2. CASE s.released
    BY <1>1, <1>3, <2>1, <2>2
  <2>3. CASE ~s.released
    BY <1>1, <1>5, <2>3
  <2> QED
    BY <2>2, <2>3
<1>8. (refused => refused') /\ (final = "stopped" => refused' \/ s.finality = "stopped")
  BY <1>1
<1> HIDE DEF open, final
<1>6. /\ DOMAIN st' = StateFields /\ st' = [f \in StateFields |-> st'[f]]
      /\ st'.released = open /\ st'.finality = final
      /\ \A f \in StateFields \ {"released", "finality"} : st'[f] = s[f]
  BY <1>1 DEF StateShape, StateFields
<1>7. StateShape(st')
  BY <1>2, <1>6 DEF StateShape, StateFields
<1> QED
  BY <1>4, <1>5, <1>6, <1>7, <1>8 DEF Announced

LEMMA AnnouncedFinality ==
  ASSUME FinalityInv, NEW s, NEW more, Announced(s, more), s.finality = st.finality,
         pc' \in Unstopped => st'.finality = "none"
  PROVE  FinalityInv'
<1>1. st'.finality = "stopped" => refused'
  <2>1. (refused => refused') /\ (st'.finality = "stopped" => refused' \/ s.finality = "stopped")
    BY Zenon DEF Announced
  <2>2. s.finality = "stopped" => refused
    BY DEF FinalityInv
  <2> QED
    BY <2>1, <2>2, Zenon
<1> QED
  BY <1>1 DEF FinalityInv, Unstopped

LEMMA AmountType == \A p \in Paths : AmountOf(p) \in Nat
<1> SUFFICES ASSUME NEW p \in Paths
             PROVE  AmountOf(p) \in Nat
  OBVIOUS
<1>1. PathKeys[p] \in Seq(Keys) /\ Len(PathKeys[p]) \in Nat \ {0}
  BY PathKeysType
<1>2. PathKeys[p][Len(PathKeys[p])] \in Keys
  BY <1>1
<1> QED
  BY <1>2, OutcomeType DEF AmountOf

\* A step that announces what the phase did, without a new quote.
LEMMA AnnounceKeepsReport ==
  ASSUME ReportInv, NEW s, StateShape(s), s.best = st.best, s.observed = st.observed,
         s.released = st.released, s.finality = st.finality, pc' \in Early => s.failed \in Nat,
         NEW n \in Stops, Announce(s, <<>>, n), UNCHANGED <<cfg, quoted, outcome>>,
         pc # "returned", pc' # "returned", pc' \in Unstopped => ~Halted
  PROVE  ReportInv'
<1>1. <<>> \in Seq(EventNames) /\ ToSet(<<>>) = {}
  BY DEF ToSet
<1>2. refused \in BOOLEAN /\ outcome = "none" /\ (st.best = 0 => told = 0) /\ CallerKnowsBest
  BY DEF ReportInv, CallerInv, StateInv
<1>3. Announced(s, <<>>)
  BY <1>1, <1>2, AnnounceKeeps
<1>4. /\ StateShape(st') /\ st'.best = st.best /\ st'.observed = st.observed /\ st'.failed = s.failed
      /\ refused' \in BOOLEAN /\ told' \in {told, st.best}
  BY <1>3 DEF Announced, StateFields
<1>5. CallerInv'
  <2>1. ASSUME ~refused', st'.released, st'.finality # "policy"
        PROVE  told' = st.best
    <3>1. /\ ~refused /\ st.finality # "policy"
          /\ told' = st.best \/ (st.released /\ told' = told)
      BY <1>3, <2>1 DEF Announced
    <3> QED
      BY <1>2, <3>1 DEF CallerKnowsBest
  <2> QED
    BY <1>2, <1>4, <2>1 DEF CallerInv, CallerKnowsBest
<1>6. StateInv'
  BY <1>2, <1>4 DEF StateInv, SearchFinality
<1>7. BestInv' /\ EachRouteOnce'
  BY <1>4 DEF ReportInv, BestInv, EachRouteOnce, OneShot
<1>8. FinalityInv'
  BY <1>3, AnnouncedFinality DEF ReportInv, Halted
<1> QED
  BY <1>5, <1>6, <1>7, <1>8 DEF ReportInv

\* A quote is observed: a route that was not quoted before.
LEMMA ObserveQuoteKeepsReport ==
  ASSUME SearchTypes, ReportInv, NEW p \in Paths, p \notin quoted, AmountOf(p) # 0, ~OneShot(cfg),
         NEW n \in Stops, ObserveQuote(p, n), quoted' = quoted \cup {p}, UNCHANGED <<cfg, outcome>>,
         pc # "returned", pc' # "returned", pc' \notin Unstopped, pc' \in Early => pc \in Early
  PROVE  ReportInv'
<1> DEFINE better == AmountOf(p) > st.best
           more == (IF better THEN <<"best">> ELSE <<>>)
                   \o (IF Ranked(st, p) <= cfg.top_k THEN <<"found">> ELSE <<>>)
           s == [st EXCEPT !.observed = st.observed + 1, !.top = RecordTopRoute(st, p),
                           !.best = IF better THEN AmountOf(p) ELSE st.best]
<1>1. Announce(s, more, n)
  BY DEF ObserveQuote
<1>2. /\ refused \in BOOLEAN /\ outcome = "none" /\ (st.best = 0 => told = 0) /\ CallerKnowsBest
      /\ StateShape(st) /\ st.best \in Nat /\ st.observed \in Nat /\ (pc \in Early => st.failed \in Nat)
  BY DEF ReportInv, CallerInv, StateInv, StateShape
<1>3. more \in Seq(EventNames) /\ (better => "best" \in ToSet(more))
  <2> DEFINE a == IF better THEN <<"best">> ELSE <<>>
             b == IF Ranked(st, p) <= cfg.top_k THEN <<"found">> ELSE <<>>
  <2>1. <<"best">> \in Seq(EventNames) /\ <<"found">> \in Seq(EventNames) /\ ToSet(<<"best">>) = {"best"}
    BY DEF EventNames, ToSet
  <2>2. <<>> \in Seq(EventNames)
    OBVIOUS
  <2>3. a \in Seq(EventNames) /\ b \in Seq(EventNames)
    BY <2>1, <2>2, Zenon
  <2>4. better => "best" \in ToSet(a)
    BY <2>1
  <2> HIDE DEF a, b, better
  <2>5. ToSet(a \o b) = ToSet(a) \cup ToSet(b) /\ a \o b \in Seq(EventNames)
    BY <2>3, ToSetOfConcat
  <2> QED
    BY <2>4, <2>5 DEF a, b
<1> HIDE DEF more
<1>4. AmountOf(p) \in Nat
  BY AmountType
<1>5. /\ s.best = (IF better THEN AmountOf(p) ELSE st.best) /\ s.observed = st.observed + 1
      /\ s.released = st.released /\ s.finality = st.finality /\ s.failed = st.failed
      /\ DOMAIN s = StateFields /\ s = [f \in StateFields |-> s[f]]
  BY <1>2 DEF StateShape, StateFields
<1> HIDE DEF s
<1>6. StateShape(s)
  BY <1>2, <1>4, <1>5 DEF StateShape
<1>7. Announced(s, more)
  BY <1>1, <1>2, <1>3, <1>6, AnnounceKeeps
<1>8. /\ StateShape(st') /\ st'.best = s.best /\ st'.observed = st.observed + 1
      /\ st'.failed = st.failed /\ refused' \in BOOLEAN /\ told' \in {told, s.best}
  BY <1>5, <1>7 DEF Announced, StateFields
<1>9. s.best \in Nat /\ s.best >= st.best /\ s.best >= AmountOf(p) /\ s.best # 0
  BY <1>2, <1>4, <1>5
<1>10. CallerInv'
  <2>1. ASSUME ~refused', st'.released, st'.finality # "policy"
        PROVE  told' = s.best
    <3>1. /\ ~refused /\ st.finality # "policy"
          /\ told' = s.best \/ (st.released /\ told' = told /\ "best" \notin ToSet(more))
      BY <1>5, <1>7, <2>1 DEF Announced
    <3> QED
      BY <1>2, <1>3, <1>5, <3>1 DEF CallerKnowsBest
  <2> QED
    BY <1>8, <1>9, <2>1 DEF CallerInv, CallerKnowsBest
<1>11. StateInv'
  BY <1>2, <1>8 DEF StateInv, SearchFinality
<1>12. BestInv'
  <2>1. /\ \A q \in quoted : AmountOf(q) # 0 /\ AmountOf(q) <= st.best
        /\ st.best # 0 => \E q \in quoted : AmountOf(q) = st.best
    BY DEF ReportInv, BestInv
  <2>2. \A q \in quoted : AmountOf(q) \in Nat
    BY AmountType DEF SearchTypes
  <2>3. \A q \in quoted' : AmountOf(q) # 0 /\ AmountOf(q) <= s.best
    BY <1>2, <1>4, <1>9, <2>1, <2>2
  <2>4. \E q \in quoted' : AmountOf(q) = s.best
    <3>1. CASE better
      BY <1>5, <3>1
    <3>2. CASE ~better
      <4>1. st.best # 0 /\ s.best = st.best
        BY <1>2, <1>4, <1>5, <3>2
      <4> QED
        BY <2>1, <4>1
    <3> QED
      BY <3>1, <3>2
  <2> QED
    BY <1>8, <2>3, <2>4 DEF BestInv, OneShot
<1>13. EachRouteOnce'
  <2>1. IsFiniteSet(quoted)
    BY PathsFinite, FS_Subset DEF SearchTypes
  <2>2. Cardinality(quoted \cup {p}) = Cardinality(quoted) + 1
    BY <2>1, FS_AddElement
  <2> QED
    BY <1>8, <2>2 DEF ReportInv, EachRouteOnce
<1>14. FinalityInv'
  BY <1>5, <1>7, AnnouncedFinality DEF ReportInv
<1> QED
  BY <1>10, <1>11, <1>12, <1>13, <1>14 DEF ReportInv

\* finish_stream_report opens a gate that never opened, and a report carries the best: Completed
\* is emitted after a stop policy's verdict, which held back the events that came with it.
LEMMA FinishReportKeepsReport ==
  ASSUME ReportInv, NEW finality \in SearchFinality, NEW completed \in BOOLEAN, NEW n \in Stops,
         FinishReport(finality, completed, n), pc # "returned",
         completed \/ refused \/ st.finality # "policy"
  PROVE  ReportInv' /\ outcome' \in {"stopped", finality} /\ st'.best = st.best
<1> DEFINE opens == ~st.released /\ st.best # 0
<1>1. /\ n \in {0, 1} /\ pc' = "returned" /\ outcome' = (IF n = 1 THEN "stopped" ELSE finality)
      /\ st' = [st EXCEPT !.released = st.released \/ opens]
      /\ told' = (IF opens \/ completed THEN st.best ELSE told) /\ refused' = (refused \/ n = 1)
      /\ UNCHANGED <<cfg, quoted>>
  BY DEF FinishReport
<1>2. /\ refused \in BOOLEAN /\ outcome = "none" /\ (st.best = 0 => told = 0) /\ CallerKnowsBest
      /\ StateShape(st)
  BY DEF ReportInv, CallerInv, StateInv
<1>3. /\ StateShape(st') /\ st'.best = st.best /\ st'.observed = st.observed
      /\ st'.finality = st.finality
  BY <1>1, <1>2 DEF StateShape, StateFields
<1>4. CallerInv'
  <2>1. refused' \in BOOLEAN /\ told' \in {told, st.best}
    BY <1>1, <1>2
  <2>2. ASSUME ~refused'
        PROVE  told' = st.best
    <3>1. ~refused
      BY <1>1, <1>2, <2>2
    <3>2. CASE opens \/ completed
      BY <1>1, <3>2
    <3>3. CASE ~(opens \/ completed)
      <4>1. told' = told /\ st.finality # "policy"
        BY <1>1, <3>1, <3>3
      <4>2. CASE st.best = 0
        BY <1>2, <4>1, <4>2
      <4>3. CASE st.best # 0
        <5>1. st.released
          BY <3>3, <4>3
        <5> QED
          BY <1>2, <3>1, <4>1, <5>1 DEF CallerKnowsBest
      <4> QED
        BY <4>2, <4>3
    <3> QED
      BY <3>2, <3>3
  <2> QED
    BY <1>2, <1>3, <2>1, <2>2 DEF CallerInv, CallerKnowsBest
<1>5. StateInv'
  BY <1>1, <1>3 DEF StateInv, SearchFinality, Early
<1>6. BestInv' /\ EachRouteOnce'
  BY <1>1, <1>3 DEF ReportInv, BestInv, EachRouteOnce, OneShot
<1>7. FinalityInv'
  BY <1>1, <1>2, <1>3 DEF ReportInv, FinalityInv
<1> QED
  BY <1>1, <1>3, <1>4, <1>5, <1>6, <1>7 DEF ReportInv

LEMMA FailKeepsReport ==
  ASSUME ReportInv, Fail
  PROVE  ReportInv'
<1>1. FinalityInv'
  BY DEF ReportInv, FinalityInv, Fail
<1> QED
  BY <1>1 DEF ReportInv, StateInv, BestInv, CallerInv, CallerKnowsBest, EachRouteOnce, Fail, OneShot, Early

\* A step that tells the caller nothing.
LEMMA SilentKeepsReport ==
  ASSUME ReportInv, UNCHANGED <<cfg, st, quoted, told, refused, outcome>>,
         pc' = pc \/ (pc # "returned" /\ pc' # "returned"), pc' \in Early => pc \in Early,
         pc' = pc \/ pc' \notin Unstopped \/ pc \in {"heuristic phase", "enumerate"}
  PROVE  ReportInv'
<1>1. FinalityInv'
  BY DEF ReportInv, FinalityInv, Unstopped
<1> QED
  BY <1>1 DEF ReportInv, StateInv, BestInv, CallerInv, CallerKnowsBest, EachRouteOnce, OneShot

LEMMA RefusedKeepsReport ==
  ASSUME ReportInv, refused' = TRUE, UNCHANGED <<cfg, st, quoted, told>>, pc # "returned",
         \/ pc' = "refused" /\ outcome' = outcome
         \/ pc' = "returned" /\ outcome' = "stopped"
  PROVE  ReportInv'
<1>1. FinalityInv'
  BY DEF ReportInv, FinalityInv
<1> QED
  BY <1>1 DEF ReportInv, StateInv, BestInv, CallerInv, CallerKnowsBest, EachRouteOnce, OneShot,
              SearchFinality, Early

LEMMA ObserveFailedKeepsReport ==
  ASSUME ReportInv, NEW f, NEW n \in Stops, ObserveFailed(f, n), pc' \in Early => pc \in Early /\ f \in Nat,
         UNCHANGED <<cfg, quoted, outcome>>, pc # "returned", pc' # "returned", pc' \notin Unstopped
  PROVE  ReportInv'
<1>1. CASE f = 0
  <2>1. UNCHANGED <<st, told, refused>>
    BY <1>1 DEF ObserveFailed
  <2> QED
    BY <2>1, SilentKeepsReport
<1>2. CASE f # 0
  <2> DEFINE s == [st EXCEPT !.failed = st.failed + f]
  <2>1. Announce(s, <<>>, n)
    BY <1>2 DEF ObserveFailed
  <2>2. StateShape(st) /\ (pc \in Early => st.failed \in Nat)
    BY DEF ReportInv, StateInv
  <2>3. /\ StateShape(s) /\ s.best = st.best /\ s.observed = st.observed
        /\ s.released = st.released /\ s.finality = st.finality /\ s.failed = st.failed + f
    BY <2>2 DEF StateShape, StateFields
  <2> HIDE DEF s
  <2> QED
    BY <2>1, <2>2, <2>3, AnnounceKeepsReport
<1> QED
  BY <1>1, <1>2

LEMMA HeuristicOverKeepsReport ==
  ASSUME ReportInv, NEW n \in Stops, NEW f \in 0 .. MaxFailed, NEW c \in BOOLEAN, HeuristicOver(f, c, n)
  PROVE  ReportInv'
<1>1. /\ pc \in Early /\ pc # "returned" /\ pc' # "returned" /\ UNCHANGED <<cfg, quoted, outcome>>
      /\ UNCHANGED <<st, told, refused>> \/ ObserveFailed(f, n)
      /\ pc' \notin Unstopped
  BY DEF HeuristicOver, Early, Unstopped
<1>2. f \in Nat
  BY StreamingAssumption
<1> QED
  BY <1>1, <1>2, SilentKeepsReport, ObserveFailedKeepsReport

LEMMA FinishHeuristicKeepsReport ==
  ASSUME ReportInv, NEW n \in Stops, FinishHeuristic(n)
  PROVE  ReportInv'
<1> DEFINE s == [st EXCEPT !.heuristic = st.best, !.completed = TRUE]
<1>1. /\ Announce(s, <<>>, n) /\ pc = "heuristic done" /\ pc' # "returned"
      /\ UNCHANGED <<cfg, quoted, outcome>> /\ (pc' \in Unstopped => ~Halted)
  BY DEF FinishHeuristic, Unstopped
<1>2. StateShape(st) /\ st.failed \in Nat
  BY <1>1 DEF ReportInv, StateInv, Early
<1>3. /\ StateShape(s) /\ s.best = st.best /\ s.observed = st.observed
      /\ s.released = st.released /\ s.finality = st.finality /\ s.failed = st.failed
  BY <1>2 DEF StateShape, StateFields
<1> HIDE DEF s
<1> QED
  BY <1>1, <1>2, <1>3, AnnounceKeepsReport

LEMMA QuietKeepsReport ==
  ASSUME SearchTypes, ReportInv, NEW n \in Stops, QuietAction(n)
  PROVE  ReportInv'
<1>1. CASE Start
  <2>1. /\ pc = "start" /\ UNCHANGED <<cfg, st, quoted, told>>
        /\ \/ pc' = "heuristic" /\ UNCHANGED <<refused, outcome>>
           \/ pc' = "returned" /\ refused' = TRUE /\ outcome' = "stopped"
    BY <1>1 DEF Start
  <2>2. pc \in Early
    BY <2>1 DEF Early
  <2> QED
    BY <2>1, <2>2, SilentKeepsReport, RefusedKeepsReport DEF Unstopped
<1>2. CASE Cancel
  <2>1. UNCHANGED <<cfg, st, quoted, told, refused, outcome, pc>>
    BY <1>2 DEF Cancel
  <2> QED
    BY <2>1, SilentKeepsReport
<1>3. CASE FinishHeuristic(n)
  BY <1>3, FinishHeuristicKeepsReport
<1>4. CASE Stopping(n)
  <2> DEFINE finality == IF st.finality = "none" THEN "stopped" ELSE st.finality
             completed == st.finality = "policy"
  <2>1. FinishReport(finality, completed, n) /\ pc # "returned"
    BY <1>4 DEF Stopping, StopReport
  <2>2. finality \in SearchFinality /\ completed \in BOOLEAN /\ (completed \/ st.finality # "policy")
    BY DEF ReportInv, StateInv, StateShape, SearchFinality
  <2> HIDE DEF finality, completed
  <2> QED
    BY <2>1, <2>2, FinishReportKeepsReport
<1>5. CASE Refused(n)
  <2>1. /\ FinishReport("stopped", FALSE, n) /\ pc # "returned" /\ "stopped" \in SearchFinality
        /\ refused \/ st.finality # "policy"
    BY <1>5 DEF Refused, SearchFinality, ReportInv, FinalityInv
  <2> QED
    BY <2>1, FinishReportKeepsReport
<1>6. CASE Join(n)
  <2>1. CASE Fail
    BY <2>1, FailKeepsReport
  <2>2. CASE ~Fail
    <3>1. /\ pc = "workers" /\ pc' \in {"stopping", "exhaustive phase"} /\ UNCHANGED <<cfg, quoted, outcome>>
          /\ UNCHANGED <<st, told, refused>> \/ \E f : ObserveFailed(f, n)
      BY <1>6, <2>2 DEF Join
    <3>2. pc' \notin Early /\ pc # "returned" /\ pc' # "returned" /\ pc' \notin Unstopped
      BY <3>1 DEF Early, Unstopped
    <3>3. CASE UNCHANGED <<st, told, refused>>
      BY <3>1, <3>2, <3>3, SilentKeepsReport
    <3>4. CASE \E f : ObserveFailed(f, n)
      <4>1. PICK f : ObserveFailed(f, n)
        BY <3>4
      <4> QED
        BY <3>1, <3>2, <4>1, ObserveFailedKeepsReport
    <3> QED
      BY <3>1, <3>3, <3>4
  <2> QED
    BY <2>1, <2>2
<1>7. ASSUME NEW f \in 0 .. MaxFailed, NEW c \in BOOLEAN, HeuristicOver(f, c, n)
      PROVE  ReportInv'
  BY <1>7, HeuristicOverKeepsReport
<1>8. ASSUME NEW s \in BOOLEAN, HeuristicPhase(s, n)
      PROVE  ReportInv'
  <2>1. pc = "heuristic phase" /\ pc # "returned" /\ pc \in Early
    BY <1>8 DEF HeuristicPhase, Early
  <2> DEFINE finality == IF cfg.completion = "fast lane" THEN "fast lane only" ELSE "heuristic only"
  <2>2. \/ /\ pc' = "refused" /\ refused' = TRUE /\ UNCHANGED <<cfg, st, quoted, told, outcome>>
        \/ pc' = "enumerate" /\ UNCHANGED searchVars
        \/ Fail
        \/ FinishReport(finality, TRUE, n)
    BY <1>8 DEF HeuristicPhase
  <2>3. finality \in SearchFinality
    BY DEF SearchFinality
  <2> HIDE DEF finality
  <2>4. CASE pc' = "refused" /\ refused' = TRUE /\ UNCHANGED <<cfg, st, quoted, told, outcome>>
    BY <2>1, <2>4, RefusedKeepsReport
  <2>5. CASE pc' = "enumerate" /\ UNCHANGED searchVars
    BY <2>1, <2>5, SilentKeepsReport DEF searchVars
  <2>6. CASE Fail
    BY <2>6, FailKeepsReport
  <2>7. CASE FinishReport(finality, TRUE, n)
    BY <2>1, <2>3, <2>7, FinishReportKeepsReport
  <2> QED
    BY <2>2, <2>4, <2>5, <2>6, <2>7
<1>9. ASSUME NEW s \in BOOLEAN, ExhaustivePhase(s, n)
      PROVE  ReportInv'
  <2>1. pc = "exhaustive phase" /\ pc # "returned"
    BY <1>9 DEF ExhaustivePhase
  <2>2. \/ /\ pc' = "refused" /\ refused' = TRUE /\ UNCHANGED <<cfg, st, quoted, told, outcome>>
        \/ Fail
        \/ FinishReport("exhaustive", TRUE, n)
    BY <1>9 DEF ExhaustivePhase
  <2>3. "exhaustive" \in SearchFinality
    BY DEF SearchFinality
  <2>4. CASE pc' = "refused" /\ refused' = TRUE /\ UNCHANGED <<cfg, st, quoted, told, outcome>>
    BY <2>1, <2>4, RefusedKeepsReport DEF Early
  <2>5. CASE Fail
    BY <2>5, FailKeepsReport
  <2>6. CASE FinishReport("exhaustive", TRUE, n)
    BY <2>1, <2>3, <2>6, FinishReportKeepsReport
  <2> QED
    BY <2>2, <2>4, <2>5, <2>6
<1> QED
  BY <1>1, <1>2, <1>3, <1>4, <1>5, <1>6, <1>7, <1>8, <1>9 DEF QuietAction

LEMMA EnumerateKeepsReport ==
  ASSUME WorkInv, ReportInv, NEW n \in Stops, Enumerate(n)
  PROVE  ReportInv'
<1>1. pc = "enumerate" /\ pc \in Early
  BY DEF Enumerate, Early
<1>2. CASE ~live
  <2>1. UNCHANGED searchVars /\ pc' = "refused"
    BY <1>2 DEF Enumerate
  <2> QED
    BY <1>1, <2>1, SilentKeepsReport DEF searchVars
<1>3. CASE live
  <2> DEFINE s == [st EXCEPT !.total = Evaluated(st) + Len(Remaining)]
  <2>1. /\ Announce(s, <<>>, n) /\ pc' \in {"stopping", "workers"}
        /\ UNCHANGED <<cfg, quoted, outcome>>
    <3>1. StateInv
      BY DEF ReportInv
    <3> QED
      BY <1>3, <3>1, EnumerateHandsOut
  <2>2. StateShape(st)
    BY DEF ReportInv, StateInv
  <2>3. /\ StateShape(s) /\ s.best = st.best /\ s.observed = st.observed
        /\ s.released = st.released /\ s.finality = st.finality
    BY <2>2 DEF StateShape, StateFields
  <2>4. pc' \notin Early /\ pc' \notin Unstopped
    BY <2>1 DEF Early, Unstopped
  <2> HIDE DEF s
  <2> QED
    BY <1>1, <2>1, <2>3, <2>4, AnnounceKeepsReport
<1> QED
  BY <1>2, <1>3

LEMMA HeuristicQuoteKeepsReport ==
  ASSUME WorkInv, ReportInv, NEW n \in Stops, NEW p \in Paths, HeuristicQuote(p, n)
  PROVE  ReportInv'
<1>1. /\ pc = "heuristic" /\ p \notin quoted /\ AmountOf(p) # 0 /\ ObserveQuote(p, n)
      /\ quoted' = quoted \cup {p} /\ UNCHANGED <<cfg, outcome>> /\ pc' \in {"heuristic", "heuristic over"}
  BY DEF HeuristicQuote
<1>2. SearchTypes /\ ~OneShot(cfg) /\ pc \in Early /\ pc' \notin Unstopped
  BY <1>1 DEF WorkInv, SearchTypes, Early, Unstopped
<1> QED
  BY <1>1, <1>2, ObserveQuoteKeepsReport

LEMMA RankAnswersKeepsReport ==
  ASSUME WorkInv, ReportInv, RankAnswers
  PROVE  ReportInv'
<1>1. CASE Fail
  BY <1>1, FailKeepsReport
<1>2. CASE ~Fail
  <2>1. /\ pc = "ranking" /\ pc' = "returned" /\ outcome' = "ranked"
        /\ UNCHANGED <<cfg, st, quoted, told, refused>>
    BY <1>2 DEF RankAnswers
  <2>2. st.best = 0 /\ told = 0
    BY <2>1 DEF WorkInv, SearchTypes, ReportInv, BestInv, CallerInv
  <2>3. FinalityInv'
    BY <2>1 DEF ReportInv, FinalityInv
  <2> QED
    BY <2>1, <2>2, <2>3 DEF ReportInv, StateInv, BestInv, CallerInv, CallerKnowsBest, EachRouteOnce,
                            OneShot, Early
<1> QED
  BY <1>1, <1>2
------------------------------------------------------------------------------
(* Where each route is *)

LEMMA HeadAndTail ==
  ASSUME NEW T, NEW s \in Seq(T), s # <<>>
  PROVE  /\ Head(s) \in T /\ Tail(s) \in Seq(T) /\ ToSet(s) = {Head(s)} \cup ToSet(Tail(s))
         /\ Distinct(s) => Distinct(Tail(s)) /\ Head(s) \notin ToSet(Tail(s))
<1>1. /\ Len(s) \in Nat /\ DOMAIN s = 1 .. Len(s) /\ Len(s) # 0 /\ Head(s) = s[1] /\ Head(s) \in T
      /\ Tail(s) \in Seq(T) /\ DOMAIN Tail(s) = 1 .. (Len(s) - 1)
      /\ \A i \in 1 .. (Len(s) - 1) : Tail(s)[i] = s[i + 1]
  OBVIOUS
<1>2. \A i \in DOMAIN Tail(s) : i + 1 \in DOMAIN s /\ i + 1 # 1 /\ Tail(s)[i] = s[i + 1]
  BY <1>1
<1>3. \A i \in DOMAIN s : i = 1 \/ (i - 1 \in DOMAIN Tail(s) /\ Tail(s)[i - 1] = s[i])
  BY <1>1
<1>4. 1 \in DOMAIN s
  BY <1>1
<1>5. ToSet(s) = {Head(s)} \cup ToSet(Tail(s))
  <2>1. ASSUME NEW x \in ToSet(s)
        PROVE  x = Head(s) \/ x \in ToSet(Tail(s))
    <3>1. PICK i \in DOMAIN s : s[i] = x
      BY DEF ToSet
    <3>2. CASE i = 1
      BY <1>1, <3>1, <3>2
    <3>3. CASE i # 1
      <4>1. i - 1 \in DOMAIN Tail(s) /\ Tail(s)[i - 1] = x
        BY <1>3, <3>1, <3>3
      <4> QED
        BY <4>1 DEF ToSet
    <3> QED
      BY <3>2, <3>3
  <2>2. \A x \in ToSet(Tail(s)) : x \in ToSet(s)
    BY <1>2 DEF ToSet
  <2>3. Head(s) \in ToSet(s)
    BY <1>1, <1>4 DEF ToSet
  <2> QED
    BY <2>1, <2>2, <2>3
<1>6. ASSUME Distinct(s)
      PROVE  Distinct(Tail(s)) /\ Head(s) \notin ToSet(Tail(s))
  <2>1. Distinct(Tail(s))
    <3> SUFFICES ASSUME NEW i \in DOMAIN Tail(s), NEW j \in DOMAIN Tail(s), Tail(s)[i] = Tail(s)[j]
                 PROVE  i = j
      BY DEF Distinct
    <3>1. i + 1 = j + 1
      BY <1>2, <1>6 DEF Distinct
    <3> QED
      BY <1>1, <3>1
  <2>2. Head(s) \notin ToSet(Tail(s))
    BY <1>1, <1>2, <1>4, <1>6 DEF Distinct, ToSet
  <2> QED
    BY <2>1, <2>2
<1> QED
  BY <1>1, <1>5, <1>6

LEMMA AppendOne ==
  ASSUME NEW T, NEW s \in Seq(T), NEW x \in T
  PROVE  /\ ToSet(Append(s, x)) = ToSet(s) \cup {x}
         /\ Distinct(s) /\ x \notin ToSet(s) => Distinct(Append(s, x))
<1> DEFINE a == Append(s, x)
<1>1. /\ Len(s) \in Nat /\ DOMAIN s = 1 .. Len(s) /\ DOMAIN a = 1 .. (Len(s) + 1)
      /\ a[Len(s) + 1] = x /\ \A i \in 1 .. Len(s) : a[i] = s[i]
  OBVIOUS
<1>2. /\ Len(s) + 1 \in DOMAIN a /\ \A i \in DOMAIN s : i \in DOMAIN a /\ a[i] = s[i]
      /\ \A i \in DOMAIN a : i = Len(s) + 1 \/ (i \in DOMAIN s /\ a[i] = s[i])
  BY <1>1
<1> HIDE DEF a
<1>3. ToSet(a) = ToSet(s) \cup {x}
  <2>1. \A y \in ToSet(a) : y = x \/ y \in ToSet(s)
    BY <1>1, <1>2 DEF ToSet
  <2>2. \A y \in ToSet(s) : y \in ToSet(a)
    BY <1>2 DEF ToSet
  <2>3. x \in ToSet(a)
    BY <1>1, <1>2 DEF ToSet
  <2> QED
    BY <2>1, <2>2, <2>3
<1>4. Distinct(s) /\ x \notin ToSet(s) => Distinct(a)
  BY <1>1, <1>2 DEF Distinct, ToSet
<1> QED
  BY <1>3, <1>4 DEF a

\* The amount of a route is known hop by hop.
LEMMA RouteFailed ==
  ASSUME WorkInv, NEW t \in Threads, reply[t] # <<>>, reply[t][2] = 0
  PROVE  AmountOf(Head(chunk[t])) = 0
<1>1. /\ Head(chunk[t]) \in Paths /\ hop[t] \in Nat \ {0} /\ hop[t] <= Len(PathKeys[Head(chunk[t])])
      /\ reply[t] = <<KeyAt(t), Outcome[KeyAt(t)]>>
  BY AskedKey DEF WorkInv, WorkerInv
<1>2. hop[t] \in DOMAIN PathKeys[Head(chunk[t])]
  BY <1>1, PathKeysType
<1>3. Outcome[PathKeys[Head(chunk[t])][hop[t]]] = 0
  BY <1>1 DEF KeyAt
<1> QED
  BY <1>2, <1>3 DEF AmountOf

LEMMA RouteQuoted ==
  ASSUME WorkInv, NEW t \in Threads, reply[t] # <<>>, reply[t][2] # 0,
         hop[t] = Len(PathKeys[Head(chunk[t])])
  PROVE  AmountOf(Head(chunk[t])) # 0
<1> DEFINE keys == PathKeys[Head(chunk[t])]
<1>1. /\ Head(chunk[t]) \in Paths /\ hop[t] \in Nat \ {0}
      /\ reply[t] = <<KeyAt(t), Outcome[KeyAt(t)]>> /\ chunk[t] # <<>>
      /\ \A i \in 1 .. (hop[t] - 1) : Outcome[keys[i]] # 0
  BY AskedKey DEF WorkInv, WorkerInv
<1>2. Outcome[keys[Len(keys)]] # 0
  BY <1>1 DEF KeyAt
<1>3. DOMAIN keys = 1 .. Len(keys)
  BY <1>1, PathKeysType
<1>4. \A i \in DOMAIN keys : i = Len(keys) \/ i \in 1 .. (hop[t] - 1)
  BY <1>1, <1>3
<1> QED
  BY <1>1, <1>2, <1>4 DEF AmountOf

\* Taking the first route off the chunk of a worker, and sending it or not.
LEMMA NextPathMoves ==
  ASSUME WorkInv, NEW t \in Threads, chunk[t] # <<>>, NextPath(t)
  PROVE  /\ Head(chunk[t]) \in Paths /\ ToSet(chunk[t]) = {Head(chunk[t])} \cup ToSet(chunk'[t])
         /\ Distinct(chunk[t]) => Distinct(chunk'[t]) /\ Head(chunk[t]) \notin ToSet(chunk'[t])
         /\ \A u \in Threads \ {t} : chunk'[u] = chunk[u]
<1>1. chunk \in [Threads -> Seq(Paths)] /\ chunk[t] \in Seq(Paths)
  BY DEF WorkInv, SearchTypes
<1>2. chunk'[t] = Tail(chunk[t]) /\ \A u \in Threads \ {t} : chunk'[u] = chunk[u]
  BY <1>1 DEF NextPath
<1> QED
  BY <1>1, <1>2, HeadAndTail
LEMMA SamePlacesKeepDisjoint ==
  ASSUME DisjointInv, UNCHANGED <<cfg, quoted, chunk, channel>>
  PROVE  DisjointInv'
BY DEF DisjointInv, OneShot

LEMMA EnumerateKeepsDisjoint ==
  ASSUME WorkInv, StateInv, DisjointInv, NEW n \in Stops, Enumerate(n)
  PROVE  DisjointInv'
<1>1. CASE ~live
  BY <1>1, SamePlacesKeepDisjoint DEF Enumerate, searchVars, workerVars
<1>2. CASE live
  <2>1. /\ UNCHANGED <<cfg, quoted, channel>>
        /\ \A t \in Threads : Distinct(chunk'[t]) /\ ToSet(chunk'[t]) \subseteq Unquoted
        /\ \A t, u \in Threads : t # u => ToSet(chunk'[t]) \cap ToSet(chunk'[u]) = {}
    BY <1>2, EnumerateHandsOut
  <2>2. channel = <<>>
    BY DEF WorkInv, SearchTypes, Enumerate, Early
  <2>3. Distinct(<<>>) /\ ToSet(<<>>) = {}
    BY DEF Distinct, ToSet
  <2>4. Unquoted \cap quoted = {}
    BY DEF Unquoted
  <2> QED
    BY <2>1, <2>2, <2>3, <2>4 DEF DisjointInv
<1> QED
  BY <1>1, <1>2

LEMMA HeuristicQuoteKeepsDisjoint ==
  ASSUME WorkInv, NEW n \in Stops, NEW p \in Paths, HeuristicQuote(p, n)
  PROVE  DisjointInv'
<1>1. pc = "heuristic" /\ UNCHANGED <<chunk, channel>>
  BY DEF HeuristicQuote, workerVars
<1>2. channel = <<>> /\ \A t \in Threads : chunk[t] = <<>>
  BY <1>1 DEF WorkInv, SearchTypes, WorkerInv, Early
<1>3. Distinct(<<>>) /\ ToSet(<<>>) = {}
  BY DEF Distinct, ToSet
<1> QED
  BY <1>1, <1>2, <1>3 DEF DisjointInv

LEMMA ReceiveKeepsDisjoint ==
  ASSUME WorkInv, DisjointInv, NEW n \in Stops, Receive(n)
  PROVE  DisjointInv' /\ ~OneShot(cfg) /\ Head(channel) \notin quoted /\ Head(channel) \in Paths
<1>1. /\ pc = "workers" /\ channel # <<>> /\ quoted' = quoted \cup {Head(channel)}
      /\ channel' \in {<<>>, Tail(channel)} /\ UNCHANGED <<cfg, chunk>>
  BY DEF Receive
<1>2. ~OneShot(cfg) /\ channel \in Seq(Paths)
  BY <1>1 DEF WorkInv, SearchTypes
<1>3. /\ Distinct(channel) /\ ToSet(channel) \cap quoted = {}
      /\ \A t \in Threads : /\ Distinct(chunk[t]) /\ ToSet(chunk[t]) \cap quoted = {}
                            /\ ToSet(chunk[t]) \cap ToSet(channel) = {}
      /\ \A t, u \in Threads : t # u => ToSet(chunk[t]) \cap ToSet(chunk[u]) = {}
  BY <1>2 DEF DisjointInv
<1>4. /\ Head(channel) \in Paths /\ ToSet(channel) = {Head(channel)} \cup ToSet(Tail(channel))
      /\ Distinct(Tail(channel)) /\ Head(channel) \notin ToSet(Tail(channel))
  BY <1>1, <1>2, <1>3, HeadAndTail
<1>5. Distinct(<<>>) /\ ToSet(<<>>) = {}
  BY DEF Distinct, ToSet
<1>6. Distinct(channel') /\ ToSet(channel') \subseteq ToSet(Tail(channel))
  BY <1>1, <1>4, <1>5
<1>7. DisjointInv'
  BY <1>1, <1>3, <1>4, <1>6 DEF DisjointInv
<1> QED
  BY <1>2, <1>3, <1>4, <1>7

LEMMA NextPathKeepsDisjoint ==
  ASSUME WorkInv, DisjointInv, NEW t \in Threads, chunk[t] # <<>>, NextPath(t),
         channel' \in {channel, Append(channel, Head(chunk[t]))}, UNCHANGED <<cfg, quoted>>
  PROVE  DisjointInv'
<1> SUFFICES ASSUME ~OneShot(cfg)
             PROVE  DisjointInv'
  BY DEF DisjointInv, OneShot
<1> DEFINE p == Head(chunk[t])
<1>1. /\ Distinct(channel) /\ ToSet(channel) \cap quoted = {}
      /\ \A u \in Threads : /\ Distinct(chunk[u]) /\ ToSet(chunk[u]) \cap quoted = {}
                            /\ ToSet(chunk[u]) \cap ToSet(channel) = {}
      /\ \A u, v \in Threads : u # v => ToSet(chunk[u]) \cap ToSet(chunk[v]) = {}
  BY DEF DisjointInv
<1>2. /\ p \in Paths /\ ToSet(chunk[t]) = {p} \cup ToSet(chunk'[t])
      /\ Distinct(chunk'[t]) /\ p \notin ToSet(chunk'[t])
      /\ \A u \in Threads \ {t} : chunk'[u] = chunk[u]
  BY <1>1, NextPathMoves
<1>3. channel \in Seq(Paths)
  BY DEF WorkInv, SearchTypes
<1>4. p \notin ToSet(channel) /\ p \notin quoted
  BY <1>1, <1>2
<1>5. Distinct(Append(channel, p)) /\ ToSet(Append(channel, p)) = ToSet(channel) \cup {p}
  BY <1>1, <1>2, <1>3, <1>4, AppendOne
<1>6. /\ Distinct(channel') /\ ToSet(channel') \subseteq ToSet(channel) \cup {p}
  BY <1>1, <1>5
<1> HIDE DEF p
<1>7. \A u \in Threads : /\ Distinct(chunk'[u]) /\ ToSet(chunk'[u]) \subseteq ToSet(chunk[u])
                         /\ p \notin ToSet(chunk'[u])
  BY <1>1, <1>2
<1>8. ToSet(channel') \cap quoted = {}
  BY <1>1, <1>4, <1>6
<1>9. \A u \in Threads : ToSet(chunk'[u]) \cap quoted = {} /\ ToSet(chunk'[u]) \cap ToSet(channel') = {}
  BY <1>1, <1>6, <1>7
<1>10. \A u, v \in Threads : u # v => ToSet(chunk'[u]) \cap ToSet(chunk'[v]) = {}
  BY <1>1, <1>7
<1> QED
  BY <1>6, <1>7, <1>8, <1>9, <1>10 DEF DisjointInv

LEMMA PanicsKeepsDisjoint ==
  ASSUME WorkInv, DisjointInv, NEW t \in Threads, WorkerPanics(t)
  PROVE  DisjointInv'
<1>1. chunk' = [chunk EXCEPT ![t] = <<>>] /\ UNCHANGED <<cfg, quoted, channel>>
  BY DEF WorkerPanics, coordinatorIdle, searchVars
<1>2. chunk \in [Threads -> Seq(Paths)]
  BY DEF WorkInv, SearchTypes
<1>3. Distinct(<<>>) /\ ToSet(<<>>) = {}
  BY DEF Distinct, ToSet
<1>4. chunk'[t] = <<>> /\ \A u \in Threads \ {t} : chunk'[u] = chunk[u]
  BY <1>1, <1>2
<1>5. \A u \in Threads : ToSet(chunk'[u]) = (IF u = t THEN {} ELSE ToSet(chunk[u]))
  BY <1>3, <1>4
<1>6. \A u \in Threads : Distinct(chunk[u]) => Distinct(chunk'[u])
  BY <1>3, <1>4
<1>7. ASSUME ~OneShot(cfg)
      PROVE  /\ \A u \in Threads : /\ Distinct(chunk'[u]) /\ ToSet(chunk'[u]) \cap quoted = {}
                                   /\ ToSet(chunk'[u]) \cap ToSet(channel) = {}
             /\ \A u, v \in Threads : u # v => ToSet(chunk'[u]) \cap ToSet(chunk'[v]) = {}
             /\ Distinct(channel) /\ ToSet(channel) \cap quoted = {}
  <2>1. /\ \A u \in Threads : /\ Distinct(chunk[u]) /\ ToSet(chunk[u]) \cap quoted = {}
                              /\ ToSet(chunk[u]) \cap ToSet(channel) = {}
        /\ \A u, v \in Threads : u # v => ToSet(chunk[u]) \cap ToSet(chunk[v]) = {}
        /\ Distinct(channel) /\ ToSet(channel) \cap quoted = {}
    BY <1>7 DEF DisjointInv
  <2> QED
    BY <1>5, <1>6, <2>1
<1> QED
  BY <1>1, <1>7 DEF DisjointInv, OneShot
------------------------------------------------------------------------------
(* No route gets lost *)

\* A step of a worker, which may drop a route that has no quote.
LEMMA WorkKeepsCover ==
  ASSUME CoverInv, UNCHANGED <<searchVars, pc, cancelled>>,
         \A p \in ToSet(channel') : AmountOf(p) # 0,
         NoPanic' =>
           /\ NoPanic
           /\ \A t \in Threads : worker'[t] # "running" =>
                chunk'[t] = <<>> \/ (worker[t] # "running" /\ chunk'[t] = chunk[t])
           /\ \A p : Pending(p) /\ AmountOf(p) # 0 => Pending(p)'
  PROVE  CoverInv'
<1>1. UNCHANGED <<cfg, st, quoted, answers, outcome, pc, cancelled>>
  BY DEF searchVars
<1>2. NoneLost'
  <2> SUFFICES ASSUME pc \in Quoting, ~cancelled, NoPanic'
               PROVE  NoneLost'
    BY <1>1 DEF NoneLost
  <2>1. /\ \A t \in Threads : worker[t] # "running" => chunk[t] = <<>>
        /\ (pc = "workers" /\ cfg.cap = 0) =>
             \A p \in Paths : AmountOf(p) = 0 \/ p \in quoted \/ Pending(p)
    BY DEF CoverInv, NoneLost
  <2>2. \A t \in Threads : worker'[t] # "running" => chunk'[t] = <<>>
    BY <2>1
  <2>3. (pc = "workers" /\ cfg.cap = 0) =>
          \A p \in Paths : AmountOf(p) = 0 \/ p \in quoted \/ Pending(p)'
    BY <2>1
  <2> QED
    BY <1>1, <2>2, <2>3 DEF NoneLost
<1>3. AllSeen'
  BY <1>1 DEF CoverInv, AllSeen
<1> QED
  BY <1>2, <1>3 DEF CoverInv, SentAreQuoted

LEMMA SamePlacesKeepCover ==
  ASSUME CoverInv, UNCHANGED <<searchVars, pc, workerVars>>
  PROVE  CoverInv'
<1>1. UNCHANGED <<chunk, channel, worker, cancelled>>
  BY DEF workerVars
<1>2. \A p \in ToSet(channel') : AmountOf(p) # 0
  BY <1>1 DEF CoverInv, SentAreQuoted
<1>3. ASSUME NEW p
      PROVE  Pending(p)' <=> Pending(p)
  BY <1>1 DEF Pending
<1>4. NoPanic' => NoPanic
  BY <1>1 DEF NoPanic
<1> QED
  BY <1>1, <1>2, <1>3, <1>4, WorkKeepsCover

LEMMA WorkerEndsKeepsCover ==
  ASSUME WorkInv, CoverInv, NEW t \in Threads, WorkerEnds(t)
  PROVE  CoverInv'
<1>1. /\ worker[t] = "running" /\ chunk[t] = <<>> /\ worker' = [worker EXCEPT ![t] = "ended"]
      /\ UNCHANGED <<searchVars, pc, chunk, channel, cancelled>>
  BY DEF WorkerEnds, coordinatorIdle
<1>2. worker \in [Threads -> {"idle", "running", "ended", "panicked"}]
  BY DEF WorkInv, SearchTypes
<1>3. \A p \in ToSet(channel') : AmountOf(p) # 0
  BY <1>1 DEF CoverInv, SentAreQuoted
<1>4. ASSUME NEW p
      PROVE  Pending(p)' <=> Pending(p)
  BY <1>1 DEF Pending
<1>5. NoPanic' => NoPanic
  BY <1>1, <1>2 DEF NoPanic
<1>6. \A u \in Threads : worker'[u] # "running" =>
        chunk'[u] = <<>> \/ (worker[u] # "running" /\ chunk'[u] = chunk[u])
  BY <1>1, <1>2
<1> QED
  BY <1>1, <1>3, <1>4, <1>5, <1>6, WorkKeepsCover

LEMMA PanicsKeepsCover ==
  ASSUME WorkInv, CoverInv, NEW t \in Threads, WorkerPanics(t)
  PROVE  CoverInv'
<1>1. worker' = [worker EXCEPT ![t] = "panicked"] /\ UNCHANGED <<searchVars, pc, channel, cancelled>>
  BY DEF WorkerPanics, coordinatorIdle
<1>2. ~NoPanic'
  BY <1>1 DEF NoPanic, WorkInv, SearchTypes
<1>3. \A p \in ToSet(channel') : AmountOf(p) # 0
  BY <1>1 DEF CoverInv, SentAreQuoted
<1> QED
  BY <1>1, <1>2, <1>3, WorkKeepsCover

LEMMA NextRequestKeepsCover ==
  ASSUME WorkInv, CoverInv, NEW t \in Threads, NextRequest(t)
  PROVE  CoverInv'
<1>1. /\ worker[t] = "running" /\ chunk[t] = <<>> /\ UNCHANGED <<searchVars, pc, channel, cancelled, worker>>
      /\ chunk' = [chunk EXCEPT ![t] = RoutesOf(serving[t][2])]
  BY DEF NextRequest, coordinatorIdle
<1>2. \A u \in Threads \ {t} : chunk'[u] = chunk[u]
  BY <1>1 DEF WorkInv, SearchTypes
<1>3. \A p \in ToSet(channel') : AmountOf(p) # 0
  BY <1>1 DEF CoverInv, SentAreQuoted
<1>4. ToSet(<<>>) = {}
  BY DEF ToSet
<1>5. ASSUME NEW p, Pending(p)
      PROVE  Pending(p)'
  BY <1>1, <1>2, <1>4, <1>5 DEF Pending
<1>6. NoPanic' => NoPanic
  BY <1>1 DEF NoPanic
<1>7. \A u \in Threads : worker'[u] # "running" => worker[u] # "running" /\ chunk'[u] = chunk[u]
  BY <1>1, <1>2
<1> QED
  BY <1>1, <1>3, <1>5, <1>6, <1>7, WorkKeepsCover

LEMMA HopDoneKeepsCover ==
  ASSUME WorkInv, CoverInv, NEW t \in Threads, HopDone(t)
  PROVE  CoverInv'
<1>1. /\ reply[t] # <<>> /\ chunk[t] # <<>> /\ UNCHANGED <<searchVars, pc, channel, cancelled, worker>>
      /\ (reply[t][2] = 0 /\ NextPath(t)) \/ UNCHANGED chunk
  BY DEF HopDone, coordinatorIdle
<1>2. worker[t] = "running"
  BY <1>1, AskedKey
<1>3. \A p \in ToSet(channel') : AmountOf(p) # 0
  BY <1>1 DEF CoverInv, SentAreQuoted
<1>4. NoPanic' => NoPanic
  BY <1>1 DEF NoPanic
<1>5. CASE UNCHANGED chunk
  <2>1. ASSUME NEW p
        PROVE  Pending(p)' <=> Pending(p)
    BY <1>1, <1>5 DEF Pending
  <2> QED
    BY <1>1, <1>3, <1>4, <1>5, <2>1, WorkKeepsCover
<1>6. CASE reply[t][2] = 0 /\ NextPath(t)
  <2>1. AmountOf(Head(chunk[t])) = 0
    BY <1>1, <1>6, RouteFailed
  <2>2. /\ ToSet(chunk[t]) = {Head(chunk[t])} \cup ToSet(chunk'[t])
        /\ \A u \in Threads \ {t} : chunk'[u] = chunk[u]
    BY <1>1, <1>6, NextPathMoves
  <2>3. ASSUME NEW p, Pending(p), AmountOf(p) # 0
        PROVE  Pending(p)'
    BY <1>1, <2>1, <2>2, <2>3 DEF Pending
  <2>4. \A u \in Threads : worker'[u] # "running" => worker[u] # "running" /\ chunk'[u] = chunk[u]
    BY <1>1, <1>2, <2>2
  <2> QED
    BY <1>1, <1>3, <1>4, <2>3, <2>4, WorkKeepsCover
<1> QED
  BY <1>1, <1>5, <1>6

LEMMA SendQuoteKeepsCover ==
  ASSUME WorkInv, CoverInv, NEW t \in Threads, SendQuote(t)
  PROVE  CoverInv'
<1> DEFINE p == Head(chunk[t])
<1>1. /\ reply[t] # <<>> /\ chunk[t] # <<>> /\ reply[t][2] # 0 /\ hop[t] = Len(PathKeys[p])
      /\ NextPath(t) /\ UNCHANGED <<searchVars, pc, cancelled>>
  BY DEF SendQuote, coordinatorIdle
<1>2. \/ OneShot(cfg) /\ UNCHANGED <<channel, worker>>
      \/ ~OneShot(cfg) /\ cancelled /\ worker' = [worker EXCEPT ![t] = "ended"] /\ UNCHANGED channel
      \/ ~OneShot(cfg) /\ ~cancelled /\ channel' = Append(channel, p) /\ UNCHANGED worker
  BY DEF SendQuote
<1>3. worker[t] = "running" /\ AmountOf(p) # 0
  BY <1>1, AskedKey, RouteQuoted
<1>4. /\ p \in Paths /\ ToSet(chunk[t]) = {p} \cup ToSet(chunk'[t])
      /\ \A u \in Threads \ {t} : chunk'[u] = chunk[u]
  BY <1>1, NextPathMoves
<1>5. channel \in Seq(Paths)
  BY DEF WorkInv, SearchTypes
<1>6. ToSet(Append(channel, p)) = ToSet(channel) \cup {p}
  BY <1>4, <1>5, AppendOne
<1> HIDE DEF p
<1>7. \A q \in ToSet(channel') : AmountOf(q) # 0
  <2>1. \A q \in ToSet(channel) : AmountOf(q) # 0
    BY DEF CoverInv, SentAreQuoted
  <2> QED
    BY <1>2, <1>3, <1>6, <2>1
<1>8. CASE ~OneShot(cfg) /\ ~cancelled
  <2>1. NoPanic' => NoPanic
    BY <1>2, <1>8 DEF NoPanic
  <2>2. \A u \in Threads : worker'[u] # "running" => worker[u] # "running" /\ chunk'[u] = chunk[u]
    BY <1>2, <1>3, <1>4, <1>8
  <2>3. ASSUME NEW q, Pending(q)
        PROVE  Pending(q)'
    <3>1. ToSet(channel') = ToSet(channel) \cup {p}
      BY <1>2, <1>6, <1>8
    <3> QED
      BY <1>4, <2>3, <3>1 DEF Pending
  <2> QED
    BY <1>1, <1>7, <2>1, <2>2, <2>3, WorkKeepsCover
<1>9. CASE ~OneShot(cfg) /\ cancelled
  <2>1. cancelled' /\ UNCHANGED <<cfg, st, quoted, answers, outcome, pc>>
    BY <1>1, <1>9 DEF searchVars
  <2> QED
    BY <1>7, <2>1 DEF CoverInv, SentAreQuoted, NoneLost, AllSeen
<1>10. CASE OneShot(cfg)
  <2>1. UNCHANGED <<cfg, st, quoted, answers, outcome, pc, cancelled, worker>>
    BY <1>1, <1>2, <1>10 DEF searchVars
  <2>2. pc # "workers" /\ pc # "exhaustive phase"
    BY <1>10 DEF WorkInv, SearchTypes
  <2>3. \A u \in Threads : worker[u] # "running" => chunk'[u] = chunk[u]
    BY <1>3, <1>4
  <2>4. NoneLost'
    BY <2>1, <2>2, <2>3 DEF CoverInv, NoneLost, NoPanic
  <2> QED
    BY <1>7, <2>1, <2>4 DEF CoverInv, SentAreQuoted, AllSeen
<1> QED
  BY <1>8, <1>9, <1>10
\* Panics counts the workers that panicked.
LEMMA NoPanics == ~(Panics > 0) <=> NoPanic
<1> DEFINE P == {t \in Threads : worker[t] = "panicked"}
<1>1. IsFiniteSet(P)
  BY CacheAssumption, FS_Subset
<1>2. Cardinality(P) \in Nat /\ (Cardinality(P) = 0 <=> P = {})
  BY <1>1, FS_CardinalityType, FS_EmptySet
<1>3. P = {} <=> NoPanic
  BY DEF NoPanic
<1> HIDE DEF P
<1>4. ~(Cardinality(P) > 0) <=> NoPanic
  BY <1>2, <1>3
<1> QED
  BY <1>4 DEF Panics, P

\* The exhaustive phase is over when the workers are joined, and only then is a report
\* exhaustive.
LEMMA QuietOutcome ==
  ASSUME StateInv, NEW n \in Stops, QuietAction(n)
  PROVE  /\ outcome' # "ranked"
         /\ outcome' = "exhaustive" => pc = "exhaustive phase" /\ st.best # 0 /\ st'.best = st.best
         /\ pc' = "exhaustive phase" =>
              \/ pc = "exhaustive phase"
              \/ /\ pc = "workers" /\ channel = <<>> /\ ~cancelled /\ NoPanic
                 /\ \A t \in Threads : worker[t] # "running"
<1> USE DEF SearchFinality
<1>1. pc # "returned" => outcome = "none"
  BY DEF StateInv
<1>2. ASSUME NEW finality, NEW completed, FinishReport(finality, completed, n)
      PROVE  outcome' \in {"stopped", finality} /\ st'.best = st.best /\ pc' = "returned"
  <2>1. outcome' \in {"stopped", finality} /\ pc' = "returned"
    BY <1>2 DEF FinishReport
  <2>2. PICK b : st' = [st EXCEPT !.released = b]
    BY <1>2 DEF FinishReport
  <2>3. st'.best = st.best
    BY <2>2 DEF StateInv, StateShape, StateFields
  <2> QED
    BY <2>1, <2>3
<1>3. CASE Start
  BY <1>1, <1>3 DEF Start
<1>4. CASE Cancel
  BY <1>1, <1>4 DEF Cancel
<1>5. CASE FinishHeuristic(n)
  BY <1>1, <1>5 DEF FinishHeuristic
<1>6. CASE Stopping(n)
  <2>1. FinishReport(IF st.finality = "none" THEN "stopped" ELSE st.finality, st.finality = "policy", n)
    BY <1>6 DEF Stopping, StopReport
  <2>2. outcome' \in {"stopped", "policy"} /\ pc' = "returned"
    BY <1>2, <2>1 DEF StateInv, StateShape
  <2> QED
    BY <2>2
<1>7. CASE Refused(n)
  <2>1. FinishReport("stopped", FALSE, n)
    BY <1>7 DEF Refused
  <2>2. outcome' \in {"stopped", "stopped"} /\ pc' = "returned"
    BY <1>2, <2>1
  <2> QED
    BY <2>2
<1>8. CASE Join(n)
  BY <1>1, <1>8, NoPanics DEF Join, Fail
<1>9. ASSUME NEW f \in 0 .. MaxFailed, NEW c \in BOOLEAN, HeuristicOver(f, c, n)
      PROVE  outcome' = "none" /\ pc' # "exhaustive phase"
  BY <1>1, <1>9 DEF HeuristicOver
<1>10. ASSUME NEW s \in BOOLEAN, HeuristicPhase(s, n)
       PROVE  outcome' \notin {"ranked", "exhaustive"} /\ pc' # "exhaustive phase"
  <2> DEFINE finality == IF cfg.completion = "fast lane" THEN "fast lane only" ELSE "heuristic only"
  <2>1. CASE FinishReport(finality, TRUE, n)
    <3>1. outcome' \in {"stopped", finality} /\ pc' = "returned"
      BY <1>2, <2>1
    <3> QED
      BY <3>1
  <2>2. CASE ~FinishReport(finality, TRUE, n)
    BY <1>1, <1>10, <2>2 DEF HeuristicPhase, Fail, searchVars
  <2> QED
    BY <2>1, <2>2
<1>11. ASSUME NEW s \in BOOLEAN, ExhaustivePhase(s, n)
       PROVE  /\ outcome' # "ranked"
              /\ outcome' = "exhaustive" => st.best # 0 /\ st'.best = st.best
              /\ pc = "exhaustive phase"
  <2>1. CASE FinishReport("exhaustive", TRUE, n)
    <3>1. outcome' \in {"stopped", "exhaustive"} /\ st'.best = st.best
      BY <1>2, <2>1
    <3>2. pc = "exhaustive phase" /\ (s = FALSE => st.best # 0 \/ outcome' = "error")
      BY <1>11 DEF ExhaustivePhase, Fail
    <3>3. s = TRUE => outcome' = outcome
      BY <1>11 DEF ExhaustivePhase
    <3> QED
      BY <1>1, <3>1, <3>2, <3>3
  <2>2. CASE ~FinishReport("exhaustive", TRUE, n)
    BY <1>1, <1>11, <2>2 DEF ExhaustivePhase, Fail
  <2> QED
    BY <2>1, <2>2
<1> QED
  BY <1>3, <1>4, <1>5, <1>6, <1>7, <1>8, <1>9, <1>10, <1>11 DEF QuietAction

LEMMA QuietKeepsCover ==
  ASSUME WorkInv, StateInv, CoverInv, NEW n \in Stops, QuietAction(n)
  PROVE  CoverInv'
<1>1. QuietStep
  BY QuietActionIsQuiet DEF WorkInv
<1>2. UNCHANGED <<cfg, quoted, chunk, channel, cancelled, worker>> /\ (pc' \in Quoting => pc' = pc)
  BY <1>1 DEF QuietStep, workerVars
<1>3. SentAreQuoted' /\ NoneLost'
  BY <1>2 DEF CoverInv, SentAreQuoted, NoneLost, NoPanic, Pending
<1>4. /\ outcome' # "ranked"
      /\ outcome' = "exhaustive" => pc = "exhaustive phase" /\ st.best # 0 /\ st'.best = st.best
      /\ pc' = "exhaustive phase" =>
           \/ pc = "exhaustive phase"
           \/ /\ pc = "workers" /\ channel = <<>> /\ ~cancelled /\ NoPanic
              /\ \A t \in Threads : worker[t] # "running"
  BY QuietOutcome
<1>5. ASSUME pc = "workers", channel = <<>>, ~cancelled, NoPanic, cfg.cap = 0,
             \A t \in Threads : worker[t] # "running", NEW p \in Paths
      PROVE  AmountOf(p) = 0 \/ p \in quoted
  <2>1. ToSet(<<>>) = {}
    BY DEF ToSet
  <2>2. \A t \in Threads : chunk[t] = <<>>
    BY <1>5 DEF CoverInv, NoneLost, Quoting
  <2>3. ~Pending(p)
    BY <1>5, <2>1, <2>2 DEF Pending
  <2> QED
    BY <1>5, <2>3 DEF CoverInv, NoneLost, Quoting
<1>6. pc = "exhaustive phase" /\ cfg.cap = 0 => \A p \in Paths : AmountOf(p) = 0 \/ p \in quoted
  BY DEF CoverInv, AllSeen
<1>7. AllSeen'
  BY <1>2, <1>4, <1>5, <1>6 DEF AllSeen
<1> QED
  BY <1>3, <1>7 DEF CoverInv

LEMMA HeuristicQuoteKeepsCover ==
  ASSUME WorkInv, StateInv, NEW n \in Stops, NEW p \in Paths, HeuristicQuote(p, n)
  PROVE  CoverInv'
<1>1. /\ pc = "heuristic" /\ UNCHANGED <<channel, outcome>> /\ pc' \in {"heuristic", "heuristic over"}
  BY DEF HeuristicQuote, workerVars
<1>2. channel = <<>> /\ outcome = "none"
  BY <1>1 DEF WorkInv, SearchTypes, StateInv, Early
<1>3. ToSet(<<>>) = {}
  BY DEF ToSet
<1> QED
  BY <1>1, <1>2, <1>3 DEF CoverInv, SentAreQuoted, NoneLost, AllSeen, Quoting

LEMMA EnumerateKeepsCover ==
  ASSUME WorkInv, StateInv, NEW n \in Stops, Enumerate(n)
  PROVE  CoverInv'
<1>1. pc = "enumerate" /\ channel = <<>> /\ outcome = "none"
  BY DEF WorkInv, SearchTypes, StateInv, Enumerate, Early
<1>2. ToSet(<<>>) = {}
  BY DEF ToSet
<1>3. CASE ~live
  <2>1. pc' = "refused" /\ UNCHANGED <<channel, outcome>>
    BY <1>3 DEF Enumerate, searchVars, workerVars
  <2> QED
    BY <1>1, <1>2, <2>1 DEF CoverInv, SentAreQuoted, NoneLost, AllSeen, Quoting
<1>4. CASE live
  <2>1. /\ worker' = [t \in Threads |-> IF chunk'[t] # <<>> /\ ~Halted THEN "running" ELSE "idle"]
        /\ pc' = (IF Halted THEN "stopping" ELSE "workers")
        /\ UNCHANGED <<cfg, quoted, channel, outcome>>
        /\ cfg.cap = 0 => \A p \in Unquoted : \E t \in Threads : p \in ToSet(chunk'[t])
    BY <1>4, EnumerateHandsOut
  <2>2. SentAreQuoted' /\ AllSeen'
    BY <1>1, <1>2, <2>1 DEF SentAreQuoted, AllSeen
  <2>3. NoneLost'
    <3> SUFFICES ASSUME pc' \in Quoting
                 PROVE  NoneLost'
      BY DEF NoneLost
    <3>1. pc' = "workers" /\ ~Halted
      BY <2>1 DEF Quoting
    <3>2. \A t \in Threads : worker'[t] # "running" => chunk'[t] = <<>>
      BY <2>1, <3>1
    <3>3. cfg.cap = 0 => \A p \in Paths : p \in quoted \/ Pending(p)'
      BY <2>1 DEF Unquoted, Pending
    <3> QED
      BY <2>1, <3>1, <3>2, <3>3 DEF NoneLost
  <2> QED
    BY <2>2, <2>3 DEF CoverInv
<1> QED
  BY <1>3, <1>4

LEMMA StartKeepsCover ==
  ASSUME WorkInv, StateInv, StartParallel \/ StartBatch
  PROVE  CoverInv'
<1>1. /\ pc = "start" /\ pc' = "ranking"
      /\ worker' = [t \in Threads |-> IF serving'[t] # <<>> THEN "running" ELSE "idle"]
      /\ UNCHANGED <<cfg, outcome, channel>>
      /\ \A t \in Threads : chunk'[t] # <<>> => serving'[t] # <<>>
  BY StartHandsOut DEF searchVars
<1>2. channel = <<>> /\ outcome = "none" /\ ToSet(<<>>) = {}
  BY <1>1 DEF WorkInv, SearchTypes, StateInv, Early, ToSet
<1>3. \A t \in Threads : worker'[t] # "running" => chunk'[t] = <<>>
  BY <1>1
<1>4. NoneLost'
  BY <1>1, <1>3 DEF NoneLost
<1> QED
  BY <1>1, <1>2, <1>4 DEF CoverInv, SentAreQuoted, AllSeen

LEMMA ReceiveKeepsCover ==
  ASSUME WorkInv, StateInv, CoverInv, NEW n \in Stops, Receive(n)
  PROVE  CoverInv' /\ AmountOf(Head(channel)) # 0
<1>1. /\ pc = "workers" /\ pc' = pc /\ channel # <<>> /\ ~cancelled
      /\ quoted' = quoted \cup {Head(channel)} /\ channel' \in {<<>>, Tail(channel)}
      /\ ~cancelled' => channel' = Tail(channel)
      /\ UNCHANGED <<cfg, outcome, chunk, worker>>
  BY DEF Receive
<1>2. outcome = "none" /\ channel \in Seq(Paths) /\ ToSet(<<>>) = {}
  BY <1>1 DEF WorkInv, SearchTypes, StateInv, ToSet
<1>3. ToSet(channel) = {Head(channel)} \cup ToSet(Tail(channel))
  BY <1>1, <1>2, HeadAndTail
<1>4. \A p \in ToSet(channel) : AmountOf(p) # 0
  BY DEF CoverInv, SentAreQuoted
<1>5. SentAreQuoted'
  BY <1>1, <1>2, <1>3, <1>4 DEF SentAreQuoted
<1>6. NoneLost'
  <2> SUFFICES ASSUME ~cancelled', NoPanic'
               PROVE  NoneLost'
    BY DEF NoneLost
  <2>1. NoPanic
    BY <1>1 DEF NoPanic
  <2>2. /\ \A t \in Threads : worker[t] # "running" => chunk[t] = <<>>
        /\ cfg.cap = 0 => \A p \in Paths : AmountOf(p) = 0 \/ p \in quoted \/ Pending(p)
    BY <1>1, <2>1 DEF CoverInv, NoneLost, Quoting
  <2>3. ASSUME NEW p, Pending(p)
        PROVE  p \in quoted' \/ Pending(p)'
    BY <1>1, <1>3, <2>3 DEF Pending
  <2>4. cfg.cap = 0 => \A p \in Paths : AmountOf(p) = 0 \/ p \in quoted' \/ Pending(p)'
    BY <1>1, <2>2, <2>3
  <2> QED
    BY <1>1, <2>2, <2>4 DEF NoneLost
<1>7. AllSeen'
  BY <1>1, <1>2 DEF AllSeen
<1> QED
  BY <1>3, <1>4, <1>5, <1>6, <1>7 DEF CoverInv

\* Ranking lists the routes it is given.
LEMMA RankLists ==
  ASSUME NEW routes \in SUBSET Paths
  PROVE  ToSet(Rank(routes)) = routes
<1> DEFINE R == {r \in routes \X routes : RanksBefore(r[1], r[2])}
<1>1. \A p \in routes : AmountOf(p) \in Nat /\ p \in Nat
  BY AmountType, PathsFinite
<1>2. \A p, q \in routes : <<p, q>> \in R <=> RanksBefore(p, q)
  OBVIOUS
<1> HIDE DEF R
<1>3. \A p, q \in routes : RanksBefore(p, q) \/ RanksBefore(q, p)
  BY <1>1 DEF RanksBefore
<1>4. \A p, q \in routes : RanksBefore(p, q) /\ RanksBefore(q, p) => p = q
  BY <1>1 DEF RanksBefore
<1>5. \A p, q, r \in routes : RanksBefore(p, q) /\ RanksBefore(q, r) => RanksBefore(p, r)
  BY <1>1 DEF RanksBefore
<1>6. TotalOrder(R, routes)
  BY <1>2, <1>3, <1>4, <1>5 DEF TotalOrder
<1>7. IsFiniteSet(routes)
  BY PathsFinite, FS_Subset
<1> QED
  BY <1>6, <1>7, InOrderLists DEF Rank, R

LEMMA RankAnswersKeepsCover ==
  ASSUME WorkInv, CoverInv, RankAnswers
  PROVE  CoverInv'
<1>1. pc' = "returned" /\ outcome' \in {"error", "ranked"} /\ UNCHANGED channel
  BY DEF RankAnswers, Fail, workerVars
<1> QED
  BY <1>1 DEF CoverInv, SentAreQuoted, NoneLost, AllSeen, Quoting
------------------------------------------------------------------------------
(* What a one-shot search keeps, and answers with *)

\* A step that neither serves nor keeps anything.
LEMMA IdleKeepsServe ==
  ASSUME ServeInv, UNCHANGED <<cfg, chunk, serving, kept, worker>>, pc' = "ranking" => pc = "ranking",
         AnswersExact'
  PROVE  ServeInv'
<1>1. ServeTypes' /\ ChunksServe' /\ KeptServe'
  BY DEF ServeInv, ServeTypes, ChunksServe, KeptServe, KeptFor, RoutesOf, UpToCap, OneShot
<1>2. NoneUnserved'
  <2>1. ASSUME NEW i, NEW p
        PROVE  Waiting(i, p)' <=> Waiting(i, p)
    BY DEF Waiting, InChunk, ToServe
  <2>2. \A i : RoutesOf(i)' = RoutesOf(i)
    BY DEF RoutesOf, UpToCap
  <2> QED
    BY <2>1, <2>2 DEF ServeInv, NoneUnserved, NoPanic
<1> QED
  BY <1>1, <1>2 DEF ServeInv

LEMMA SameAnswers ==
  ASSUME AnswersExact, UNCHANGED <<cfg, outcome, answers>>
  PROVE  AnswersExact'
BY DEF AnswersExact, RoutesOf, UpToCap

\* A step of a worker.
LEMMA WorkKeepsServe ==
  ASSUME ServeInv, UNCHANGED <<searchVars, pc>>,
         serving' \in [Threads -> Seq(DOMAIN cfg.requests)], ~OneShot(cfg) => serving' = serving,
         OneShot(cfg) =>
           \A t \in Threads : chunk'[t] # <<>> =>
             serving'[t] # <<>> /\ ToSet(chunk'[t]) \subseteq ToSet(RoutesOf(Head(serving'[t]))),
         \A q \in kept' : KeptFor(q),
         (pc = "ranking" /\ NoPanic') =>
           /\ NoPanic
           /\ \A t \in Threads : worker'[t] # "running" =>
                Len(serving'[t]) <= 1 \/ (worker[t] # "running" /\ serving'[t] = serving[t])
           /\ \A i \in DOMAIN cfg.requests : \A p \in ToSet(RoutesOf(i)) :
                Waiting(i, p) /\ AmountOf(p) # 0 => Waiting(i, p)'
  PROVE  ServeInv'
<1>1. UNCHANGED <<cfg, answers, outcome, pc>>
  BY DEF searchVars
<1>2. \A i : RoutesOf(i)' = RoutesOf(i)
  BY <1>1 DEF RoutesOf, UpToCap
<1>3. ServeTypes'
  BY <1>1 DEF ServeInv, ServeTypes, OneShot
<1>4. ChunksServe'
  BY <1>1 DEF ChunksServe, RoutesOf, UpToCap, OneShot
<1>5. KeptServe'
  BY <1>1 DEF KeptServe, KeptFor, RoutesOf, UpToCap
<1>6. NoneUnserved'
  <2> SUFFICES ASSUME pc = "ranking", NoPanic'
               PROVE  NoneUnserved'
    BY <1>1 DEF NoneUnserved
  <2>1. /\ \A t \in Threads : worker[t] # "running" => Len(serving[t]) <= 1
        /\ \A i \in DOMAIN cfg.requests : \A p \in ToSet(RoutesOf(i)) : AmountOf(p) = 0 \/ Waiting(i, p)
    BY DEF ServeInv, NoneUnserved
  <2>2. \A t \in Threads : worker'[t] # "running" => Len(serving'[t]) <= 1
    BY <2>1
  <2>3. \A i \in DOMAIN cfg.requests : \A p \in ToSet(RoutesOf(i)) : AmountOf(p) = 0 \/ Waiting(i, p)'
    BY <2>1
  <2> QED
    BY <1>1, <1>2, <2>2, <2>3 DEF NoneUnserved
<1>7. AnswersExact'
  BY <1>1, SameAnswers DEF ServeInv
<1> QED
  BY <1>3, <1>4, <1>5, <1>6, <1>7 DEF ServeInv

\* The routes are handed out with the requests they are for.
LEMMA StartKeepsServe ==
  ASSUME WorkInv, StateInv, ServeInv, StartParallel \/ StartBatch
  PROVE  ServeInv'
<1>1. /\ OneShot(cfg) /\ pc' = "ranking" /\ serving' \in [Threads -> Seq(DOMAIN cfg.requests)]
      /\ worker' = [t \in Threads |-> IF serving'[t] # <<>> THEN "running" ELSE "idle"]
      /\ UNCHANGED <<searchVars, kept>>
      /\ \A t \in Threads : chunk'[t] # <<>> =>
           serving'[t] # <<>> /\ ToSet(chunk'[t]) \subseteq ToSet(RoutesOf(Head(serving'[t])))
      /\ \A i \in DOMAIN cfg.requests : \A p \in ToSet(RoutesOf(i)) : \E t \in Threads :
           \/ serving'[t] # <<>> /\ Head(serving'[t]) = i /\ p \in ToSet(chunk'[t])
           \/ \E j \in 2 .. Len(serving'[t]) : serving'[t][j] = i
  BY StartHandsOut
<1>2. UNCHANGED <<cfg, outcome, answers>>
  BY <1>1 DEF searchVars
<1>3. \A i : RoutesOf(i)' = RoutesOf(i)
  BY <1>2 DEF RoutesOf, UpToCap
<1>4. ServeTypes' /\ KeptServe'
  BY <1>1, <1>2 DEF ServeInv, ServeTypes, KeptServe, KeptFor, RoutesOf, UpToCap, OneShot
<1>5. ChunksServe'
  BY <1>1, <1>2 DEF ChunksServe, RoutesOf, UpToCap
<1>6. NoneUnserved'
  <2>1. \A t \in Threads : worker'[t] # "running" => Len(serving'[t]) <= 1
    BY <1>1
  <2>2. \A i \in DOMAIN cfg.requests : \A p \in ToSet(RoutesOf(i)) : Waiting(i, p)'
    BY <1>1 DEF Waiting, InChunk, ToServe
  <2> QED
    BY <1>2, <1>3, <2>1, <2>2 DEF NoneUnserved
<1>7. AnswersExact'
  BY <1>2, SameAnswers DEF ServeInv
<1> QED
  BY <1>4, <1>5, <1>6, <1>7 DEF ServeInv

\* A streaming search serves no request.
LEMMA StreamingKeepsServe ==
  ASSUME ServeInv, ~OneShot(cfg), UNCHANGED <<cfg, outcome, answers, serving, kept>>, pc' # "ranking"
  PROVE  ServeInv'
<1>1. ServeTypes' /\ ChunksServe' /\ KeptServe'
  BY DEF ServeInv, ServeTypes, ChunksServe, KeptServe, KeptFor, RoutesOf, UpToCap, OneShot
<1>2. NoneUnserved' /\ AnswersExact'
  BY SameAnswers DEF ServeInv, NoneUnserved
<1> QED
  BY <1>1, <1>2 DEF ServeInv

\* A worker drops the first route of its chunk, which has no quote or is kept.
LEMMA NextPathKeepsServe ==
  ASSUME WorkInv, ServeInv, NEW t \in Threads, chunk[t] # <<>>, NextPath(t), UNCHANGED <<searchVars, pc, serving>>,
         kept \subseteq kept', \A q \in kept' : KeptFor(q),
         OneShot(cfg) => UNCHANGED worker,
         \/ AmountOf(Head(chunk[t])) = 0 \/ ~OneShot(cfg)
         \/ <<Head(serving[t]), Head(chunk[t])>> \in kept'
  PROVE  ServeInv'
<1> DEFINE p == Head(chunk[t])
<1>1. /\ ToSet(chunk[t]) = {p} \cup ToSet(chunk'[t])
      /\ \A u \in Threads \ {t} : chunk'[u] = chunk[u]
  BY NextPathMoves
<1>2. serving' \in [Threads -> Seq(DOMAIN cfg.requests)]
  BY DEF ServeInv, ServeTypes
<1> HIDE DEF p
<1>3. OneShot(cfg) =>
        \A u \in Threads : chunk'[u] # <<>> =>
          serving'[u] # <<>> /\ ToSet(chunk'[u]) \subseteq ToSet(RoutesOf(Head(serving'[u])))
  <2> SUFFICES ASSUME OneShot(cfg), NEW u \in Threads, chunk'[u] # <<>>
               PROVE  serving[u] # <<>> /\ ToSet(chunk'[u]) \subseteq ToSet(RoutesOf(Head(serving[u])))
    OBVIOUS
  <2>1. \A v \in Threads : chunk[v] # <<>> =>
          serving[v] # <<>> /\ ToSet(chunk[v]) \subseteq ToSet(RoutesOf(Head(serving[v])))
    BY DEF ServeInv, ChunksServe
  <2>2. chunk[u] # <<>> /\ ToSet(chunk'[u]) \subseteq ToSet(chunk[u])
    BY <1>1
  <2> QED
    BY <2>1, <2>2
<1>4. ASSUME pc = "ranking", NEW i \in DOMAIN cfg.requests, NEW q \in ToSet(RoutesOf(i)),
             Waiting(i, q), AmountOf(q) # 0
      PROVE  Waiting(i, q)'
  <2>1. OneShot(cfg)
    BY <1>4 DEF WorkInv, SearchTypes
  <2>2. CASE <<i, q>> \in kept \/ ToServe(i)
    BY <2>2 DEF Waiting, ToServe
  <2>3. CASE InChunk(i, q)
    <3>1. PICK u \in Threads : serving[u] # <<>> /\ Head(serving[u]) = i /\ q \in ToSet(chunk[u])
      BY <2>3 DEF InChunk
    <3>2. CASE q \in ToSet(chunk'[u])
      BY <3>1, <3>2 DEF Waiting, InChunk
    <3>3. CASE q \notin ToSet(chunk'[u])
      <4>1. u = t /\ q = p
        BY <1>1, <3>1, <3>3
      <4>2. <<i, q>> \in kept'
        BY <1>4, <2>1, <3>1, <4>1 DEF p
      <4> QED
        BY <4>2 DEF Waiting
    <3> QED
      BY <3>2, <3>3
  <2> QED
    BY <1>4, <2>2, <2>3 DEF Waiting
<1>5. ASSUME pc = "ranking", NoPanic'
      PROVE  /\ NoPanic
             /\ \A u \in Threads : worker'[u] # "running" => worker[u] # "running" /\ serving'[u] = serving[u]
  <2>1. UNCHANGED worker
    BY <1>5 DEF WorkInv, SearchTypes
  <2> QED
    BY <1>5, <2>1 DEF NoPanic
<1> QED
  BY <1>2, <1>3, <1>4, <1>5, WorkKeepsServe

LEMMA HopDoneKeepsServe ==
  ASSUME WorkInv, ServeInv, NEW t \in Threads, HopDone(t)
  PROVE  ServeInv'
<1>1. /\ reply[t] # <<>> /\ chunk[t] # <<>> /\ UNCHANGED <<searchVars, pc, worker, serving, kept>>
      /\ (reply[t][2] = 0 /\ NextPath(t)) \/ UNCHANGED chunk
  BY DEF HopDone, coordinatorIdle, serviceVars
<1>2. CASE UNCHANGED chunk
  BY <1>1, <1>2, IdleKeepsServe, SameAnswers DEF ServeInv, searchVars
<1>3. CASE reply[t][2] = 0 /\ NextPath(t)
  <2>1. AmountOf(Head(chunk[t])) = 0
    BY <1>1, <1>3, RouteFailed
  <2>2. \A q \in kept' : KeptFor(q)
    BY <1>1 DEF ServeInv, KeptServe
  <2> QED
    BY <1>1, <1>3, <2>1, <2>2, NextPathKeepsServe
<1> QED
  BY <1>1, <1>2, <1>3

LEMMA SendQuoteKeepsServe ==
  ASSUME WorkInv, ServeInv, NEW t \in Threads, SendQuote(t)
  PROVE  ServeInv'
<1> DEFINE i == Head(serving[t])
           p == Head(chunk[t])
<1>1. /\ reply[t] # <<>> /\ chunk[t] # <<>> /\ reply[t][2] # 0 /\ hop[t] = Len(PathKeys[p])
      /\ NextPath(t) /\ UNCHANGED <<searchVars, pc, serving>>
      /\ OneShot(cfg) => UNCHANGED worker
      /\ kept' = IF OneShot(cfg) THEN kept \cup {<<i, p>>} ELSE kept
  BY DEF SendQuote, coordinatorIdle
<1>2. \A q \in kept : KeptFor(q)
  BY DEF ServeInv, KeptServe
<1>3. ASSUME OneShot(cfg)
      PROVE  KeptFor(<<i, p>>)
  <2>1. AmountOf(p) # 0
    BY <1>1, RouteQuoted
  <2>2. p \in ToSet(chunk[t])
    BY <1>1, NextPathMoves
  <2>3. serving[t] # <<>> /\ p \in ToSet(RoutesOf(i))
    BY <1>1, <1>3, <2>2 DEF ServeInv, ChunksServe
  <2>4. i \in DOMAIN cfg.requests
    BY <2>3 DEF ServeInv, ServeTypes
  <2> HIDE DEF i, p
  <2> QED
    BY <2>1, <2>3, <2>4 DEF KeptFor
<1>4. \A q \in kept' : KeptFor(q)
  BY <1>1, <1>2, <1>3
<1>5. kept \subseteq kept' /\ (~OneShot(cfg) \/ <<i, p>> \in kept')
  BY <1>1
<1> QED
  BY <1>1, <1>4, <1>5, NextPathKeepsServe

LEMMA NextRequestKeepsServe ==
  ASSUME WorkInv, ServeInv, NEW t \in Threads, NextRequest(t), OneShot(cfg)
  PROVE  ServeInv'
<1> DEFINE next == serving[t][2]
<1>1. /\ worker[t] = "running" /\ chunk[t] = <<>> /\ Len(serving[t]) > 1
      /\ serving' = [serving EXCEPT ![t] = Tail(serving[t])]
      /\ chunk' = [chunk EXCEPT ![t] = RoutesOf(next)]
      /\ UNCHANGED <<searchVars, pc, worker, kept>>
  BY DEF NextRequest, coordinatorIdle
<1>2. serving \in [Threads -> Seq(DOMAIN cfg.requests)] /\ chunk \in [Threads -> Seq(Paths)]
  BY DEF WorkInv, SearchTypes, ServeInv, ServeTypes
<1>3. /\ Tail(serving[t]) \in Seq(DOMAIN cfg.requests) /\ Tail(serving[t]) # <<>>
      /\ Head(Tail(serving[t])) = next
      /\ \A j \in 3 .. Len(serving[t]) : /\ j - 1 \in 2 .. Len(Tail(serving[t]))
                                         /\ Tail(serving[t])[j - 1] = serving[t][j]
  <2>1. PICK q : q = serving[t]
    OBVIOUS
  <2>2. q \in Seq(DOMAIN cfg.requests) /\ Len(q) \in Nat /\ Len(q) > 1
    BY <1>1, <1>2, <2>1
  <2>3. /\ Tail(q) \in Seq(DOMAIN cfg.requests) /\ Len(Tail(q)) = Len(q) - 1 /\ Tail(q) # <<>>
        /\ \A j \in 1 .. (Len(q) - 1) : Tail(q)[j] = q[j + 1]
    <3>1. q # <<>>
      BY <2>2
    <3>2. Tail(q) \in Seq(DOMAIN cfg.requests) /\ Len(Tail(q)) = Len(q) - 1
      BY <2>2, <3>1
    <3>3. \A j \in 1 .. (Len(q) - 1) : Tail(q)[j] = q[j + 1]
      BY <2>2, <3>1
    <3>4. Tail(q) # <<>>
      <4>1. Len(Tail(q)) # 0
        <5>1. PICK m, k : m = Len(q) /\ k = Len(Tail(q))
          OBVIOUS
        <5>2. m \in Nat /\ m > 1 /\ k = m - 1
          BY <2>2, <3>2, <5>1, Zenon
        <5>3. k # 0
          BY <5>2
        <5> QED
          BY <5>1, <5>3, Zenon
      <4>2. Len(<<>>) = 0
        OBVIOUS
      <4> QED
        BY <4>1, <4>2, Zenon
    <3> QED
      BY <3>2, <3>3, <3>4
  <2>4. Head(Tail(q)) = Tail(q)[1] /\ 1 \in 1 .. (Len(q) - 1)
    BY <2>2, <2>3
  <2>5. Head(Tail(q)) = q[2]
    BY <2>3, <2>4
  <2>6. ASSUME NEW j \in 3 .. Len(q)
        PROVE  j - 1 \in 2 .. Len(Tail(q)) /\ Tail(q)[j - 1] = q[j]
    <3>1. j - 1 \in 1 .. (Len(q) - 1) /\ (j - 1) + 1 = j /\ j - 1 \in 2 .. Len(Tail(q))
      BY <2>2, <2>3
    <3> QED
      BY <2>3, <3>1
  <2> QED
    BY <2>1, <2>3, <2>5, <2>6
<1>4. /\ serving'[t] = Tail(serving[t]) /\ chunk'[t] = RoutesOf(next)
      /\ \A u \in Threads \ {t} : serving'[u] = serving[u] /\ chunk'[u] = chunk[u]
      /\ serving' \in [Threads -> Seq(DOMAIN cfg.requests)]
  BY <1>1, <1>2, <1>3
<1>5. \A u \in Threads : chunk'[u] # <<>> =>
        serving'[u] # <<>> /\ ToSet(chunk'[u]) \subseteq ToSet(RoutesOf(Head(serving'[u])))
  BY <1>3, <1>4 DEF ServeInv, ChunksServe
<1>6. \A q \in kept' : KeptFor(q)
  BY <1>1 DEF ServeInv, KeptServe
<1>7. ASSUME NEW i \in DOMAIN cfg.requests, NEW p \in ToSet(RoutesOf(i)), Waiting(i, p)
      PROVE  Waiting(i, p)'
  <2>1. CASE <<i, p>> \in kept
    BY <1>1, <2>1 DEF Waiting
  <2>2. CASE InChunk(i, p)
    <3>1. PICK u \in Threads : serving[u] # <<>> /\ Head(serving[u]) = i /\ p \in ToSet(chunk[u])
      BY <2>2 DEF InChunk
    <3>2. u # t
      BY <1>1, <3>1 DEF ToSet
    <3> QED
      BY <1>4, <3>1, <3>2 DEF Waiting, InChunk
  <2>3. CASE ToServe(i)
    <3>0. PICK u \in Threads : \E k \in 2 .. Len(serving[u]) : serving[u][k] = i
      BY <2>3 DEF ToServe
    <3>1. PICK j \in 2 .. Len(serving[u]) : serving[u][j] = i
      BY <3>0
    <3>2. CASE u # t
      BY <1>4, <3>1, <3>2 DEF Waiting, ToServe
    <3>3. CASE u = t /\ j = 2
      <4>1. serving'[t] # <<>> /\ Head(serving'[t]) = i /\ p \in ToSet(chunk'[t])
        BY <1>3, <1>4, <3>1, <3>3
      <4> QED
        BY <4>1 DEF Waiting, InChunk
    <3>4. CASE u = t /\ j # 2
      <4>1. j \in 3 .. Len(serving[t])
        BY <3>1, <3>4
      <4>2. j - 1 \in 2 .. Len(serving'[t]) /\ serving'[t][j - 1] = i
        BY <1>3, <1>4, <3>1, <3>4, <4>1
      <4> QED
        BY <4>2 DEF Waiting, ToServe
    <3> QED
      BY <3>2, <3>3, <3>4
  <2> QED
    BY <1>7, <2>1, <2>2, <2>3 DEF Waiting
<1>8. /\ NoPanic' => NoPanic
      /\ \A u \in Threads : worker'[u] # "running" => worker[u] # "running" /\ serving'[u] = serving[u]
  BY <1>1, <1>4 DEF NoPanic
<1> HIDE DEF next
<1> QED
  BY <1>1, <1>4, <1>5, <1>6, <1>7, <1>8, WorkKeepsServe

LEMMA WorkerEndsKeepsServe ==
  ASSUME WorkInv, ServeInv, NEW t \in Threads, WorkerEnds(t)
  PROVE  ServeInv'
<1>1. /\ worker' = [worker EXCEPT ![t] = "ended"] /\ worker[t] = "running" /\ Len(serving[t]) <= 1
      /\ UNCHANGED <<searchVars, pc, chunk, serving, kept>>
  BY DEF WorkerEnds, coordinatorIdle, serviceVars
<1>2. worker \in [Threads -> {"idle", "running", "ended", "panicked"}]
  BY DEF WorkInv, SearchTypes
<1>3. /\ NoPanic' => NoPanic
      /\ \A u \in Threads : worker'[u] # "running" =>
           Len(serving'[u]) <= 1 \/ (worker[u] # "running" /\ serving'[u] = serving[u])
  BY <1>1, <1>2 DEF NoPanic
<1>4. ASSUME NEW i, NEW p
      PROVE  Waiting(i, p)' <=> Waiting(i, p)
  BY <1>1 DEF Waiting, InChunk, ToServe
<1>5. /\ serving' \in [Threads -> Seq(DOMAIN cfg.requests)] /\ \A q \in kept' : KeptFor(q)
      /\ OneShot(cfg) =>
           \A u \in Threads : chunk'[u] # <<>> =>
             serving'[u] # <<>> /\ ToSet(chunk'[u]) \subseteq ToSet(RoutesOf(Head(serving'[u])))
  BY <1>1 DEF ServeInv, ServeTypes, ChunksServe, KeptServe
<1> QED
  BY <1>1, <1>3, <1>4, <1>5, WorkKeepsServe

LEMMA PanicsKeepsServe ==
  ASSUME WorkInv, ServeInv, NEW t \in Threads, WorkerPanics(t)
  PROVE  ServeInv'
<1>1. /\ worker' = [worker EXCEPT ![t] = "panicked"] /\ chunk' = [chunk EXCEPT ![t] = <<>>]
      /\ UNCHANGED <<searchVars, pc, serving, kept>>
  BY DEF WorkerPanics, coordinatorIdle, serviceVars
<1>2. ~NoPanic'
  BY <1>1 DEF NoPanic, WorkInv, SearchTypes
<1>3. /\ chunk'[t] = <<>> /\ \A u \in Threads \ {t} : chunk'[u] = chunk[u]
  BY <1>1 DEF WorkInv, SearchTypes
<1>4. /\ serving' \in [Threads -> Seq(DOMAIN cfg.requests)] /\ \A q \in kept' : KeptFor(q)
      /\ OneShot(cfg) =>
           \A u \in Threads : chunk'[u] # <<>> =>
             serving'[u] # <<>> /\ ToSet(chunk'[u]) \subseteq ToSet(RoutesOf(Head(serving'[u])))
  BY <1>1, <1>3 DEF ServeInv, ServeTypes, ChunksServe, KeptServe
<1> QED
  BY <1>1, <1>2, <1>4, WorkKeepsServe

\* The workers together return a result for each request.
LEMMA AllServed ==
  ASSUME WorkInv, pc = "ranking"
  PROVE  Served = DOMAIN cfg.requests
<1>1. cfg \in Settings /\ cfg.requests \in Seq(Seq(Paths))
  BY SettingsValid DEF WorkInv, SearchTypes
<1>2. CASE cfg.completion = "parallel"
  <2>1. Len(cfg.requests) = 1
    BY <1>1, <1>2, SettingsValid
  <2>2. DOMAIN cfg.requests = {1}
    BY <1>1, <2>1
  <2> QED
    BY <1>2, <2>2 DEF Served
<1>3. CASE cfg.completion # "parallel"
  <2> DEFINE indexes == [i \in DOMAIN cfg.requests |-> i]
             split == SplitIndexedItems(cfg.requests)
  <2>1. indexes \in Seq(DOMAIN cfg.requests) /\ ToSet(indexes) = DOMAIN cfg.requests
    <3>1. DOMAIN cfg.requests = 1 .. Len(cfg.requests) /\ Len(cfg.requests) \in Nat
      BY <1>1
    <3>2. indexes \in Seq(DOMAIN cfg.requests)
      BY <3>1
    <3> QED
      BY <3>2 DEF ToSet
  <2>2. split = SplitPaths(indexes)
    BY DEF SplitIndexedItems
  <2> HIDE DEF indexes, split
  <2>3. /\ \A t \in Threads : ToSet(split[t]) \subseteq DOMAIN cfg.requests
        /\ \A i \in DOMAIN cfg.requests : \E t \in Threads : i \in ToSet(split[t])
    BY <2>1, <2>2, SplitPathsSplits
  <2>4. Served = UNION {ToSet(split[t]) : t \in Threads}
    BY <1>3 DEF Served, split
  <2> QED
    BY <2>3, <2>4
<1> QED
  BY <1>2, <1>3

LEMMA RankAnswersKeepsServe ==
  ASSUME WorkInv, StateInv, CoverInv, ServeInv, RankAnswers
  PROVE  ServeInv'
<1>1. /\ pc = "ranking" /\ pc' = "returned" /\ \A t \in Threads : worker[t] # "running"
      /\ UNCHANGED <<cfg, chunk, serving>>
  BY DEF RankAnswers, Fail, workerVars, serviceVars
<1>2. ~cancelled /\ cfg \in Settings /\ cfg.requests \in Seq(Seq(Paths))
  BY <1>1, SettingsValid DEF WorkInv, SearchTypes
<1>3. kept' \subseteq kept
  BY DEF RankAnswers, Fail, workerVars, serviceVars
<1>4. ServeTypes' /\ ChunksServe'
  BY <1>1 DEF ServeInv, ServeTypes, ChunksServe, RoutesOf, UpToCap, OneShot
<1>5. KeptServe'
  BY <1>1, <1>3 DEF ServeInv, KeptServe, KeptFor, RoutesOf, UpToCap
<1>6. NoneUnserved'
  BY <1>1 DEF NoneUnserved
<1>7. AnswersExact'
  <2>1. CASE Panics > 0
    <3>1. outcome' = "error"
      BY <2>1 DEF RankAnswers, Fail
    <3> QED
      BY <3>1 DEF AnswersExact
  <2>2. CASE ~(Panics > 0)
    <3>1. answers' = CollectOrdered(Results) /\ NoPanic
      BY <2>2, NoPanics DEF RankAnswers
    <3> DEFINE n == Len(cfg.requests)
               mine(i) == {q[2] : q \in {r \in kept : r[1] = i}}
               f == [i \in 1 .. n |-> Rank(mine(i))]
    <3>2. n \in Nat /\ DOMAIN cfg.requests = 1 .. n
      BY <1>2
    <3>3. Results = {<<i, f[i]>> : i \in 1 .. n}
      <4>1. Results = {<<i, Rank(mine(i))>> : i \in 1 .. n}
        BY <1>1, <3>2, AllServed DEF Results
      <4> HIDE DEF mine
      <4> QED
        BY <4>1
    <3> HIDE DEF f, n
    <3>4. PICK S, g, m : S = Results /\ g = f /\ m = n
      OBVIOUS
    <3>5. DOMAIN CollectOrdered(S) = 1 .. m /\ \A i \in 1 .. m : CollectOrdered(S)[i] = g[i]
      <4>1. m \in Nat /\ S = Tagged(g, m)
        BY <3>2, <3>3, <3>4 DEF Tagged
      <4> QED
        BY <4>1, CollectOrderedPlaces
    <3>6. DOMAIN answers' = 1 .. n /\ \A i \in 1 .. n : answers'[i] = f[i]
      BY <3>1, <3>4, <3>5
    <3>7. ASSUME NEW i \in DOMAIN cfg.requests
          PROVE  ToSet(answers'[i]) = {p \in ToSet(RoutesOf(i)) : AmountOf(p) # 0}
      <4>1. answers'[i] = Rank(mine(i))
        BY <3>2, <3>6 DEF f
      <4>2. \A p \in ToSet(RoutesOf(i)) : AmountOf(p) = 0 \/ Waiting(i, p)
        BY <1>1, <3>1 DEF ServeInv, NoneUnserved
      <4>3. \A t \in Threads : chunk[t] = <<>> /\ Len(serving[t]) <= 1
        BY <1>1, <1>2, <3>1 DEF CoverInv, NoneLost, Quoting, ServeInv, NoneUnserved
      <4>4. \A p : Waiting(i, p) => <<i, p>> \in kept
        <5>1. ToSet(<<>>) = {}
          BY DEF ToSet
        <5>2. \A t \in Threads : Len(serving[t]) \in Nat
          BY DEF ServeInv, ServeTypes
        <5> QED
          BY <4>3, <5>1, <5>2 DEF Waiting, InChunk, ToServe
      <4>5. \A q \in kept : q[1] = i => q = <<i, q[2]>> /\ q[2] \in ToSet(RoutesOf(i)) /\ AmountOf(q[2]) # 0
        BY DEF ServeInv, KeptServe, KeptFor
      <4>6. mine(i) = {p \in ToSet(RoutesOf(i)) : AmountOf(p) # 0}
        <5>1. ASSUME NEW p \in ToSet(RoutesOf(i)), AmountOf(p) # 0
              PROVE  p \in mine(i)
          <6>1. <<i, p>> \in {r \in kept : r[1] = i}
            BY <4>2, <4>4, <5>1
          <6>2. p = <<i, p>>[2]
            OBVIOUS
          <6> QED
            BY <6>1, <6>2
        <5>2. ASSUME NEW p \in mine(i)
              PROVE  p \in ToSet(RoutesOf(i)) /\ AmountOf(p) # 0
          BY <4>5
        <5> HIDE DEF mine
        <5> QED
          BY <5>1, <5>2
      <4>7. mine(i) \in SUBSET Paths
        <5>1. RoutesOf(i) \in Seq(Paths)
          BY <1>2, RoutesOfType
        <5>2. ToSet(RoutesOf(i)) \subseteq Paths
          BY <5>1 DEF ToSet
        <5> QED
          BY <4>6, <5>2
      <4> HIDE DEF mine
      <4>8. ToSet(Rank(mine(i))) = mine(i)
        <5>1. PICK M : M = mine(i)
          OBVIOUS
        <5>2. ToSet(Rank(M)) = M
          BY <4>7, <5>1, RankLists
        <5> QED
          BY <5>1, <5>2
      <4> QED
        BY <4>1, <4>6, <4>8
    <3>8. DOMAIN answers' = DOMAIN cfg.requests
      BY <3>2, <3>6
    <3> QED
      BY <1>1, <3>7, <3>8 DEF AnswersExact, RoutesOf, UpToCap
  <2> QED
    BY <2>1, <2>2
<1> QED
  BY <1>4, <1>5, <1>6, <1>7 DEF ServeInv
------------------------------------------------------------------------------
(* The theorems *)

LEMMA InitIInv == Init => IInv
<1> SUFFICES ASSUME Init
             PROVE  IInv
  OBVIOUS
<1>1. /\ cfg \in Settings /\ pc = "start" /\ quoted = {} /\ channel = <<>> /\ ~cancelled
      /\ cancelled \in BOOLEAN /\ told = 0 /\ refused = FALSE /\ outcome = "none"
      /\ chunk = [t \in Threads |-> <<>>] /\ hop = [t \in Threads |-> 1]
      /\ worker = [t \in Threads |-> "idle"]
  BY DEF Init
<1>2. /\ entries = [k \in Keys |-> Absent] /\ indexed = {}
      /\ asking = [t \in Threads |-> Absent] /\ doing = [t \in Threads |-> "idle"]
      /\ reply = [t \in Threads |-> <<>>]
  BY DEF Init, CacheInit
<1>3. <<>> \in Seq(Paths) /\ ToSet(<<>>) = {} /\ Distinct(<<>>)
  BY DEF ToSet, Distinct
<1>4. SearchTypes
  <2>1. chunk \in [Threads -> Seq(Paths)] /\ hop \in [Threads -> Nat \ {0}] /\ channel \in Seq(Paths)
    BY <1>1, <1>3
  <2> QED
    BY <1>1, <2>1 DEF SearchTypes, Locations, Early
<1>5. WorkInv
  BY <1>1, <1>2, <1>4 DEF WorkInv, WorkerInv
<1>6. CacheInv
  <2>1. CacheTypes
    BY <1>2 DEF CacheTypes
  <2>2. FlightInv
    BY <1>2 DEF FlightInv, Simulates, Absent, InFlight
  <2> QED
    BY <2>1, <2>2 DEF CacheInv
<1>7. ReportInv
  <2>1. PICK r \in BOOLEAN :
          st = [best |-> 0, heuristic |-> 0, top |-> <<>>, observed |-> 0, failed |-> 0, total |-> -1,
                completed |-> FALSE, released |-> r, finality |-> "none"]
    BY DEF Init
  <2>2. StateShape(st) /\ st.failed = 0 /\ st.best = 0 /\ st.observed = 0
    BY <2>1 DEF StateShape, StateFields
  <2>3. StateInv
    BY <1>1, <2>2 DEF StateInv
  <2>4. BestInv /\ CallerInv /\ FinalityInv
    BY <1>1, <2>1, <2>2 DEF BestInv, CallerInv, CallerKnowsBest, FinalityInv
  <2>5. EachRouteOnce
    BY <1>1, <2>2, FS_EmptySet DEF EachRouteOnce
  <2> QED
    BY <2>3, <2>4, <2>5 DEF ReportInv
<1>8. DisjointInv
  BY <1>1, <1>3 DEF DisjointInv
<1>9. CoverInv
  BY <1>1, <1>3 DEF CoverInv, SentAreQuoted, NoneLost, AllSeen, Quoting
<1>10. ServeInv
  <2>1. serving = [t \in Threads |-> <<>>] /\ kept = {}
    BY DEF Init
  <2>2. <<>> \in Seq(DOMAIN cfg.requests)
    OBVIOUS
  <2>3. ServeTypes /\ ChunksServe
    BY <1>1, <2>1, <2>2 DEF ServeTypes, ChunksServe
  <2>4. KeptServe /\ NoneUnserved /\ AnswersExact
    BY <1>1, <2>1 DEF KeptServe, NoneUnserved, AnswersExact
  <2> QED
    BY <2>3, <2>4 DEF ServeInv
<1> QED
  BY <1>5, <1>6, <1>7, <1>8, <1>9, <1>10 DEF IInv

\* The steps of the coordinating thread that touch neither the workers nor the cache.
LEMMA QuietKeepsIInv ==
  ASSUME IInv, NEW n \in Stops, QuietAction(n)
  PROVE  IInv'
<1>1. /\ WorkInv /\ CacheInv /\ ReportInv /\ DisjointInv /\ CoverInv /\ StateInv /\ SearchTypes
      /\ ServeInv
  BY DEF IInv, ReportInv, WorkInv
<1>2. QuietStep
  BY <1>1, QuietActionIsQuiet
<1>3. WorkInv' /\ ReportInv' /\ CoverInv'
  BY <1>1, <1>2, QuietKeepsWork, QuietKeepsReport, QuietKeepsCover
<1>4. UNCHANGED <<cfg, quoted, chunk, channel>> /\ UNCHANGED cacheVars
  BY <1>2 DEF QuietStep, workerVars
<1>5. ServeInv'
  <2>1. AnswersExact'
    BY <1>1, QuietOutcome DEF AnswersExact
  <2>2. UNCHANGED <<cfg, chunk, serving, kept, worker>> /\ (pc' = "ranking" => pc = "ranking")
    BY <1>2 DEF QuietStep, workerVars, serviceVars, Quoting
  <2> QED
    BY <1>1, <2>1, <2>2, IdleKeepsServe
<1> QED
  BY <1>1, <1>3, <1>4, <1>5, SameCacheKeepsCache, SamePlacesKeepDisjoint DEF IInv

\* One step per action; the steps of a worker leave what the caller was told alone.
LEMMA CoordinateKeepsIInv ==
  ASSUME IInv, Coordinate
  PROVE  IInv'
<1> USE DEF IInv
<1>1. StateInv /\ SearchTypes
  BY DEF ReportInv, WorkInv
<1>2. ASSUME NEW n \in Stops, QuietAction(n)
      PROVE  IInv'
  BY <1>2, QuietKeepsIInv
<1>3. ASSUME StartParallel \/ StartBatch
      PROVE  IInv'
  <2>1. /\ OneShot(cfg) /\ pc = "start" /\ pc' = "ranking"
        /\ UNCHANGED <<searchVars, cacheVars>>
    BY <1>3, StartHandsOut
  <2>2. WorkInv' /\ CoverInv' /\ CacheInv' /\ ServeInv'
    BY <1>1, <1>3, <2>1, StartKeepsWork, StartKeepsCover, SameCacheKeepsCache, StartKeepsServe
  <2>3. DisjointInv'
    BY <2>1 DEF DisjointInv, searchVars, OneShot
  <2>4. ReportInv'
    BY <2>1, SilentKeepsReport DEF searchVars, Early, Unstopped
  <2> QED
    BY <2>2, <2>3, <2>4
<1>4. CASE RankAnswers
  <2>1. WorkInv' /\ ReportInv' /\ CoverInv' /\ ServeInv'
    BY <1>1, <1>4, RankAnswersKeepsWork, RankAnswersKeepsReport, RankAnswersKeepsCover,
       RankAnswersKeepsServe
  <2>2. UNCHANGED <<cfg, cacheVars>> /\ pc = "ranking"
    BY <1>4 DEF RankAnswers, Fail
  <2>3. OneShot(cfg)'
    BY <1>1, <2>2 DEF SearchTypes, OneShot
  <2> QED
    BY <2>1, <2>2, <2>3, SameCacheKeepsCache DEF DisjointInv
<1>5. ASSUME NEW n \in Stops, NEW p \in Paths, HeuristicQuote(p, n)
      PROVE  IInv'
  <2>1. WorkInv' /\ ReportInv' /\ DisjointInv' /\ CoverInv'
    BY <1>1, <1>5, HeuristicQuoteKeepsWork, HeuristicQuoteKeepsReport, HeuristicQuoteKeepsDisjoint,
       HeuristicQuoteKeepsCover
  <2>2. Quoted(ToSet(PathKeys[p]))
    BY <1>5 DEF HeuristicQuote
  <2>3. ToSet(PathKeys[p]) \in SUBSET Keys
    BY PathKeysType DEF ToSet
  <2>4. ServeInv'
    <3>1. /\ UNCHANGED <<cfg, outcome, answers, chunk, serving, kept, worker>>
          /\ pc' \in {"heuristic", "heuristic over"}
      BY <1>5 DEF HeuristicQuote, workerVars, serviceVars
    <3> QED
      BY <3>1, IdleKeepsServe, SameAnswers DEF ServeInv
  <2> QED
    BY <2>1, <2>2, <2>3, <2>4, QuotedKeepsCache
<1>6. ASSUME NEW n \in Stops, Enumerate(n)
      PROVE  IInv'
  <2>1. WorkInv' /\ ReportInv' /\ DisjointInv' /\ CoverInv'
    BY <1>1, <1>6, EnumerateKeepsWork, EnumerateKeepsReport, EnumerateKeepsDisjoint, EnumerateKeepsCover
  <2>2. UNCHANGED cacheVars
    BY <1>6 DEF Enumerate
  <2>3. /\ ~OneShot(cfg) /\ UNCHANGED <<cfg, outcome, answers, serving, kept>> /\ pc' # "ranking"
    BY <1>1, <1>6 DEF Enumerate, SearchTypes, searchVars, workerVars, serviceVars
  <2> QED
    BY <2>1, <2>2, <2>3, SameCacheKeepsCache, StreamingKeepsServe
<1>7. ASSUME NEW n \in Stops, Receive(n)
      PROVE  IInv'
  <2>1. WorkInv' /\ DisjointInv' /\ CoverInv'
    BY <1>1, <1>7, ReceiveKeepsWork, ReceiveKeepsDisjoint, ReceiveKeepsCover
  <2>2. /\ ~OneShot(cfg) /\ Head(channel) \notin quoted /\ Head(channel) \in Paths
        /\ AmountOf(Head(channel)) # 0
    BY <1>1, <1>7, ReceiveKeepsDisjoint, ReceiveKeepsCover
  <2>3. /\ ObserveQuote(Head(channel), n) /\ quoted' = quoted \cup {Head(channel)}
        /\ UNCHANGED <<cfg, outcome, cacheVars, pc>> /\ pc = "workers"
    BY <1>7 DEF Receive
  <2>4. ReportInv'
    BY <1>1, <2>2, <2>3, ObserveQuoteKeepsReport DEF Unstopped
  <2>5. ServeInv'
    <3>1. UNCHANGED <<cfg, outcome, answers, chunk, serving, kept, worker>> /\ pc' # "ranking"
      BY <1>7 DEF Receive, serviceVars
    <3> QED
      BY <3>1, IdleKeepsServe, SameAnswers DEF ServeInv
  <2> QED
    BY <2>1, <2>3, <2>4, <2>5, SameCacheKeepsCache
<1> HIDE DEF IInv
<1>8. ASSUME Start
      PROVE  IInv'
  <2>1. 0 \in Stops
    BY DEF Stops
  <2>2. QuietAction(0)
    BY <1>8 DEF QuietAction
  <2> QED
    BY <1>2, <2>1, <2>2
<1> QED
  BY <1>2, <1>3, <1>4, <1>5, <1>6, <1>7, <1>8 DEF Coordinate, QuietAction

LEMMA WorkerKeepsIInv ==
  ASSUME IInv, NEW t \in Threads, Work(t) \/ WorkerPanics(t)
  PROVE  IInv'
<1>1. WorkInv /\ CacheInv /\ CacheTypes /\ ReportInv /\ DisjointInv /\ CoverInv /\ ServeInv
  BY DEF IInv, CacheInv
<1>2. UNCHANGED <<searchVars, pc>>
  BY DEF Work, WorkerPanics, AskHop, WorkerLookUp, WorkerSimulated, HopDone, SendQuote, NextRequest,
         WorkerEnds, coordinatorIdle
<1>3. ReportInv'
  BY <1>1, <1>2, SilentKeepsReport DEF searchVars
<1>4. UNCHANGED <<cfg, quoted>>
  BY <1>2 DEF searchVars
<1>5. ASSUME UNCHANGED workerVars
      PROVE  DisjointInv' /\ CoverInv' /\ ServeInv'
  <2>1. /\ UNCHANGED <<cfg, quoted, chunk, channel>>
        /\ UNCHANGED <<cfg, outcome, answers, chunk, serving, kept, worker, pc>>
    BY <1>2, <1>4, <1>5 DEF workerVars, serviceVars, searchVars
  <2>2. ServeInv'
    BY <1>1, <2>1, IdleKeepsServe, SameAnswers DEF ServeInv
  <2> QED
    BY <1>1, <1>2, <1>5, <2>1, <2>2, SamePlacesKeepDisjoint, SamePlacesKeepCover
<1>6. CASE AskHop(t)
  <2>1. UNCHANGED workerVars
    BY <1>6 DEF AskHop
  <2>2. WorkInv' /\ CacheInv'
    BY <1>1, <1>6, AskHopKeepsWork, AskHopKeepsCache
  <2> QED
    BY <1>3, <1>5, <2>1, <2>2 DEF IInv
<1>7. CASE WorkerLookUp(t)
  <2>1. UNCHANGED workerVars /\ LookUp(t)
    BY <1>7 DEF WorkerLookUp
  <2>2. WorkInv' /\ CacheInv'
    BY <1>1, <1>7, <2>1, LookUpKeepsWork, LookUpKeepsCache
  <2> QED
    BY <1>3, <1>5, <2>1, <2>2 DEF IInv
<1>8. CASE WorkerSimulated(t)
  <2>1. UNCHANGED workerVars /\ Simulated(t)
    BY <1>8 DEF WorkerSimulated
  <2>2. WorkInv' /\ CacheInv'
    BY <1>1, <1>8, <2>1, SimulatedKeepsWork, SimulatedKeepsCache
  <2> QED
    BY <1>3, <1>5, <2>1, <2>2 DEF IInv
<1>9. CASE HopDone(t)
  <2>1. Consumed(t) /\ UNCHANGED channel /\ chunk[t] # <<>> /\ (NextPath(t) \/ UNCHANGED chunk)
    BY <1>9 DEF HopDone
  <2>2. WorkInv' /\ CacheInv' /\ CoverInv' /\ ServeInv'
    BY <1>1, <1>9, <2>1, HopDoneKeepsWork, ConsumedKeepsCache, HopDoneKeepsCover, HopDoneKeepsServe
  <2>3. channel' \in {channel, Append(channel, Head(chunk[t]))}
    BY <2>1
  <2>4. DisjointInv'
    BY <1>1, <1>4, <2>1, <2>3, NextPathKeepsDisjoint, SamePlacesKeepDisjoint
  <2> QED
    BY <1>3, <2>2, <2>4 DEF IInv
<1>10. CASE SendQuote(t)
  <2>1. /\ Consumed(t) /\ NextPath(t) /\ chunk[t] # <<>>
        /\ channel' \in {channel, Append(channel, Head(chunk[t]))}
    BY <1>10 DEF SendQuote
  <2>2. WorkInv' /\ CacheInv' /\ CoverInv' /\ ServeInv'
    BY <1>1, <1>10, <2>1, SendQuoteKeepsWork, ConsumedKeepsCache, SendQuoteKeepsCover,
       SendQuoteKeepsServe
  <2>3. DisjointInv'
    BY <1>1, <1>4, <2>1, NextPathKeepsDisjoint
  <2> QED
    BY <1>3, <2>2, <2>3 DEF IInv
<1>11. CASE WorkerEnds(t)
  <2>1. UNCHANGED <<chunk, channel>> /\ UNCHANGED cacheVars
    BY <1>11 DEF WorkerEnds
  <2>2. WorkInv' /\ CacheInv' /\ CoverInv' /\ DisjointInv' /\ ServeInv'
    BY <1>1, <1>4, <1>11, <2>1, WorkerEndsKeepsWork, SameCacheKeepsCache, WorkerEndsKeepsCover,
       SamePlacesKeepDisjoint, WorkerEndsKeepsServe
  <2> QED
    BY <1>3, <2>2 DEF IInv
<1>12. CASE WorkerPanics(t)
  <2>1. Panicked(t)
    BY <1>12 DEF WorkerPanics
  <2>2. WorkInv' /\ CacheInv' /\ CoverInv' /\ DisjointInv' /\ ServeInv'
    BY <1>1, <1>12, <2>1, PanicsKeepsWork, PanickedKeepsCache, PanicsKeepsCover, PanicsKeepsDisjoint,
       PanicsKeepsServe
  <2> QED
    BY <1>3, <2>2 DEF IInv
<1>13. CASE NextRequest(t)
  <2>1. UNCHANGED cacheVars /\ ServeTypes
    BY <1>1, <1>13 DEF NextRequest, ServeInv
  <2>2. WorkInv' /\ CacheInv' /\ CoverInv' /\ OneShot(cfg)
    BY <1>1, <1>13, <2>1, NextRequestKeepsWork, SameCacheKeepsCache, NextRequestKeepsCover
  <2>3. DisjointInv'
    BY <1>4, <2>2 DEF DisjointInv, OneShot
  <2>4. ServeInv'
    BY <1>1, <1>13, <2>2, NextRequestKeepsServe
  <2> QED
    BY <1>3, <2>2, <2>3, <2>4 DEF IInv
<1> QED
  BY <1>6, <1>7, <1>8, <1>9, <1>10, <1>11, <1>12, <1>13 DEF Work

LEMMA StutterKeepsIInv ==
  ASSUME IInv, UNCHANGED vars
  PROVE  IInv'
<1>1. /\ UNCHANGED <<searchVars, pc, workerVars>> /\ UNCHANGED cacheVars
      /\ UNCHANGED <<cfg, quoted, chunk, channel>>
  BY DEF vars, searchVars, workerVars
<1>2. ReportInv' /\ CacheInv' /\ DisjointInv' /\ CoverInv'
  BY <1>1, SilentKeepsReport, SameCacheKeepsCache, SamePlacesKeepDisjoint, SamePlacesKeepCover
     DEF IInv, searchVars
<1>5. ServeInv'
  BY <1>1, IdleKeepsServe, SameAnswers DEF IInv, ServeInv, searchVars, workerVars, serviceVars
<1>3. SearchTypes'
  BY <1>1 DEF IInv, WorkInv, SearchTypes, searchVars, workerVars, OneShot
<1>4. ASSUME NEW t \in Threads
      PROVE  WorkerInv(t)'
  BY <1>1, SameWorker DEF IInv, WorkInv, cacheVars, workerVars
<1> QED
  BY <1>2, <1>3, <1>4, <1>5 DEF IInv, WorkInv

LEMMA StepKeepsIInv == IInv /\ [Next]_vars => IInv'
<1> SUFFICES ASSUME IInv, [Next]_vars
             PROVE  IInv'
  OBVIOUS
<1>1. CASE Cancel
  <2>1. 0 \in Stops /\ QuietAction(0)
    BY <1>1 DEF Stops, QuietAction
  <2> QED
    BY <2>1, QuietKeepsIInv
<1> QED
  BY <1>1, CoordinateKeepsIInv, WorkerKeepsIInv, StutterKeepsIInv DEF Next

\* Every state of a streaming, a parallel or a batch search keeps the inductive invariant.
THEOREM IInvAlways == Spec => []IInv
BY InitIInv, StepKeepsIInv, PTL DEF Spec

\* SharedQuoteCache::get_or_quote: for any number of threads and keys, and through any panics,
\* a key is in flight exactly while one thread simulates it and no two simulate the same key,
\* and keys_by_pool indexes exactly the entries there are.
THEOREM SingleFlightAlways == Spec => []SingleFlight
<1>1. IInv => SingleFlight
  <2> SUFFICES ASSUME IInv
               PROVE  SingleFlight
    OBVIOUS
  <2>1. indexed = {k \in Keys : entries[k] # Absent}
    BY DEF IInv, CacheInv, FlightInv
  <2>2. ASSUME NEW k \in Keys
        PROVE  Cardinality({t \in Threads : Simulates(t, k)}) = IF entries[k] = InFlight THEN 1 ELSE 0
    <3> DEFINE S == {t \in Threads : Simulates(t, k)}
    <3>1. /\ entries[k] = InFlight <=> \E t \in Threads : Simulates(t, k)
          /\ \A t, u \in Threads : Simulates(t, k) /\ Simulates(u, k) => t = u
      BY DEF IInv, CacheInv, FlightInv
    <3>2. CASE entries[k] = InFlight
      <4>1. PICK t \in Threads : Simulates(t, k)
        BY <3>1, <3>2
      <4>2. S = {t}
        BY <3>1, <4>1
      <4> HIDE DEF S
      <4>3. Cardinality(S) = 1
        BY <4>2, FS_Singleton
      <4> QED
        BY <3>2, <4>3 DEF S
    <3>3. CASE entries[k] # InFlight
      <4>1. S = {}
        BY <3>1, <3>3
      <4> QED
        BY <3>3, <4>1, FS_EmptySet
    <3> QED
      BY <3>2, <3>3
  <2> QED
    BY <2>1, <2>2 DEF SingleFlight, Simulates
<1> QED
  BY <1>1, IInvAlways, PTL

\* find_routes_exhaustive and the batch searches: a report that calls itself exhaustive saw
\* every route and names the best, and each request of a batch is answered, in its own place,
\* with every route that can be quoted for it and no other, however the requests were split
\* among the workers, in whatever order they are served and whatever routes they share.
THEOREM ExhaustiveIsExactAlways == Spec => []ExhaustiveIsExact
<1>1. IInv => ExhaustiveIsExact
  <2> SUFFICES ASSUME IInv
               PROVE  ExhaustiveIsExact
    OBVIOUS
  <2>1. ASSUME outcome = "exhaustive", cfg.cap = 0
        PROVE  /\ quoted = {p \in Paths : AmountOf(p) # 0}
               /\ st.best = Max({AmountOf(p) : p \in Paths})
    <3>1. /\ quoted \subseteq Paths /\ st.best \in Nat /\ st.best # 0
          /\ \A p \in Paths : AmountOf(p) = 0 \/ p \in quoted
      BY <2>1 DEF IInv, WorkInv, SearchTypes, ReportInv, StateInv, StateShape, CoverInv, AllSeen
    <3>2. /\ \A p \in quoted : AmountOf(p) # 0 /\ AmountOf(p) <= st.best
          /\ \E p \in quoted : AmountOf(p) = st.best
      BY <3>1 DEF IInv, ReportInv, BestInv
    <3> DEFINE amounts == {AmountOf(p) : p \in Paths}
    <3>3. amounts \subseteq Nat /\ st.best \in amounts /\ \A a \in amounts : st.best >= a
      BY <3>1, <3>2, AmountType
    <3> HIDE DEF amounts
    <3>4. \A x \in amounts : (\A y \in amounts : x >= y) => x = st.best
      BY <3>1, <3>3
    <3>5. Max(amounts) = st.best
      BY <3>3, <3>4 DEF Max
    <3> QED
      BY <3>1, <3>2, <3>5 DEF amounts
  <2>2. outcome = "ranked" =>
          /\ DOMAIN answers = DOMAIN cfg.requests
          /\ \A i \in DOMAIN cfg.requests :
               ToSet(answers[i]) = {p \in ToSet(RoutesOf(i)) : AmountOf(p) # 0}
    BY DEF IInv, ServeInv, AnswersExact
  <2> QED
    BY <2>1, <2>2 DEF ExhaustiveIsExact
<1> QED
  BY <1>1, IInvAlways, PTL

\* enumerate_routes_filtered, split_paths and the channel: whatever the heuristic phase quoted
\* and in whatever order the workers send, no route is observed twice.
THEOREM EachRouteOnceAlways == Spec => []EachRouteOnce
<1>1. IInv => EachRouteOnce
  BY DEF IInv, ReportInv
<1> QED
  BY <1>1, IInvAlways, PTL

\* StreamingRouteState and finish_stream_report: with the gate open and no stop policy's verdict
\* given, and in any case with the report returned, a caller that only listened to the events
\* was given the best route, unless it said stop itself or the search failed.
THEOREM CallerKnowsBestAlways == Spec => []CallerKnowsBest
<1>1. IInv => CallerKnowsBest
  BY DEF IInv, ReportInv, CallerInv
<1> QED
  BY <1>1, IInvAlways, PTL
------------------------------------------------------------------------------
(* The cache implements the memo *)

Ready == [k \in Keys |-> IF entries[k] >= 0 THEN entries[k] ELSE Absent]

\* A hit is answered; a miss and a sleep do not show.
LEMMA LookUpAnswers ==
  ASSUME WorkInv, CacheInv, NEW t \in Threads, LookUp(t)
  PROVE  (Ready' = Ready /\ reply' = reply) \/ \E k \in Keys : Memo!Answer(t, k)
<1>1. PICK k \in Keys : asking[t] = k
  <2>1. doing[t] = "lookup"
    BY DEF LookUp
  <2> QED
    BY <2>1, AskedKey
<1>2. CASE entries[k] >= 0 /\ Returned(t, entries[k]) /\ UNCHANGED entries
  <2>1. Ready' = Ready
    BY <1>2 DEF Ready
  <2>2. Ready[k] = entries[k] /\ Ready[k] # Absent
    BY <1>2 DEF Ready, Absent
  <2>3. Ready' = [Ready EXCEPT ![k] = IF Ready[k] = Absent THEN Outcome[k] ELSE Ready[k]]
    BY <2>1, <2>2 DEF Ready
  <2>4. reply' = [reply EXCEPT ![t] = <<k, Ready'[k]>>]
    BY <1>1, <1>2, <2>1, <2>2 DEF Returned
  <2>5. Memo!Answer(t, k)
    BY <2>3, <2>4 DEF Memo!Answer, Ready
  <2> QED
    BY <2>5
<1>3. CASE UNCHANGED <<entries, reply>>
  BY <1>3 DEF Ready
<1>4. CASE Misses(k) /\ entries' = [entries EXCEPT ![k] = InFlight] /\ UNCHANGED reply
  <2>1. \A l \in Keys : entries'[l] = entries[l] \/ (~(entries'[l] >= 0) /\ ~(entries[l] >= 0))
    BY <1>4 DEF CacheInv, CacheTypes, Misses, Absent, InFlight
  <2>2. Ready' = Ready
    BY <2>1 DEF Ready
  <2> QED
    BY <1>4, <2>2
<1> QED
  BY <1>1, <1>2, <1>3, <1>4 DEF LookUp

LEMMA SimulatedAnswers ==
  ASSUME WorkInv, CacheInv, NEW t \in Threads, Simulated(t)
  PROVE  \E k \in Keys : Memo!Answer(t, k)
<1>1. doing[t] = "simulating" /\ reply' = [reply EXCEPT ![t] = <<asking[t], Outcome[asking[t]]>>]
  BY DEF Simulated, Returned
<1>2. PICK k \in Keys : asking[t] = k
  BY <1>1, AskedKey
<1>3. entries[k] = InFlight
  BY <1>1, <1>2 DEF CacheInv, FlightInv, Simulates
<1>4. entries' = [entries EXCEPT ![k] = Outcome[k]] /\ Outcome[k] \in Nat
  BY <1>2, OutcomeType, SimulatedKeepsCache
<1>5. \A l \in Keys : entries'[l] = IF l = k THEN Outcome[k] ELSE entries[l]
  BY <1>4 DEF CacheInv, CacheTypes
<1>6. Ready[k] = Absent
  BY <1>3 DEF Ready, InFlight
<1>7. \A l \in Keys : Ready'[l] = IF l = k THEN Outcome[k] ELSE Ready[l]
  BY <1>4, <1>5 DEF Ready
<1>8. Ready = [l \in Keys |-> Ready[l]] /\ Ready' = [l \in Keys |-> Ready'[l]]
  BY DEF Ready
<1>9. Ready' = [Ready EXCEPT ![k] = IF Ready[k] = Absent THEN Outcome[k] ELSE Ready[k]]
  <2> HIDE DEF Ready
  <2> QED
    BY <1>6, <1>7, <1>8
<1>10. reply' = [reply EXCEPT ![t] = <<k, Ready'[k]>>]
  BY <1>1, <1>2, <1>7
<1>11. Memo!Answer(t, k)
  BY <1>9, <1>10 DEF Memo!Answer, Ready
<1> QED
  BY <1>11

LEMMA PanicIsHidden ==
  ASSUME WorkInv, CacheInv, NEW t \in Threads, Panicked(t)
  PROVE  Ready' = Ready /\ reply' = reply
<1>1. /\ doing[t] = "simulating" /\ entries' = [entries EXCEPT ![asking[t]] = Absent]
      /\ reply' = reply
  BY DEF Panicked
<1>2. asking[t] \in Keys
  BY <1>1, AskedKey
<1>3. entries[asking[t]] = InFlight
  BY <1>1, <1>2 DEF CacheInv, FlightInv, Simulates
<1>4. \A k \in Keys : entries'[k] = entries[k] \/ (~(entries'[k] >= 0) /\ ~(entries[k] >= 0))
  BY <1>1, <1>2, <1>3 DEF CacheInv, CacheTypes, Absent, InFlight
<1>5. Ready' = Ready
  BY <1>4 DEF Ready
<1> QED
  BY <1>1, <1>5

LEMMA QuotedRemembers ==
  ASSUME CacheInv, NEW S \in SUBSET Keys, Quoted(S)
  PROVE  Memo!Remember
<1>1. /\ entries' = [k \in Keys |-> IF k \in S /\ entries[k] = Absent THEN Outcome[k] ELSE entries[k]]
      /\ reply' = reply
  BY DEF Quoted
<1>2. CacheInv'
  BY QuotedKeepsCache
<1>3. \A k \in Keys : Outcome[k] \in Nat /\ entries[k] \in {Absent, InFlight, Outcome[k]}
  BY OutcomeType DEF CacheInv, FlightInv
<1>4. \A k \in Keys : Ready[k] = IF entries[k] >= 0 THEN entries[k] ELSE Absent
  BY DEF Ready
<1>5. \A k \in Keys : Ready'[k] = IF k \in S /\ entries[k] = Absent THEN Outcome[k] ELSE Ready[k]
  BY <1>1, <1>3 DEF Ready, Absent, InFlight
<1>6. \A k \in Keys : Ready[k] \in {Absent, Outcome[k]}
  BY <1>3, <1>4 DEF Absent, InFlight
<1>7. \A k \in Keys : Ready'[k] # Ready[k] => Ready[k] = Absent /\ Ready'[k] = Outcome[k]
  BY <1>4, <1>5 DEF Absent
<1>8. Ready' \in [Keys -> {Absent} \cup {Outcome[k] : k \in Keys}]
  <2>1. \A k \in Keys : Ready'[k] \in {Absent} \cup {Outcome[l] : l \in Keys}
    BY <1>5, <1>6
  <2>2. Ready' = [k \in Keys |-> Ready'[k]]
    BY DEF Ready
  <2> HIDE DEF Ready
  <2> QED
    BY <2>1, <2>2
<1> QED
  BY <1>1, <1>7, <1>8 DEF Memo!Remember, Ready

LEMMA StepOfMemo ==
  ASSUME IInv, [Next]_vars
  PROVE  [Memo!Next]_<<Ready, reply>>
<1>1. WorkInv /\ CacheInv /\ StateInv /\ SearchTypes
  BY DEF IInv, ReportInv, WorkInv
<1>2. ASSUME UNCHANGED cacheVars
      PROVE  Ready' = Ready /\ reply' = reply
  BY <1>2 DEF cacheVars, Ready
<1>3. ASSUME NEW n \in Stops, QuietAction(n)
      PROVE  Ready' = Ready /\ reply' = reply
  <2>1. QuietStep
    BY <1>1, <1>3, QuietActionIsQuiet
  <2> QED
    BY <1>2, <2>1 DEF QuietStep
<1>4. ASSUME NEW n \in Stops, NEW p \in Paths, HeuristicQuote(p, n)
      PROVE  Memo!Next
  <2>1. Quoted(ToSet(PathKeys[p]))
    BY <1>4 DEF HeuristicQuote
  <2>2. ToSet(PathKeys[p]) \in SUBSET Keys
    BY PathKeysType DEF ToSet
  <2>3. Memo!Remember
    BY <1>1, <2>1, <2>2, QuotedRemembers
  <2> QED
    BY <2>3 DEF Memo!Next
<1>5. ASSUME NEW n \in Stops, Enumerate(n) \/ Receive(n)
      PROVE  Ready' = Ready /\ reply' = reply
  BY <1>2, <1>5 DEF Enumerate, Receive
<1>6. ASSUME StartParallel \/ StartBatch \/ RankAnswers
      PROVE  Ready' = Ready /\ reply' = reply
  BY <1>2, <1>6 DEF StartParallel, StartBatch, StartWorkers, RankAnswers, Fail
<1>7. ASSUME Start \/ Cancel
      PROVE  Ready' = Ready /\ reply' = reply
  BY <1>2, <1>7 DEF Start, Cancel
<1>8. ASSUME Coordinate \/ Cancel
      PROVE  Memo!Next \/ (Ready' = Ready /\ reply' = reply)
  BY <1>3, <1>4, <1>5, <1>6, <1>7, <1>8 DEF Coordinate, QuietAction
<1>9. ASSUME NEW t \in Threads, Work(t) \/ WorkerPanics(t)
      PROVE  Memo!Next \/ (Ready' = Ready /\ reply' = reply)
  <2>1. ASSUME reply' = [reply EXCEPT ![t] = <<>>], UNCHANGED entries
        PROVE  Memo!Next
    <3>1. Memo!Forget(t)
      BY <2>1 DEF Memo!Forget
    <3> QED
      BY <3>1 DEF Memo!Next
  <2>2. ASSUME NEW k \in Keys, Memo!Answer(t, k)
        PROVE  Memo!Next
    BY <2>2 DEF Memo!Next
  <2>3. CASE AskHop(t)
    BY <2>1, <2>3 DEF AskHop, Ask
  <2>4. CASE HopDone(t) \/ SendQuote(t)
    BY <2>1, <2>4 DEF HopDone, SendQuote, Consumed
  <2>5. CASE WorkerLookUp(t)
    <3>1. LookUp(t)
      BY <2>5 DEF WorkerLookUp
    <3> QED
      BY <1>1, <2>2, <3>1, LookUpAnswers
  <2>6. CASE WorkerSimulated(t)
    <3>1. Simulated(t)
      BY <2>6 DEF WorkerSimulated
    <3> QED
      BY <1>1, <2>2, <3>1, SimulatedAnswers
  <2>7. CASE WorkerEnds(t) \/ NextRequest(t)
    BY <1>2, <2>7 DEF WorkerEnds, NextRequest
  <2>8. CASE WorkerPanics(t)
    <3>1. Panicked(t)
      BY <2>8 DEF WorkerPanics
    <3> QED
      BY <1>1, <3>1, PanicIsHidden
  <2> QED
    BY <1>9, <2>3, <2>4, <2>5, <2>6, <2>7, <2>8 DEF Work
<1>10. ASSUME UNCHANGED vars
       PROVE  Ready' = Ready /\ reply' = reply
  BY <1>2, <1>10 DEF vars
<1>11. Memo!Next \/ (Ready' = Ready /\ reply' = reply)
  BY <1>8, <1>9, <1>10 DEF Next
<1> QED
  BY <1>11

\* SharedQuoteCache implements the memo it stands for: whatever the threads do, including
\* sleeping on one another and panicking in a simulation, a caller is answered with the one
\* result its key has, and a result once ready stays.
THEOREM CacheImplementsMemo == Spec => ImplementsMemo
<1>1. Init => Memo!Init
  <2> SUFFICES ASSUME Init
               PROVE  Memo!Init
    OBVIOUS
  <2>1. entries = [k \in Keys |-> Absent] /\ reply = [t \in Threads |-> <<>>]
    BY DEF Init, CacheInit
  <2>2. Ready = [k \in Keys |-> Absent]
    BY <2>1 DEF Ready, Absent
  <2> QED
    BY <2>1, <2>2 DEF Memo!Init, Ready
<1>2. IInv /\ [Next]_vars => [Memo!Next]_<<Ready, reply>>
  BY StepOfMemo
<1> QED
  BY <1>1, <1>2, IInvAlways, PTL DEF Spec, ImplementsMemo, Memo!Spec, Ready
==============================================================================
