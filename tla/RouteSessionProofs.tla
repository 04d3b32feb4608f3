-------------------------- MODULE RouteSessionProofs --------------------------
(***************************************************************************)
(* Proofs about route sessions, for any pools, links, rates and routes.     *)
(***************************************************************************)
EXTENDS RouteSession, FiniteSetTheorems, TLAPS

------------------------------------------------------------------------------
(* Induction over sets of numbers *)

\* A set that has 0 and with every number the next one has them all. (Else the numbers
\* up to a missing one that are missing too map one to one to themselves without that one.)
LEMMA SetInduction ==
  ASSUME NEW S, 0 \in S, \A n \in Nat : n \in S => n + 1 \in S
  PROVE  \A n \in Nat : n \in S
<1> SUFFICES ASSUME NEW m \in Nat, m \notin S
             PROVE  FALSE
  OBVIOUS
<1> DEFINE T == {x \in 0 .. m : x \notin S}
           f == [x \in T |-> x - 1]
<1>1. IsFiniteSet(T)
  <2>1. T \in SUBSET (0 .. m) /\ IsFiniteSet(0 .. m)
    BY FS_Interval
  <2> QED
    BY <2>1, FS_Subset
<1>2. m \in T
  OBVIOUS
<1>3. \A x \in T : x - 1 \in T \ {m}
  <2> SUFFICES ASSUME NEW x \in T
               PROVE  x - 1 \in T \ {m}
    OBVIOUS
  <2>1. x \in Nat /\ x # 0 /\ x <= m /\ x \notin S
    OBVIOUS
  <2>2. x - 1 \in Nat /\ (x - 1) + 1 = x
    BY <2>1
  <2> QED
    BY <2>1, <2>2
<1>4. f \in [T -> T \ {m}]
  BY <1>3
<1>5. IsFiniteSet(T \ {m}) /\ Cardinality(T \ {m}) = Cardinality(T) - 1 /\ Cardinality(T) \in Nat
  BY <1>1, <1>2, FS_RemoveElement, FS_CardinalityType
<1>6. PICK x, y \in T : x # y /\ f[x] = f[y]
  <2> HIDE DEF f, T
  <2> QED
    BY <1>1, <1>4, <1>5, FS_PigeonHole
<1> QED
  BY <1>6
------------------------------------------------------------------------------
(* Quoting a route *)

\* What Amounts chooses: the amounts f along r, each hop quoted from the one before.
Along(c, r, n, f) ==
  f = [i \in 0 .. n |-> IF i = 0 THEN AmountIn ELSE HopOut(c, r[i], f[i - 1])]

LEMMA AmountsChosen ==
  ASSUME NEW c, NEW r
  PROVE  Amounts(c, r) = CHOOSE f : Along(c, r, Len(r), f)
BY DEF Amounts, Along

\* There are amounts along every prefix of a route, so Amounts is what its equation says.
LEMMA AmountsUnfold ==
  ASSUME NEW c, NEW r, Len(r) \in Nat
  PROVE  /\ DOMAIN Amounts(c, r) = 0 .. Len(r)
         /\ Amounts(c, r)[0] = AmountIn
         /\ \A i \in 1 .. Len(r) : Amounts(c, r)[i] = HopOut(c, r[i], Amounts(c, r)[i - 1])
<1> DEFINE S == {n \in Nat : \E f : Along(c, r, n, f)}
<1>1. 0 \in S
  <2>1. Along(c, r, 0, [i \in 0 .. 0 |-> AmountIn])
    BY DEF Along
  <2> QED
    BY <2>1
<1>2. ASSUME NEW n \in Nat, n \in S
      PROVE  n + 1 \in S
  <2>1. PICK f : Along(c, r, n, f)
    BY <1>2
  <2>2. /\ DOMAIN f = 0 .. n /\ f[0] = AmountIn
        /\ \A i \in 1 .. n : f[i] = HopOut(c, r[i], f[i - 1])
    BY <2>1 DEF Along
  <2> DEFINE g == [i \in 0 .. (n + 1) |-> IF i = n + 1 THEN HopOut(c, r[n + 1], f[n]) ELSE f[i]]
  <2>3. \A i \in 0 .. (n + 1) :
          g[i] = IF i = 0 THEN AmountIn ELSE HopOut(c, r[i], g[i - 1])
    <3> SUFFICES ASSUME NEW i \in 0 .. (n + 1)
                 PROVE  g[i] = IF i = 0 THEN AmountIn ELSE HopOut(c, r[i], g[i - 1])
      OBVIOUS
    <3>1. CASE i = 0
      BY <2>2, <3>1
    <3>2. CASE i \in 1 .. n
      <4>1. g[i] = f[i] /\ g[i - 1] = f[i - 1]
        BY <3>2
      <4> QED
        BY <2>2, <3>2, <4>1
    <3>3. CASE i = n + 1
      <4>1. g[i] = HopOut(c, r[i], f[n]) /\ g[i - 1] = f[n]
        BY <3>3
      <4> QED
        BY <3>3, <4>1
    <3> QED
      BY <3>1, <3>2, <3>3
  <2>4. Along(c, r, n + 1, g)
    <3>1. DOMAIN g = 0 .. (n + 1) /\ g = [i \in 0 .. (n + 1) |-> g[i]]
      OBVIOUS
    <3> HIDE DEF g
    <3> QED
      BY <2>3, <3>1 DEF Along
  <2> QED
    BY <2>4
<1>3. Len(r) \in S
  <2> HIDE DEF S
  <2> QED
    BY <1>1, <1>2, SetInduction
<1>4. Along(c, r, Len(r), Amounts(c, r))
  BY <1>3, AmountsChosen
<1> QED
  BY <1>4 DEF Along

\* The quotes of c for the pools P are what these pools give now.
FreshFor(c, P) == \A q \in c : q.key[1].pool \in P => q.out = q.key[2] * rate[q.key[1].pool]

\* With such quotes, a hop through these pools gives what a simulation does.
LEMMA HopOutFresh ==
  ASSUME NEW c, NEW P, FreshFor(c, P), NEW h, h.pool \in P, NEW x
  PROVE  HopOut(c, h, x) = x * rate[h.pool]
<1>1. CASE \E q \in c : q.key = HopQuoteKey(h, x)
  <2> DEFINE q == CHOOSE y \in c : y.key = HopQuoteKey(h, x)
  <2>1. q \in c /\ q.key = <<h, x>>
    BY <1>1 DEF HopQuoteKey
  <2>2. q.key[1] = h /\ q.key[2] = x
    BY <2>1
  <2>3. q.out = x * rate[h.pool]
    BY <2>1, <2>2 DEF FreshFor
  <2> QED
    BY <1>1, <2>3 DEF HopOut
<1>2. CASE ~\E q \in c : q.key = HopQuoteKey(h, x)
  BY <1>2 DEF HopOut
<1> QED
  BY <1>1, <1>2

LEMMA HopOutSimulated ==
  ASSUME NEW h, NEW x
  PROVE  HopOut({}, h, x) = x * rate[h.pool]
BY DEF HopOut

\* A route is a list of hops through pools that are linked.
LEMMA RouteShape ==
  ASSUME NEW r \in Routes
  PROVE  /\ Len(r) \in 1 .. MaxHops /\ DOMAIN r = 1 .. Len(r) /\ Len(r) \in Nat
         /\ r \in [1 .. Len(r) -> Hop] /\ IsRoute(r)
         /\ \A i \in 1 .. Len(r) : r[i] \in Hop /\ r[i].pool \in PoolsOf(r)
         /\ PoolsOf(r) \subseteq Pools
<1>1. PICK n \in 1 .. MaxHops : r \in [1 .. n -> Hop] /\ IsRoute(r)
  BY DEF Routes
<1>2. n \in Nat /\ r \in Seq(Hop)
  BY <1>1, SessionAssumption
<1>3. Len(r) = n
  BY <1>1, <1>2
<1>4. \A h \in Hop : h.pool \in Pools
  BY DEF Hop
<1> QED
  BY <1>1, <1>2, <1>3, <1>4 DEF PoolsOf

\* A route is quoted from fresh quotes as it is from none.
LEMMA QuoteFresh ==
  ASSUME NEW c, NEW r \in Routes, FreshFor(c, PoolsOf(r))
  PROVE  Amounts(c, r) = Amounts({}, r) /\ QuoteOf(c, r) = Fresh(r)
<1>1. \A i \in 1 .. Len(r) : \A x : HopOut(c, r[i], x) = HopOut({}, r[i], x)
  BY RouteShape, HopOutFresh, HopOutSimulated
<1>2. ASSUME NEW f
      PROVE  Along(c, r, Len(r), f) <=> Along({}, r, Len(r), f)
  <2>1. \A i \in 0 .. Len(r) :
          (IF i = 0 THEN AmountIn ELSE HopOut(c, r[i], f[i - 1]))
            = (IF i = 0 THEN AmountIn ELSE HopOut({}, r[i], f[i - 1]))
    BY <1>1, RouteShape
  <2>2. [i \in 0 .. Len(r) |-> IF i = 0 THEN AmountIn ELSE HopOut(c, r[i], f[i - 1])]
          = [i \in 0 .. Len(r) |-> IF i = 0 THEN AmountIn ELSE HopOut({}, r[i], f[i - 1])]
    BY <2>1
  <2> QED
    BY <2>2 DEF Along
<1>3. Amounts(c, r) = Amounts({}, r)
  BY <1>2, AmountsChosen
<1> QED
  BY <1>3 DEF QuoteOf, Fresh

\* Only the rates of a route's own pools matter to it.
LEMMA FreshSame ==
  ASSUME NEW r \in Routes, \A p \in PoolsOf(r) : rate'[p] = rate[p]
  PROVE  Fresh(r)' = Fresh(r)
<1>1. \A i \in 1 .. Len(r) : \A x : HopOut({}, r[i], x)' = HopOut({}, r[i], x)
  BY RouteShape DEF HopOut
<1>2. ASSUME NEW f
      PROVE  Along({}, r, Len(r), f) <=> Along({}, r, Len(r), f)'
  <2>1. \A i \in 0 .. Len(r) :
          (IF i = 0 THEN AmountIn ELSE HopOut({}, r[i], f[i - 1]))
            = (IF i = 0 THEN AmountIn ELSE HopOut({}, r[i], f[i - 1])')
    BY <1>1, RouteShape
  <2>2. [i \in 0 .. Len(r) |-> IF i = 0 THEN AmountIn ELSE HopOut({}, r[i], f[i - 1])]
          = [i \in 0 .. Len(r) |-> IF i = 0 THEN AmountIn ELSE HopOut({}, r[i], f[i - 1])']
    BY <2>1
  <2> QED
    BY <2>2 DEF Along
<1>3. Amounts({}, r)' = CHOOSE f : Along({}, r, Len(r), f)'
  BY DEF Amounts, Along
<1>4. Amounts({}, r)' = Amounts({}, r)
  BY <1>2, <1>3, AmountsChosen
<1> QED
  BY <1>4 DEF QuoteOf, Fresh

\* Quotes are of known pools, and amounts are numbers.
NumbersIn(c) == \A q \in c : q.out \in Nat /\ q.key[1].pool \in Pools
LEMMA QuoteNat ==
  ASSUME NEW c, NumbersIn(c), rate \in [Pools -> Rates], NEW r \in Routes
  PROVE  QuoteOf(c, r) \in Nat /\ \A i \in 0 .. Len(r) : Amounts(c, r)[i] \in Nat
<1> DEFINE S == {n \in Nat : n <= Len(r) => Amounts(c, r)[n] \in Nat}
<1>1. 0 \in S
  BY RouteShape, AmountsUnfold DEF AmountIn
<1>2. ASSUME NEW n \in Nat, n \in S
      PROVE  n + 1 \in S
  <2>1. CASE n + 1 <= Len(r)
    <3> DEFINE a == Amounts(c, r)[n]
               h == r[n + 1]
    <3>1. a \in Nat /\ n + 1 \in 1 .. Len(r) /\ Len(r) \in Nat
      BY <1>2, <2>1, RouteShape
    <3>2. Amounts(c, r)[n + 1] = HopOut(c, h, a)
      BY <3>1, AmountsUnfold
    <3>3. h \in Hop /\ rate[h.pool] \in Nat
      BY <3>1, RouteShape, SessionAssumption DEF Hop
    <3>4. a * rate[h.pool] \in Nat
      BY <3>1, <3>3
    <3>5. (\E q \in c : q.key = HopQuoteKey(h, a))
             => (CHOOSE q \in c : q.key = HopQuoteKey(h, a)).out \in Nat
      BY DEF NumbersIn
    <3>6. HopOut(c, h, a) \in Nat
      BY <3>4, <3>5 DEF HopOut
    <3> QED
      BY <3>2, <3>6
  <2>2. CASE ~(n + 1 <= Len(r))
    BY <2>2
  <2> QED
    BY <2>1, <2>2
<1>3. \A n \in Nat : n \in S
  <2> HIDE DEF S
  <2> QED
    BY <1>1, <1>2, SetInduction
<1>4. \A i \in 0 .. Len(r) : Amounts(c, r)[i] \in Nat
  BY <1>3
<1> QED
  BY <1>4, RouteShape DEF QuoteOf

\* What a search puts in the cache is as fresh as what it found there.
LEMMA CachedFresh ==
  ASSUME NEW c, NEW S \in SUBSET Routes, \A r \in S : FreshFor(c, PoolsOf(r))
  PROVE  \A q \in CachedAfter(c, S) : q \in c \/
           (q.out = q.key[2] * rate[q.key[1].pool] /\ \E r \in S : q.key[1].pool \in PoolsOf(r))
<1> SUFFICES ASSUME NEW r \in S, NEW i \in DOMAIN r
             PROVE  LET q == [key |-> HopQuoteKey(r[i], Amounts(c, r)[i - 1]), out |-> Amounts(c, r)[i]]
                    IN q.out = q.key[2] * rate[q.key[1].pool] /\ q.key[1].pool \in PoolsOf(r)
  BY DEF CachedAfter
<1>1. r \in Routes /\ i \in 1 .. Len(r) /\ r[i].pool \in PoolsOf(r) /\ Len(r) \in Nat
  BY RouteShape
<1>2. Amounts(c, r)[i] = HopOut(c, r[i], Amounts(c, r)[i - 1])
  BY <1>1, AmountsUnfold
<1>3. HopOut(c, r[i], Amounts(c, r)[i - 1]) = Amounts(c, r)[i - 1] * rate[r[i].pool]
  BY <1>1, HopOutFresh
<1> QED
  BY <1>1, <1>2, <1>3 DEF HopQuoteKey

LEMMA CachedNumbers ==
  ASSUME NEW c, NumbersIn(c), rate \in [Pools -> Rates], NEW S \in SUBSET Routes
  PROVE  NumbersIn(CachedAfter(c, S))
<1> SUFFICES ASSUME NEW r \in S, NEW i \in DOMAIN r
             PROVE  Amounts(c, r)[i] \in Nat /\ r[i].pool \in Pools
  BY DEF NumbersIn, CachedAfter, HopQuoteKey
<1>1. i \in 0 .. Len(r) /\ r[i].pool \in Pools
  BY RouteShape
<1> QED
  BY <1>1, QuoteNat
------------------------------------------------------------------------------
(* The indexes *)

\* A same-pair replacement of a hop of a route is a route.
LEMMA ReplacedIsRoute ==
  ASSUME NEW r \in Routes, graph \subseteq Pools, NEW x \in ProbesOf(r)
  PROVE  LET s == Replaced(r, x[1], x[2])
         IN /\ s \in Routes /\ Len(s) = Len(r) /\ x[1] \in 1 .. Len(r) /\ x[2] \in graph
            /\ \A j \in 1 .. Len(r) : /\ s[j].token_in = r[j].token_in
                                      /\ s[j].token_out = r[j].token_out
                                      /\ s[j].pool = IF j = x[1] THEN x[2] ELSE r[j].pool
<1> DEFINE i == x[1]
           p == x[2]
           n == Len(r)
           h == [r[i] EXCEPT !.pool = p]
           s == Replaced(r, i, p)
<1>1. /\ i \in 1 .. n /\ p \in graph /\ p \in Pools /\ p \notin PoolsOf(r)
      /\ {r[i].token_in, r[i].token_out} \subseteq Links[p]
  BY RouteShape DEF ProbesOf
<1>2. n \in 1 .. MaxHops /\ n \in Nat /\ r \in [1 .. n -> Hop] /\ IsRoute(r) /\ r[i] \in Hop
  BY <1>1, RouteShape
<1>3. h \in Hop /\ h.pool = p /\ h.token_in = r[i].token_in /\ h.token_out = r[i].token_out
  BY <1>1, <1>2 DEF Hop
<1>4. s \in [1 .. n -> Hop] /\ s[i] = h /\ \A j \in 1 .. n : j # i => s[j] = r[j]
  <2> HIDE DEF h
  <2>1. s = [r EXCEPT ![i] = h]
    BY DEF Replaced, h
  <2> QED
    BY <1>1, <1>2, <1>3, <2>1
<1>5. Len(s) = n
  <2>1. s \in Seq(Hop)
    BY <1>2, <1>4
  <2> QED
    BY <1>2, <1>4, <2>1
<1>6. \A j \in 1 .. n : /\ s[j].token_in = r[j].token_in /\ s[j].token_out = r[j].token_out
                        /\ s[j].pool = IF j = i THEN p ELSE r[j].pool
  BY <1>3, <1>4
<1>7. \A j \in 1 .. n : r[j].pool # p
  BY <1>1, RouteShape
<1>8. IsRoute(s)
  <2> HIDE DEF s, i, p, h, n
  <2>1. 1 \in 1 .. n /\ n \in 1 .. n
    BY <1>2
  <2>2. s[1].token_in = TokenIn /\ s[n].token_out = TokenOut
    BY <1>2, <1>6, <2>1 DEF IsRoute, n
  <2>3. \A j \in 1 .. (n - 1) : s[j].token_out = s[j + 1].token_in
    <3> SUFFICES ASSUME NEW j \in 1 .. (n - 1)
                 PROVE  s[j].token_out = s[j + 1].token_in
      OBVIOUS
    <3>1. j \in 1 .. n /\ j + 1 \in 1 .. n
      BY <1>2
    <3> QED
      BY <1>2, <1>6, <3>1 DEF IsRoute, n
  <2>4. \A j, k \in 1 .. n : j # k => s[j].pool # s[k].pool /\ s[j].token_out # s[k].token_out
    BY <1>2, <1>6, <1>7 DEF IsRoute, n
  <2>5. \A j \in 1 .. n : s[j].token_out # TokenIn
    BY <1>2, <1>6 DEF IsRoute, n
  <2> QED
    BY <1>5, <2>2, <2>3, <2>4, <2>5 DEF IsRoute
<1>9. s \in Routes
  BY <1>2, <1>4, <1>8 DEF Routes
<1> QED
  BY <1>1, <1>5, <1>6, <1>9

LEMMA ReplacedPools ==
  ASSUME NEW r \in Routes, graph \subseteq Pools, NEW x \in ProbesOf(r)
  PROVE  PoolsOf(Replaced(r, x[1], x[2])) \subseteq PoolsOf(r) \cup {x[2]}
<1> DEFINE s == Replaced(r, x[1], x[2])
<1>1. /\ s \in Routes /\ Len(s) = Len(r)
      /\ \A j \in 1 .. Len(r) : s[j].pool = IF j = x[1] THEN x[2] ELSE r[j].pool
  BY ReplacedIsRoute
<1>2. DOMAIN s = 1 .. Len(r) /\ DOMAIN r = 1 .. Len(r)
  BY <1>1, RouteShape
<1> QED
  BY <1>1, <1>2 DEF PoolsOf

\* The routes in the table, and the pools either index knows.
Materialized == {r \in Routes : route_table[r] # None}
Indexed == {p \in Pools : \E r \in Routes : <<p, r>> \in pool_to_routes \cup parallel_probe_index}

SessionTypes ==
  /\ rate \in [Pools -> Rates] /\ graph \subseteq Pools /\ changed \subseteq Pools
  /\ version \in Nat /\ graph_version \in Nat /\ graph_version <= version
  /\ route_table \in [Routes -> Nat \cup {None}] /\ NumbersIn(quote_cache)
  /\ active \in BOOLEAN /\ stopped \in {"never", "at start", "at quote"}

\* The indexes are those of the table: as long as the graph is the session's own, the probe
\* index has every replacement around every route of the table.
IndexInv ==
  /\ pool_to_routes = IndexRoutePath(Materialized)
  /\ graph_version = version => parallel_probe_index = IndexProbePaths(Materialized)

\* What the caller has not been told of apart, the table and the cache are exact. A quote
\* that no index leads to may be stale; no later route can come to use it.
ExactInv ==
  active /\ stopped = "never" =>
    /\ \A r \in Materialized : PoolsOf(r) \cap changed = {} => route_table[r] = Fresh(r)
    /\ best = BestOf(route_table)
    /\ FreshFor(quote_cache, Indexed \ changed)

IInv == SessionTypes /\ IndexInv /\ ExactInv

LEMMA InRouteIndex ==
  ASSUME IndexInv, NEW p, NEW r
  PROVE  <<p, r>> \in pool_to_routes <=> r \in Materialized /\ p \in PoolsOf(r)
BY DEF IndexInv, IndexRoutePath

LEMMA InProbeIndex ==
  ASSUME IndexInv, graph_version = version, NEW p, NEW s
  PROVE  <<p, s>> \in parallel_probe_index <=>
           \E r \in Materialized : \E x \in ProbesOf(r) :
             s = Replaced(r, x[1], x[2]) /\ p \in {r[x[1]].pool, x[2]}
BY DEF IndexInv, IndexProbePaths

\* Every pool of a route of the table, and every pool parallel to one of its hops, is known.
LEMMA KnownPools ==
  ASSUME SessionTypes, IndexInv, NEW r \in Materialized
  PROVE  /\ PoolsOf(r) \subseteq Indexed
         /\ graph_version = version => \A x \in ProbesOf(r) : x[2] \in Indexed
<1>1. r \in Routes /\ PoolsOf(r) \subseteq Pools
  BY RouteShape DEF Materialized
<1>2. PoolsOf(r) \subseteq Indexed
  BY <1>1, InRouteIndex DEF Indexed
<1>3. ASSUME graph_version = version, NEW x \in ProbesOf(r)
      PROVE  x[2] \in Indexed
  <2>1. Replaced(r, x[1], x[2]) \in Routes /\ x[2] \in Pools
    BY <1>1, ReplacedIsRoute DEF SessionTypes
  <2>2. <<x[2], Replaced(r, x[1], x[2])>> \in parallel_probe_index
    BY <1>3, InProbeIndex
  <2> QED
    BY <2>1, <2>2 DEF Indexed
<1> QED
  BY <1>2, <1>3

\* A refresh only quotes routes through known pools, and what it then indexes is known too:
\* what is parallel to a replaced hop was parallel to the hop before.
LEMMA TouchedKnown ==
  ASSUME SessionTypes, IndexInv, graph_version = version, NEW F,
         NEW s \in MaterializedPaths(F) \cup ProbePaths(F)
  PROVE  s \in Routes /\ PoolsOf(s) \subseteq Indexed /\ \A y \in ProbesOf(s) : y[2] \in Indexed
<1>1. s \in Routes
  BY DEF MaterializedPaths, ProbePaths
<1>2. CASE s \in Materialized
  BY <1>1, <1>2, KnownPools
<1>3. CASE s \notin Materialized
  <2>1. PICK p \in F : <<p, s>> \in parallel_probe_index
    BY <1>3, InRouteIndex DEF MaterializedPaths, ProbePaths
  <2>2. PICK r \in Materialized : \E x \in ProbesOf(r) : s = Replaced(r, x[1], x[2])
    BY <2>1, InProbeIndex
  <2>3. PICK x \in ProbesOf(r) : s = Replaced(r, x[1], x[2])
    BY <2>2
  <2>4. r \in Routes
    BY DEF Materialized
  <2>5. PoolsOf(r) \subseteq Indexed /\ \A z \in ProbesOf(r) : z[2] \in Indexed
    BY KnownPools
  <2>6. PoolsOf(s) \subseteq Indexed
    BY <2>3, <2>4, <2>5, ReplacedPools DEF SessionTypes
  <2>7. ASSUME NEW y \in ProbesOf(s)
        PROVE  y[2] \in Indexed
    <3>1. /\ y = <<y[1], y[2]>> /\ y[1] \in DOMAIN s /\ y[2] \in graph
          /\ {s[y[1]].token_in, s[y[1]].token_out} \subseteq Links[y[2]]
      BY DEF ProbesOf
    <3>2. /\ DOMAIN s = 1 .. Len(s) /\ DOMAIN r = 1 .. Len(r)
      BY <1>1, <2>4, RouteShape
    <3>3. /\ y[1] \in DOMAIN r
          /\ s[y[1]].token_in = r[y[1]].token_in /\ s[y[1]].token_out = r[y[1]].token_out
      <4>1. /\ Len(s) = Len(r)
            /\ \A j \in 1 .. Len(r) : s[j].token_in = r[j].token_in /\ s[j].token_out = r[j].token_out
        BY <2>3, <2>4, ReplacedIsRoute DEF SessionTypes
      <4> QED
        BY <3>1, <3>2, <4>1
    <3>4. CASE y[2] \in PoolsOf(r)
      BY <2>5, <3>4
    <3>5. CASE y[2] \notin PoolsOf(r)
      <4>1. y \in ProbesOf(r)
        BY <3>1, <3>3, <3>5 DEF ProbesOf
      <4> QED
        BY <2>5, <4>1
    <3> QED
      BY <3>4, <3>5
  <2> QED
    BY <1>1, <2>6, <2>7
<1> QED
  BY <1>2, <1>3

------------------------------------------------------------------------------
(* The steps *)

\* A new session: everything is quoted from nothing.
LEMMA StartKeeps ==
  ASSUME IInv, NEW S \in SUBSET Routes, StartRouteSession(S)
  PROVE  IInv'
<1> DEFINE V == Viable({}, S)
<1>1. V \in SUBSET Routes /\ NumbersIn({}) /\ rate \in [Pools -> Rates]
  BY DEF Viable, NumbersIn, IInv, SessionTypes
<1>2. \A r \in Routes : QuoteOf({}, r) \in Nat /\ QuoteOf({}, r) # None
  BY <1>1, QuoteNat, SessionAssumption
<1>3. route_table' = [r \in Routes |-> IF r \in V THEN QuoteOf({}, r) ELSE None]
  BY DEF StartRouteSession, InsertQuotes, NoTable
<1>4. Materialized' = V
  <2> HIDE DEF V
  <2> QED
    BY <1>1, <1>2, <1>3 DEF Materialized
<1>5. SessionTypes'
  <2>1. NumbersIn(quote_cache')
    BY <1>1, CachedNumbers DEF StartRouteSession
  <2>2. route_table' \in [Routes -> Nat \cup {None}]
    <3> HIDE DEF V
    <3> QED
      BY <1>2, <1>3
  <2>3. /\ changed' = {} /\ graph_version' = version /\ active' = TRUE /\ stopped' = "never"
        /\ UNCHANGED <<rate, graph, version>>
    BY DEF StartRouteSession, worldVars
  <2>4. NumbersIn(quote_cache)'
    BY <2>1 DEF NumbersIn
  <2>5. version' \in Nat /\ graph_version' \in Nat /\ graph_version' <= version'
    <3>1. version \in Nat
      BY DEF IInv, SessionTypes
    <3> QED
      BY <2>3, <3>1
  <2> QED
    BY <2>2, <2>3, <2>4, <2>5 DEF IInv, SessionTypes
<1>6. IndexInv'
  <2>1. pool_to_routes' = IndexRoutePath(V) /\ parallel_probe_index' = IndexProbePaths(V) /\ graph' = graph
    BY DEF StartRouteSession, worldVars
  <2> HIDE DEF V
  <2> QED
    BY <1>4, <2>1 DEF IndexInv, IndexRoutePath, IndexProbePaths, ProbesOf
<1>7. ExactInv'
  <2>1. rate' = rate /\ best' = BestOf(route_table') /\ quote_cache' = CachedAfter({}, S)
    BY DEF StartRouteSession, worldVars
  <2>2. \A r \in Routes : Fresh(r)' = Fresh(r)
    BY <2>1, FreshSame
  <2>3. \A r \in Materialized' : route_table'[r] = Fresh(r)'
    <3> HIDE DEF V
    <3> QED
      BY <1>1, <1>3, <1>4, <2>2 DEF Fresh
  <2>4. \A r \in S : FreshFor({}, PoolsOf(r))
    BY DEF FreshFor
  <2>5. \A q \in quote_cache' : q.out = q.key[2] * rate'[q.key[1].pool]
    BY <2>1, <2>4, CachedFresh
  <2>6. FreshFor(quote_cache, Indexed \ changed)'
    BY <2>5 DEF FreshFor
  <2>7. (best = BestOf(route_table))'
    BY <2>1 DEF BestOf
  <2> QED
    BY <2>3, <2>6, <2>7 DEF ExactInv
<1> QED
  BY <1>5, <1>6, <1>7 DEF IInv

\* Updates and changes of the graph: what they may have made stale is in changed.
LEMMA UpdateKeeps ==
  ASSUME IInv, NEW C \in SUBSET Pools, UpdatePools(C)
  PROVE  IInv'
<1>1. PICK new \in [C -> Rates] : rate' = [p \in Pools |-> IF p \in C THEN new[p] ELSE rate[p]]
  BY DEF UpdatePools
<1>2. /\ changed' = changed \cup C
      /\ UNCHANGED <<graph, version, active, stopped, route_table, pool_to_routes,
                     parallel_probe_index, best, quote_cache, graph_version>>
  BY DEF UpdatePools, tableVars
<1>3. rate' \in [Pools -> Rates] /\ \A p \in Pools \ changed' : rate'[p] = rate[p]
  BY <1>1, <1>2 DEF IInv, SessionTypes
<1>4. SessionTypes'
  BY <1>2, <1>3 DEF IInv, SessionTypes, NumbersIn
<1>5. Materialized' = Materialized /\ Indexed' = Indexed
  BY <1>2 DEF Materialized, Indexed
<1>6. IndexInv'
  BY <1>2, <1>5 DEF IInv, IndexInv, IndexRoutePath, IndexProbePaths, ProbesOf
<1>7. ASSUME active, stopped = "never"
      PROVE  /\ \A r \in Materialized : PoolsOf(r) \cap changed' = {} => route_table[r] = Fresh(r)'
             /\ FreshFor(quote_cache, Indexed \ changed)'
  <2>1. ASSUME NEW r \in Materialized, PoolsOf(r) \cap changed' = {}
        PROVE  route_table[r] = Fresh(r)'
    <3>1. r \in Routes /\ PoolsOf(r) \subseteq Pools
      BY RouteShape DEF Materialized
    <3>2. Fresh(r)' = Fresh(r)
      BY <1>3, <2>1, <3>1, FreshSame
    <3> QED
      BY <1>2, <1>7, <2>1, <3>2 DEF IInv, ExactInv
  <2>2. FreshFor(quote_cache, Indexed \ changed)'
    BY <1>2, <1>3, <1>5, <1>7 DEF IInv, ExactInv, FreshFor, Indexed
  <2> QED
    BY <2>1, <2>2
<1>8. ExactInv'
  BY <1>2, <1>5, <1>7 DEF IInv, ExactInv, BestOf
<1> QED
  BY <1>4, <1>6, <1>8 DEF IInv

LEMMA TopologyKeeps ==
  ASSUME IInv, NEW p \in Pools, ChangeTopology(p)
  PROVE  IInv'
<1>1. /\ changed' = changed \cup {p} /\ version' = version + 1
      /\ graph' \subseteq Pools
      /\ UNCHANGED <<rate, active, stopped, route_table, pool_to_routes,
                     parallel_probe_index, best, quote_cache, graph_version>>
  BY DEF ChangeTopology, tableVars, IInv, SessionTypes
<1>2. SessionTypes' /\ graph_version' # version'
  <2>1. /\ version' \in Nat /\ graph_version' \in Nat /\ graph_version' <= version'
        /\ graph_version' # version'
    <3>1. version \in Nat /\ graph_version \in Nat /\ graph_version <= version
      BY DEF IInv, SessionTypes
    <3> QED
      BY <1>1, <3>1
  <2>2. NumbersIn(quote_cache)'
    BY <1>1 DEF IInv, SessionTypes, NumbersIn
  <2> QED
    BY <1>1, <2>1, <2>2 DEF IInv, SessionTypes
<1>3. Materialized' = Materialized /\ Indexed' = Indexed
  BY <1>1 DEF Materialized, Indexed
<1>4. IndexInv'
  BY <1>1, <1>2, <1>3 DEF IInv, IndexInv, IndexRoutePath
<1>5. \A r \in Routes : Fresh(r)' = Fresh(r)
  BY <1>1, FreshSame
<1>6. ExactInv'
  <2> SUFFICES ASSUME active, stopped = "never"
               PROVE  /\ \A r \in Materialized : PoolsOf(r) \cap changed' = {} => route_table[r] = Fresh(r)'
                      /\ FreshFor(quote_cache, Indexed \ changed)'
    BY <1>1, <1>3 DEF IInv, ExactInv, BestOf
  <2>1. /\ \A r \in Materialized : PoolsOf(r) \cap changed = {} => route_table[r] = Fresh(r)
        /\ FreshFor(quote_cache, Indexed \ changed)
    BY DEF IInv, ExactInv
  <2>2. FreshFor(quote_cache, Indexed \ changed)'
    BY <1>1, <1>3, <2>1 DEF FreshFor
  <2> QED
    BY <1>1, <1>5, <2>1, <2>2 DEF Materialized
<1> QED
  BY <1>2, <1>4, <1>6 DEF IInv

\* The probes around the routes of a set, route by route.
Around(r) == UNION {{r[x[1]].pool, x[2]} \X {Replaced(r, x[1], x[2])} : x \in ProbesOf(r)}

LEMMA ProbesAround ==
  ASSUME NEW S, graph' = graph
  PROVE  IndexProbePaths(S) = UNION {Around(r) : r \in S} /\ \A r : Around(r)' = Around(r)
BY DEF IndexProbePaths, Around, ProbesOf

\* The refreshes that quote nothing. A session that is given up or stopped promises no more,
\* and one whose routes are untouched knows none of the pools that changed.
LEMMA QuietRefreshKeeps ==
  ASSUME IInv, changed' = {},
         UNCHANGED <<rate, graph, version, route_table, pool_to_routes, parallel_probe_index,
                     best, quote_cache, graph_version>>,
         active' \in BOOLEAN, stopped' \in {"never", "at start", "at quote"},
         active' /\ stopped' = "never" =>
           active /\ stopped = "never" /\ Indexed \cap changed = {}
  PROVE  IInv'
<1>1. Materialized' = Materialized /\ Indexed' = Indexed
  BY DEF Materialized, Indexed
<1>2. SessionTypes'
  <2>1. NumbersIn(quote_cache)'
    BY DEF IInv, SessionTypes, NumbersIn
  <2> QED
    BY <2>1 DEF IInv, SessionTypes
<1>3. IndexInv'
  <2>1. IndexProbePaths(Materialized)' = IndexProbePaths(Materialized)
    <3>1. IndexProbePaths(Materialized)' = UNION {Around(r)' : r \in Materialized'}
      BY DEF IndexProbePaths, Around, ProbesOf
    <3>2. IndexProbePaths(Materialized) = UNION {Around(r) : r \in Materialized}
      BY ProbesAround
    <3>3. \A r : Around(r)' = Around(r)
      BY ProbesAround
    <3> QED
      BY <1>1, <3>1, <3>2, <3>3
  <2> QED
    BY <1>1, <2>1 DEF IInv, IndexInv, IndexRoutePath
<1>4. ExactInv'
  <2> SUFFICES ASSUME active, stopped = "never", Indexed \cap changed = {}
               PROVE  /\ \A r \in Materialized : route_table[r] = Fresh(r)'
                      /\ best = BestOf(route_table)
                      /\ FreshFor(quote_cache, Indexed \ changed)'
    BY <1>1 DEF ExactInv, BestOf
  <2>1. /\ \A r \in Materialized : PoolsOf(r) \cap changed = {} => route_table[r] = Fresh(r)
        /\ best = BestOf(route_table)
        /\ FreshFor(quote_cache, Indexed \ changed)
    BY DEF IInv, ExactInv
  <2>2. \A r \in Materialized : r \in Routes /\ PoolsOf(r) \subseteq Indexed
    BY KnownPools DEF IInv, Materialized
  <2>3. \A r \in Materialized : Fresh(r)' = Fresh(r)
    BY <2>2, FreshSame
  <2>4. FreshFor(quote_cache, Indexed \ changed)'
    BY <1>1, <2>1 DEF FreshFor
  <2> QED
    BY <2>1, <2>2, <2>3, <2>4
<1> QED
  BY <1>2, <1>3, <1>4 DEF IInv

LEMMA UntouchedKeeps ==
  ASSUME IInv, NEW F \in SUBSET Pools, RefreshUntouched(F)
  PROVE  IInv'
<1>1. /\ changed \subseteq F /\ changed' = {}
      /\ MaterializedPaths(F) = {} /\ ProbePaths(F) = {}
      /\ UNCHANGED <<rate, graph, version, route_table, pool_to_routes, parallel_probe_index,
                     best, quote_cache, graph_version, active, stopped>>
  BY DEF RefreshUntouched, Refreshing, Reported, AffectedPools, worldVars, tableVars
<1>2. Indexed \cap changed = {}
  BY <1>1 DEF Indexed, MaterializedPaths, ProbePaths
<1> QED
  BY <1>1, <1>2, QuietRefreshKeeps DEF IInv, SessionTypes

\* A refresh that quotes the routes of M and P again keeps the indexes, and no pool becomes
\* known that was not.
LEMMA RequoteIndexes ==
  ASSUME IInv, NEW F \in SUBSET Pools, NEW M \in SUBSET MaterializedPaths(F),
         NEW P \in SUBSET ProbePaths(F), NEW tried \in SUBSET Routes, Requote(F, M, P, tried),
         stopped' \in {"never", "at start", "at quote"}
  PROVE  /\ SessionTypes' /\ IndexInv' /\ Indexed' \subseteq Indexed
         /\ Materialized' = Materialized \cup M \cup P
<1> DEFINE c == InvalidatePools(quote_cache, F)
<1>1. /\ active /\ changed \subseteq F /\ changed' = {} /\ graph_version = version
      /\ pool_to_routes' = pool_to_routes \cup IndexRoutePath(M \cup P)
      /\ parallel_probe_index' = parallel_probe_index \cup IndexProbePaths(M \cup P)
      /\ UNCHANGED <<rate, graph, version, active, graph_version>>
  BY DEF Requote, Refreshing, Reported, AffectedPools, EarlyRecompute, worldVars
<1>2. /\ route_table' = [r \in Routes |-> IF r \in M \cup P THEN QuoteOf(c, r)
                                          ELSE IF r \in MaterializedPaths(F) THEN 0 ELSE route_table[r]]
      /\ quote_cache' = CachedAfter(c, tried)
  BY DEF Requote, InsertQuotes
<1>3. NumbersIn(c)
  BY DEF IInv, SessionTypes, NumbersIn, InvalidatePools
<1>4. \A r \in Routes : QuoteOf(c, r) \in Nat /\ QuoteOf(c, r) # None
  BY <1>3, QuoteNat, SessionAssumption, ZenonT(30) DEF IInv, SessionTypes
<1>5. MaterializedPaths(F) \subseteq Materialized /\ M \subseteq Materialized /\ M \cup P \subseteq Routes
  BY InRouteIndex DEF IInv, MaterializedPaths, ProbePaths
<1>6. route_table \in [Routes -> Nat \cup {None}] /\ 0 # None
  <2>1. \A n \in Nat : n # None
    BY SessionAssumption
  <2> QED
    BY <2>1 DEF IInv, SessionTypes
<1> HIDE DEF c
<1>7. Materialized' = Materialized \cup M \cup P
  BY <1>2, <1>4, <1>5, <1>6 DEF Materialized
<1>8. SessionTypes'
  <2>1. NumbersIn(quote_cache)'
    <3>1. NumbersIn(CachedAfter(c, tried))
      BY <1>3, CachedNumbers DEF IInv, SessionTypes
    <3> QED
      BY <1>2, <3>1 DEF NumbersIn
  <2>2. route_table' \in [Routes -> Nat \cup {None}]
    BY <1>2, <1>4, <1>6
  <2> QED
    BY <1>1, <2>1, <2>2 DEF IInv, SessionTypes
<1>9. IndexInv'
  <2>1. pool_to_routes = IndexRoutePath(Materialized)
    BY DEF IInv, IndexInv
  <2>2. parallel_probe_index = IndexProbePaths(Materialized)
    BY <1>1 DEF IInv, IndexInv
  <2>3. (pool_to_routes = IndexRoutePath(Materialized))'
    BY <1>1, <1>5, <1>7, <2>1 DEF IndexRoutePath
  <2>4. (parallel_probe_index = IndexProbePaths(Materialized))'
    <3>1. IndexProbePaths(Materialized)' = UNION {Around(r)' : r \in Materialized'}
      BY DEF IndexProbePaths, Around, ProbesOf
    <3>2. IndexProbePaths(Materialized)' = UNION {Around(r) : r \in Materialized \cup M \cup P}
      BY <1>1, <1>7, <3>1, ProbesAround
    <3>3. /\ IndexProbePaths(Materialized) = UNION {Around(r) : r \in Materialized}
          /\ IndexProbePaths(M \cup P) = UNION {Around(r) : r \in M \cup P}
      BY <1>1, ProbesAround
    <3> QED
      BY <1>1, <2>2, <3>2, <3>3
  <2> QED
    BY <2>3, <2>4 DEF IndexInv
<1>10. Indexed' \subseteq Indexed
  <2> SUFFICES ASSUME NEW p \in Pools, NEW r, <<p, r>> \in IndexRoutePath(M \cup P) \cup IndexProbePaths(M \cup P)
               PROVE  p \in Indexed
    BY <1>1 DEF Indexed
  <2>1. \A s \in M \cup P : PoolsOf(s) \subseteq Indexed /\ s \in Routes /\ \A y \in ProbesOf(s) : y[2] \in Indexed
    BY <1>1, TouchedKnown DEF IInv
  <2>2. CASE <<p, r>> \in IndexRoutePath(M \cup P)
    <3>1. PICK s \in M \cup P : <<p, r>> \in PoolsOf(s) \X {s}
      BY <2>2 DEF IndexRoutePath
    <3> QED
      BY <2>1, <3>1
  <2>3. CASE <<p, r>> \in IndexProbePaths(M \cup P)
    <3>1. PICK s \in M \cup P : \E x \in ProbesOf(s) : p \in {s[x[1]].pool, x[2]}
      <4>1. IndexProbePaths(M \cup P) = UNION {Around(t) : t \in M \cup P}
        BY <1>1, ProbesAround
      <4>2. PICK s \in M \cup P : <<p, r>> \in Around(s)
        BY <2>3, <4>1
      <4>3. PICK x \in ProbesOf(s) : <<p, r>> \in {s[x[1]].pool, x[2]} \X {Replaced(s, x[1], x[2])}
        BY <4>2 DEF Around
      <4> QED
        BY <4>3
    <3>2. \A x \in ProbesOf(s) : x[1] \in DOMAIN s
      BY DEF ProbesOf
    <3> QED
      BY <2>1, <3>1, <3>2 DEF PoolsOf
  <2> QED
    BY <2>2, <2>3
<1> QED
  BY <1>7, <1>8, <1>9, <1>10

\* The quotes left after the invalidation are fresh for every route that is touched.
LEMMA InvalidatedFresh ==
  ASSUME IInv, NEW F \in SUBSET Pools, Refreshing(F), stopped = "never",
         NEW s \in MaterializedPaths(F) \cup ProbePaths(F)
  PROVE  FreshFor(InvalidatePools(quote_cache, F), PoolsOf(s))
<1>1. active /\ changed \subseteq F /\ graph_version = version
  BY DEF Refreshing, Reported, AffectedPools, EarlyRecompute
<1>2. PoolsOf(s) \subseteq Indexed
  BY <1>1, TouchedKnown DEF IInv
<1>3. FreshFor(quote_cache, Indexed \ changed)
  BY <1>1 DEF IInv, ExactInv
<1> QED
  BY <1>1, <1>2, <1>3 DEF FreshFor, InvalidatePools

\* A refresh that is not stopped makes the table and the cache exact again.
LEMMA RequoteKeeps ==
  ASSUME IInv, NEW F \in SUBSET Pools, RefreshRequote(F)
  PROVE  IInv'
<1> DEFINE c == InvalidatePools(quote_cache, F)
           touched == MaterializedPaths(F) \cup ProbePaths(F)
           M == TouchedViable(F, MaterializedPaths(F))
           P == TouchedViable(F, ProbePaths(F))
<1>1. /\ Requote(F, M, P, touched) /\ stopped' = stopped
      /\ M \in SUBSET MaterializedPaths(F) /\ P \in SUBSET ProbePaths(F)
      /\ touched \in SUBSET Routes
      /\ M \cup P = {r \in touched : QuoteOf(c, r) # 0}
  BY DEF RefreshRequote, TouchedViable, Viable, MaterializedPaths, ProbePaths
<1>2. Refreshing(F) /\ active /\ changed \subseteq F /\ changed' = {} /\ rate' = rate
  BY <1>1 DEF Requote, Refreshing, Reported, AffectedPools, worldVars
<1>3. /\ route_table' = [r \in Routes |-> IF r \in M \cup P THEN QuoteOf(c, r)
                                          ELSE IF r \in MaterializedPaths(F) THEN 0 ELSE route_table[r]]
      /\ quote_cache' = CachedAfter(c, touched) /\ best' = BestOf(route_table')
  BY <1>1 DEF Requote, InsertQuotes
<1>4. /\ SessionTypes' /\ IndexInv' /\ Indexed' \subseteq Indexed
      /\ Materialized' = Materialized \cup M \cup P
  <2> HIDE DEF M, P, touched
  <2>1. stopped' \in {"never", "at start", "at quote"}
    BY <1>1 DEF IInv, SessionTypes
  <2> QED
    BY <1>1, <2>1, RequoteIndexes
<1>5. ASSUME stopped = "never"
      PROVE  /\ \A r \in Materialized' : route_table'[r] = Fresh(r)'
             /\ FreshFor(quote_cache, Indexed \ changed)'
  <2>1. \A s \in touched : FreshFor(c, PoolsOf(s))
    BY <1>2, <1>5, InvalidatedFresh
  <2>2. \A s \in touched : s \in Routes /\ QuoteOf(c, s) = Fresh(s)
    BY <1>1, <2>1, QuoteFresh
  <2>3. \A r \in Routes : Fresh(r)' = Fresh(r)
    BY <1>2, FreshSame
  <2>4. ASSUME NEW r \in Materialized'
        PROVE  route_table'[r] = Fresh(r)'
    <3>1. r \in Routes
      BY DEF Materialized
    <3>2. CASE r \in M \cup P
      <4>1. r \in touched
        BY <1>1, <3>2
      <4> HIDE DEF M, P, touched, c
      <4> QED
        BY <1>3, <2>2, <2>3, <3>1, <3>2, <4>1
    <3>3. CASE r \in MaterializedPaths(F) /\ r \notin M \cup P
      <4>1. QuoteOf(c, r) = 0 /\ r \in touched
        BY <1>1, <3>3
      <4> HIDE DEF M, P, touched, c
      <4> QED
        BY <1>3, <2>2, <2>3, <3>1, <3>3, <4>1
    <3>4. CASE r \notin MaterializedPaths(F) /\ r \notin M \cup P
      <4> HIDE DEF M, P, touched, c
      <4>1. r \in Materialized /\ route_table'[r] = route_table[r]
        BY <1>3, <1>4, <3>1, <3>4
      <4>2. PoolsOf(r) \cap changed = {}
        BY <1>2, <3>1, <3>4, <4>1, InRouteIndex DEF MaterializedPaths, IInv
      <4>3. route_table[r] = Fresh(r)
        BY <1>2, <1>5, <4>1, <4>2 DEF IInv, ExactInv
      <4> QED
        BY <2>3, <3>1, <4>1, <4>3
    <3> QED
      BY <3>2, <3>3, <3>4
  <2>5. FreshFor(quote_cache, Indexed \ changed)'
    <3>1. FreshFor(quote_cache, Indexed \ changed)
      BY <1>2, <1>5 DEF IInv, ExactInv
    <3>2. \A q \in CachedAfter(c, touched) : q \in c \/ q.out = q.key[2] * rate[q.key[1].pool]
      <4> HIDE DEF c, touched
      <4> QED
        BY <1>1, <2>1, CachedFresh
    <3>3. \A q \in c : q \in quote_cache /\ q.key[1].pool \notin F
      BY DEF InvalidatePools
    <3> HIDE DEF c, touched
    <3> QED
      BY <1>2, <1>3, <1>4, <3>1, <3>2, <3>3 DEF FreshFor
  <2> QED
    BY <2>4, <2>5
<1>6. ExactInv'
  BY <1>1, <1>3, <1>5 DEF ExactInv, BestOf
<1> QED
  BY <1>4, <1>6 DEF IInv

LEMMA RequoteStoppedKeeps ==
  ASSUME IInv, NEW F \in SUBSET Pools, RefreshRequoteStopped(F)
  PROVE  IInv'
<1>1. PICK M \in UpToStop(TouchedViable(F, MaterializedPaths(F))),
           P \in UpToStop(TouchedViable(F, ProbePaths(F))) : Requote(F, M, P, M \cup P)
  BY DEF RefreshRequoteStopped
<1>2. M \in SUBSET MaterializedPaths(F) /\ P \in SUBSET ProbePaths(F)
  BY DEF UpToStop, TouchedViable, Viable
<1>3. M \cup P \in SUBSET Routes /\ stopped' = "at quote"
  BY <1>2 DEF MaterializedPaths, ProbePaths, RefreshRequoteStopped
<1>4. SessionTypes' /\ IndexInv'
  BY <1>1, <1>2, <1>3, RequoteIndexes
<1> QED
  BY <1>3, <1>4 DEF IInv, ExactInv

LEMMA InitHolds == Init => IInv
<1> SUFFICES ASSUME Init
             PROVE  IInv
  OBVIOUS
<1>1. Materialized = {}
  BY DEF Init, Materialized, NoTable
<1>2. SessionTypes
  <2>1. NumbersIn(quote_cache)
    BY DEF Init, NumbersIn
  <2>2. route_table \in [Routes -> Nat \cup {None}]
    BY DEF Init, NoTable
  <2>3. version = 0 /\ graph_version = 0 /\ graph_version <= version
    BY DEF Init
  <2>4. /\ rate \in [Pools -> Rates] /\ graph \subseteq Pools /\ changed \subseteq Pools
        /\ active \in BOOLEAN /\ stopped \in {"never", "at start", "at quote"}
    BY DEF Init
  <2>5. version \in Nat /\ graph_version \in Nat
    BY <2>3
  <2> QED
    BY <2>1, <2>2, <2>3, <2>4, <2>5 DEF SessionTypes
<1>3. IndexInv
  BY <1>1 DEF Init, IndexInv, IndexRoutePath, IndexProbePaths
<1> QED
  BY <1>2, <1>3 DEF Init, IInv, ExactInv

LEMMA StepKeeps == IInv /\ [Next]_vars => IInv'
<1> SUFFICES ASSUME IInv, [Next]_vars
             PROVE  IInv'
  OBVIOUS
<1>1. CASE \E S \in SUBSET Routes : StartRouteSession(S)
  BY <1>1, StartKeeps
<1>2. CASE \E C \in SUBSET Pools : UpdatePools(C)
  BY <1>2, UpdateKeeps
<1>3. CASE \E p \in Pools : ChangeTopology(p)
  BY <1>3, TopologyKeeps
<1>4. ASSUME NEW A, NEW d, RefreshRecompute(A, d)
      PROVE  IInv'
  <2>1. /\ changed' = {} /\ active' = FALSE
        /\ UNCHANGED <<rate, graph, version, route_table, pool_to_routes, parallel_probe_index,
                       best, quote_cache, graph_version, stopped>>
    BY <1>4 DEF RefreshRecompute, Reported, worldVars, tableVars
  <2> QED
    BY <2>1, QuietRefreshKeeps DEF IInv, SessionTypes
<1>5. ASSUME NEW F \in SUBSET Pools, RefreshStoppedAtStart(F)
      PROVE  IInv'
  <2>1. /\ changed' = {} /\ stopped' = "at start"
        /\ UNCHANGED <<rate, graph, version, route_table, pool_to_routes, parallel_probe_index,
                       best, quote_cache, graph_version, active>>
    BY <1>5 DEF RefreshStoppedAtStart, Refreshing, Reported, worldVars, tableVars
  <2> QED
    BY <2>1, QuietRefreshKeeps DEF IInv, SessionTypes
<1>6. CASE \E F \in SUBSET Pools :
             RefreshUntouched(F) \/ RefreshRequote(F) \/ RefreshRequoteStopped(F)
  BY <1>6, UntouchedKeeps, RequoteKeeps, RequoteStoppedKeeps
<1>7. CASE UNCHANGED vars
  <2>1. UNCHANGED <<rate, graph, version, changed, active, stopped, route_table, pool_to_routes,
                    parallel_probe_index, best, quote_cache, graph_version>>
    BY <1>7 DEF vars, worldVars, tableVars
  <2>2. Materialized' = Materialized /\ Indexed' = Indexed /\ \A r \in Routes : Fresh(r)' = Fresh(r)
    BY <2>1, FreshSame DEF Materialized, Indexed
  <2>3. SessionTypes'
    <3>1. NumbersIn(quote_cache)'
      BY <2>1 DEF IInv, SessionTypes, NumbersIn
    <3> QED
      BY <2>1, <3>1 DEF IInv, SessionTypes
  <2>4. IndexInv'
    BY <2>1, <2>2 DEF IInv, IndexInv, IndexRoutePath, IndexProbePaths, ProbesOf
  <2>5. ExactInv'
    <3> SUFFICES ASSUME active, stopped = "never"
                 PROVE  /\ \A r \in Materialized : PoolsOf(r) \cap changed = {} => route_table[r] = Fresh(r)'
                        /\ FreshFor(quote_cache, Indexed \ changed)'
      BY <2>1, <2>2 DEF IInv, ExactInv, BestOf
    <3>1. /\ \A r \in Materialized : PoolsOf(r) \cap changed = {} => route_table[r] = Fresh(r)
          /\ FreshFor(quote_cache, Indexed \ changed)
      BY DEF IInv, ExactInv
    <3>2. FreshFor(quote_cache, Indexed \ changed)'
      BY <2>1, <2>2, <3>1 DEF FreshFor
    <3> QED
      BY <2>2, <3>1, <3>2 DEF Materialized
  <2> QED
    BY <2>3, <2>4, <2>5 DEF IInv
<1> QED
  BY <1>1, <1>2, <1>3, <1>4, <1>5, <1>6, <1>7 DEF Next

LEMMA IInvAlways == Spec => []IInv
BY InitHolds, StepKeeps, PTL DEF Spec

\* refresh_affected is exact within the session's routes: after every refresh that no
\* callback stopped, each materialized route has the amount a fresh evaluation gives and
\* best is the best of them, whatever pools, routes, rates and reports there were.
THEOREM ExactWithinMaterializedAlways == Spec => []ExactWithinMaterialized
<1>1. IInv => ExactWithinMaterialized
  <2> SUFFICES ASSUME IInv, Refreshed, stopped = "never"
               PROVE  TableIsExact
    BY DEF ExactWithinMaterialized
  <2>1. /\ \A r \in Materialized : route_table[r] = Fresh(r)
        /\ best = BestOf(route_table)
    BY DEF IInv, ExactInv, Refreshed
  <2> QED
    BY <2>1 DEF TableIsExact, Materialized
<1> QED
  BY <1>1, IInvAlways, PTL

\* invalidate_pools is enough: no cached hop quote that an index of the session leads to is
\* stale, although a refresh that touches no route leaves stale quotes behind.
THEOREM CacheFreshAlways == Spec => []CacheFresh
<1>1. IInv => CacheFresh
  <2> SUFFICES ASSUME IInv, Refreshed, stopped = "never", NEW q \in quote_cache, NEW r \in Routes,
                      <<q.key[1].pool, r>> \in pool_to_routes \cup parallel_probe_index
               PROVE  q.out = q.key[2] * rate[q.key[1].pool]
    BY DEF CacheFresh
  <2>1. FreshFor(quote_cache, Indexed)
    BY DEF IInv, ExactInv, Refreshed, FreshFor
  <2>2. q.key[1].pool \in Indexed
    BY DEF Indexed, IInv, SessionTypes, NumbersIn
  <2> QED
    BY <2>1, <2>2 DEF FreshFor
<1> QED
  BY <1>1, IInvAlways, PTL
------------------------------------------------------------------------------
(* The best of the table *)

LEMMA RoutesFinite == IsFiniteSet(Routes)
<1> DEFINE U == {Links[p] : p \in Pools}
           T == UNION U
           X == Pools \X (T \X T)
           Y == SUBSET ((1 .. MaxHops) \X Hop)
           f == [p \in Pools |-> Links[p]]
           g == [h \in Hop |-> <<h.pool, <<h.token_in, h.token_out>>>>]
           k == [r \in Routes |-> {<<i, r[i]>> : i \in DOMAIN r}]
<1>1. IsFiniteSet(T)
  <2>1. f \in Surjection(Pools, U)
    BY DEF Surjection
  <2>2. IsFiniteSet(Pools) /\ \A u \in U : IsFiniteSet(u)
    BY SessionAssumption
  <2> HIDE DEF f
  <2>3. IsFiniteSet(U)
    BY <2>1, <2>2, FS_Surjection
  <2> QED
    BY <2>2, <2>3, FS_UNION
<1>2. IsFiniteSet(X)
  <2>1. IsFiniteSet(T \X T)
    BY <1>1, FS_Product
  <2> QED
    BY <2>1, SessionAssumption, FS_Product
<1>3. IsFiniteSet(Hop)
  <2>1. \A h \in Hop : /\ h = [pool |-> h.pool, token_in |-> h.token_in, token_out |-> h.token_out]
                       /\ h.pool \in Pools /\ h.token_in \in T /\ h.token_out \in T
    BY DEF Hop
  <2>2. g \in [Hop -> X]
    BY <2>1
  <2>3. \A a, b \in Hop : g[a] = g[b] => a = b
    <3> SUFFICES ASSUME NEW a \in Hop, NEW b \in Hop, g[a] = g[b]
                 PROVE  a = b
      OBVIOUS
    <3>1. a.pool = b.pool /\ a.token_in = b.token_in /\ a.token_out = b.token_out
      OBVIOUS
    <3> QED
      BY <2>1, <3>1
  <2>4. g \in Injection(Hop, X)
    BY <2>2, <2>3 DEF Injection, IsInjective
  <2> HIDE DEF g, X
  <2> QED
    BY <1>2, <2>4, FS_Injection
<1>4. IsFiniteSet(Y)
  <2>1. IsFiniteSet(1 .. MaxHops)
    BY SessionAssumption, FS_Interval
  <2>2. IsFiniteSet((1 .. MaxHops) \X Hop)
    BY <1>3, <2>1, FS_Product
  <2> QED
    BY <2>2, FS_SUBSET
<1>5. k \in [Routes -> Y]
  <2> SUFFICES ASSUME NEW r \in Routes
               PROVE  {<<i, r[i]>> : i \in DOMAIN r} \in Y
    OBVIOUS
  <2>1. DOMAIN r = 1 .. Len(r) /\ Len(r) \in 1 .. MaxHops /\ \A i \in 1 .. Len(r) : r[i] \in Hop
    BY RouteShape
  <2>2. \A i \in DOMAIN r : i \in 1 .. MaxHops /\ r[i] \in Hop
    BY <2>1, SessionAssumption
  <2> QED
    BY <2>2
<1>6. ASSUME NEW a \in Routes, NEW b \in Routes, k[a] = k[b]
      PROVE  a = b
  <2>1. {<<i, a[i]>> : i \in DOMAIN a} = {<<i, b[i]>> : i \in DOMAIN b}
    <3>1. k[a] = {<<i, a[i]>> : i \in DOMAIN a} /\ k[b] = {<<i, b[i]>> : i \in DOMAIN b}
      OBVIOUS
    <3> HIDE DEF k
    <3> QED
      BY <1>6, <3>1
  <2>2. \A i \in DOMAIN a : i \in DOMAIN b /\ a[i] = b[i]
    <3> SUFFICES ASSUME NEW i \in DOMAIN a
                 PROVE  i \in DOMAIN b /\ a[i] = b[i]
      OBVIOUS
    <3>1. <<i, a[i]>> \in {<<j, b[j]>> : j \in DOMAIN b}
      BY <2>1
    <3>2. PICK j \in DOMAIN b : <<i, a[i]>> = <<j, b[j]>>
      BY <3>1
    <3> QED
      BY <3>2
  <2>3. \A i \in DOMAIN b : i \in DOMAIN a
    <3> SUFFICES ASSUME NEW i \in DOMAIN b
                 PROVE  i \in DOMAIN a
      OBVIOUS
    <3>1. <<i, b[i]>> \in {<<j, a[j]>> : j \in DOMAIN a}
      BY <2>1
    <3>2. PICK j \in DOMAIN a : <<i, b[i]>> = <<j, a[j]>>
      BY <3>1
    <3> QED
      BY <3>2
  <2>4. a = [i \in DOMAIN a |-> a[i]] /\ b = [i \in DOMAIN b |-> b[i]]
    BY RouteShape
  <2> QED
    BY <2>2, <2>3, <2>4
<1>7. k \in Injection(Routes, Y)
  <2> HIDE DEF Y
  <2> QED
    BY <1>5, <1>6 DEF Injection, IsInjective
<1> HIDE DEF k, Y
<1> QED
  BY <1>4, <1>7, FS_Injection

\* A finite set of numbers has a greatest one.
LEMMA FiniteHasMax ==
  ASSUME NEW Q \in SUBSET Nat, IsFiniteSet(Q), Q # {}
  PROVE  \E m \in Q : \A n \in Q : n <= m
<1>1. PICK z \in Nat : ExistsSurjection(1 .. z, Q)
  BY FS_NatSurjection
<1>2. PICK f \in [1 .. z -> Q] : \A q \in Q : \E i \in 1 .. z : f[i] = q
  BY <1>1 DEF ExistsSurjection, Surjection
<1>a. \A i \in 1 .. z : f[i] \in Nat
  BY <1>2
<1> DEFINE S == {j \in Nat : j = 0 \/ j > z \/ \E m \in 1 .. j : \A i \in 1 .. j : f[i] <= f[m]}
<1>3. 0 \in S
  OBVIOUS
<1>4. ASSUME NEW j \in Nat, j \in S
      PROVE  j + 1 \in S
  <2>1. CASE j + 1 > z
    BY <2>1
  <2>2. CASE j = 0 /\ j + 1 <= z
    <3>0. 1 \in 1 .. z
      BY <2>2
    <3>1. f[1] \in Nat
      BY <1>a, <3>0
    <3>2. \A i \in 1 .. 1 : f[i] <= f[1]
      BY <3>1
    <3> QED
      BY <2>2, <3>2
  <2>3. CASE j # 0 /\ j + 1 <= z
    <3>1. PICK m \in 1 .. j : \A i \in 1 .. j : f[i] <= f[m]
      BY <1>4, <2>3
    <3>2. \A i \in 1 .. (j + 1) : f[i] \in Nat
      <4>1. \A i \in 1 .. (j + 1) : i \in 1 .. z
        BY <2>3
      <4> QED
        BY <1>a, <4>1
    <3>3. CASE f[j + 1] <= f[m]
      <4>1. m \in 1 .. (j + 1) /\ \A i \in 1 .. (j + 1) : f[i] <= f[m]
        BY <3>1, <3>3
      <4> QED
        BY <4>1
    <3>4. CASE ~(f[j + 1] <= f[m])
      <4>1. \A i \in 1 .. j : f[i] <= f[j + 1]
        BY <3>1, <3>2, <3>4
      <4>2. j + 1 \in 1 .. (j + 1) /\ \A i \in 1 .. (j + 1) : f[i] <= f[j + 1]
        BY <3>2, <4>1
      <4> QED
        BY <4>2
    <3> QED
      BY <3>3, <3>4
  <2> QED
    BY <2>1, <2>2, <2>3
<1>5. z \in S
  <2> HIDE DEF S
  <2> QED
    BY <1>3, <1>4, SetInduction
<1>6. z # 0
  <2>1. PICK q \in Q : TRUE
    OBVIOUS
  <2>2. PICK i \in 1 .. z : f[i] = q
    BY <1>2
  <2> QED
    BY <2>2
<1>7. PICK m \in 1 .. z : \A i \in 1 .. z : f[i] <= f[m]
  BY <1>5, <1>6
<1> QED
  BY <1>2, <1>7

LEMMA BestIsGreatest ==
  ASSUME NEW table \in [Routes -> Nat \cup {None}], NEW r \in Routes, table[r] # None, table[r] # 0
  PROVE  BestOf(table) # None /\ table[r] <= BestOf(table)
<1> DEFINE Q == {table[s] : s \in Routes} \ {None, 0}
           W == {table[s] : s \in Routes}
           f == [s \in Routes |-> table[s]]
<1>1. IsFiniteSet(Q)
  <2>1. f \in Surjection(Routes, W)
    BY DEF Surjection
  <2> HIDE DEF f
  <2>2. IsFiniteSet(W)
    BY <2>1, RoutesFinite, FS_Surjection
  <2> HIDE DEF W
  <2>3. IsFiniteSet(W \ {None, 0})
    BY <2>2, FS_Difference
  <2> QED
    BY <2>3 DEF W
<1>2. Q \in SUBSET Nat /\ table[r] \in Q
  OBVIOUS
<1>3. PICK m \in Q : \A n \in Q : n <= m
  <2> HIDE DEF Q
  <2> QED
    BY <1>1, <1>2, FiniteHasMax
<1>4. BestOf(table) = CHOOSE x \in Q : \A n \in Q : n <= x
  BY <1>2 DEF BestOf
<1>5. BestOf(table) \in Q /\ \A n \in Q : n <= BestOf(table)
  <2> HIDE DEF Q
  <2> QED
    BY <1>3, <1>4
<1> QED
  BY <1>2, <1>5

\* index_probe_paths_for_route and the probes of a refresh: no same-pair replacement of a
\* materialized route through a changed pool beats the best that the refresh settles on.
THEOREM RefreshSeesReplacementsAlways == Spec => RefreshSeesReplacements
<1>1. ASSUME IInv, Next, active, active', changed' = {}, stopped' = "never",
             NEW r \in Routes, route_table[r] # None, NEW x \in ProbesOf(r), x[2] \in changed,
             Fresh(Replaced(r, x[1], x[2])) # 0
      PROVE  best' # None /\ Fresh(Replaced(r, x[1], x[2])) <= best'
  <2> DEFINE s == Replaced(r, x[1], x[2])
  <2>1. PICK F \in SUBSET Pools : RefreshUntouched(F) \/ RefreshRequote(F)
    <3>1. ~\E S \in SUBSET Routes : StartRouteSession(S)
      BY <1>1 DEF StartRouteSession
    <3>2. ~\E C \in SUBSET Pools : UpdatePools(C)
      BY <1>1 DEF UpdatePools
    <3>3. ~\E p \in Pools : ChangeTopology(p)
      BY <1>1 DEF ChangeTopology
    <3>4. \A A, d : ~RefreshRecompute(A, d)
      BY <1>1 DEF RefreshRecompute
    <3>5. \A F : ~RefreshStoppedAtStart(F) /\ ~RefreshRequoteStopped(F)
      BY <1>1 DEF RefreshStoppedAtStart, RefreshRequoteStopped
    <3> QED
      BY <1>1, <3>1, <3>2, <3>3, <3>4, <3>5 DEF Next
  <2>2. Refreshing(F) /\ stopped = "never" /\ changed \subseteq F /\ graph_version = version
    <3>1. Refreshing(F) /\ stopped' = stopped
      BY <2>1 DEF RefreshUntouched, RefreshRequote, Requote
    <3> QED
      BY <1>1, <3>1 DEF Refreshing, Reported, AffectedPools, EarlyRecompute
  <2>3. s \in MaterializedPaths(F) \cup ProbePaths(F) /\ s \in Routes
    <3>1. s \in Routes
      BY <1>1, ReplacedIsRoute DEF IInv, SessionTypes
    <3>2. <<x[2], s>> \in parallel_probe_index
      BY <1>1, <2>2, InProbeIndex DEF IInv, Materialized
    <3> QED
      BY <1>1, <2>2, <3>1, <3>2 DEF ProbePaths
  <2>4. RefreshRequote(F)
    BY <2>1, <2>3 DEF RefreshUntouched
  <2> DEFINE c == InvalidatePools(quote_cache, F)
             M == TouchedViable(F, MaterializedPaths(F))
             P == TouchedViable(F, ProbePaths(F))
  <2>5. QuoteOf(c, s) = Fresh(s)
    BY <1>1, <2>2, <2>3, InvalidatedFresh, QuoteFresh
  <2>6. s \in M \cup P
    BY <1>1, <2>3, <2>5 DEF TouchedViable, Viable
  <2>7. route_table'[s] = Fresh(s) /\ best' = BestOf(route_table')
    BY <2>3, <2>4, <2>5, <2>6 DEF RefreshRequote, Requote, InsertQuotes
  <2>8. route_table' \in [Routes -> Nat \cup {None}] /\ Fresh(s) \in Nat
    <3>1. IInv'
      BY <1>1, StepKeeps
    <3>2. NumbersIn({}) /\ rate \in [Pools -> Rates]
      BY <1>1 DEF NumbersIn, IInv, SessionTypes
    <3> QED
      BY <2>3, <3>1, <3>2, QuoteNat DEF IInv, SessionTypes, Fresh
  <2>9. Fresh(s) # None
    BY <2>8, SessionAssumption
  <2> HIDE DEF s
  <2> QED
    BY <1>1, <2>3, <2>7, <2>8, <2>9, BestIsGreatest DEF s
<1>2. IInv /\ [Next]_vars =>
        [active /\ active' /\ changed' = {} /\ stopped' = "never" =>
           \A r \in {s \in Routes : route_table[s] # None} : \A x \in ProbesOf(r) :
             (x[2] \in changed /\ Fresh(Replaced(r, x[1], x[2])) # 0) =>
                best' # None /\ Fresh(Replaced(r, x[1], x[2])) <= best']_vars
  BY <1>1
<1> QED
  BY <1>2, IInvAlways, PTL DEF Spec, RefreshSeesReplacements
==============================================================================
