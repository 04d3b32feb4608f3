---------------------------- MODULE LiquidityProofs ----------------------------
(***************************************************************************)
(* Proofs about Liquidity: a fresh balance is the pool's, or the cache's of *)
(* a slot that was misread, and the reverse indexes agree with the targets  *)
(* they lead to.                                                            *)
(*                                                                         *)
(* The invariant is about the index as a value: Good(x, reg, c) says of an  *)
(* index x that it belongs to registrations reg and to what each slot may   *)
(* be taken to hold, c, a set of words each (Believed). Each                *)
(* operation is shown to lead from a good index to a good index once, and   *)
(* an action is a composition of them. reconcile_pools goes through indexes *)
(* in which some pools have their new registration and others the old one.  *)
(***************************************************************************)
EXTENDS Liquidity, FiniteSetTheorems, SequenceTheorems, TLAPS

------------------------------------------------------------------------------
(* The inductive invariant *)

Source == [kind : {"erc20", "cash", "unknown"}, holder : Nat, known : BOOLEAN,
           slot : VaultSlots \cup {0}, high : BOOLEAN]
Target == [token : Tokens, source : Source, balance : Int, active : BOOLEAN]
Index ==
  [targets : Seq(Target), by_pool : [Pools -> Seq(Nat)],
   by_pool_token : SUBSET ((Pools \X Tokens) \X Nat),
   by_token_holder : SUBSET ((Tokens \X Nat) \X Nat),
   by_storage_slot : SUBSET (Slots \X Nat), free : Seq(Nat), counts : [Pools -> Nat]]

Active(x) == {i \in DOMAIN x.targets : x.targets[i].active}

\* Every pool owns the places of its targets alone, and a place that is free is free once.
Places(x) ==
  /\ \A p \in Pools : \A k \in DOMAIN x.by_pool[p] : x.by_pool[p][k] \in Active(x)
  /\ \A p, q \in Pools : \A k \in DOMAIN x.by_pool[p], l \in DOMAIN x.by_pool[q] :
       x.by_pool[p][k] = x.by_pool[q][l] => p = q /\ k = l
  /\ \A k \in DOMAIN x.free : x.free[k] \in DOMAIN x.targets /\ x.free[k] \notin Active(x)
  /\ \A k, l \in DOMAIN x.free : x.free[k] = x.free[l] => k = l

\* A source of a token's balance in a pool of registration r.
Fits(source, p, r, t) ==
  \/ source.kind = "unknown"
  \/ source.kind = "erc20" /\ r.kind = "erc20" /\ source.holder = Holder[p]
  \/ r.kind = "balancer" /\ t \in DOMAIN r.cash /\ source = Cash(r.cash[t])

\* What is found for a pool and a token is one of the pool's targets, of that token, and
\* read from where the pool's registration says.
Tracked(x, reg) ==
  \A p \in Pools, t \in Tokens, i \in Nat : <<<<p, t>>, i>> \in x.by_pool_token =>
    /\ \E k \in DOMAIN x.by_pool[p] : x.by_pool[p][k] = i
    /\ x.targets[i].token = t /\ Fits(x.targets[i].source, p, reg[p], t)

\* The reverse indexes lead to the targets of a token and holder and of a slot, to all of
\* them and to no other.
Indexed(x) ==
  /\ \A t \in Tokens, h \in Nat, i \in Nat : <<<<t, h>>, i>> \in x.by_token_holder <=>
       i \in Active(x) /\ x.targets[i].token = t
       /\ x.targets[i].source.kind = "erc20" /\ x.targets[i].source.holder = h
  /\ \A s \in Slots, i \in Nat : <<s, i>> \in x.by_storage_slot <=>
       i \in Active(x) /\ s \in StorageSlot(x.targets[i].token, x.targets[i].source)

\* A target's slot is one of the chain's, and a fresh balance is what may be there.
GoodSource(t, source) ==
  /\ source.kind = "erc20" => <<t, source.holder>> \in Slots
  /\ source.kind = "cash" => source.slot \in VaultSlots
TrueBalance(target, c) ==
  target.balance >= 0 =>
    \E s \in StorageSlot(target.token, target.source) : \E w \in c[s] :
      target.balance = Decoded(target.source, w)
Honest(x, c) ==
  \A i \in Active(x) : GoodSource(x.targets[i].token, x.targets[i].source) /\ TrueBalance(x.targets[i], c)

Words == [Slots -> Nat \X Nat]
CacheOk == hot \subseteq Slots /\ cache \in [hot -> Nat \X Nat] /\ misread \subseteq hot

Good(x, reg, c) == x \in Index /\ Places(x) /\ Tracked(x, reg) /\ Indexed(x) /\ Honest(x, c)
IndexInv ==
  registry \in Registries /\ chain \in Words /\ CacheOk /\ Good(ix, registry, Believed)

------------------------------------------------------------------------------
(* Induction over sets of numbers, and sorted sequences *)

\* A set that has 0 and with every number the next one has them all. (Else the numbers
\* up to a missing one that are missing too map one to one to themselves without that one.)
LEMMA SetInduction ==
  ASSUME NEW S, 0 \in S, \A n \in Nat : n \in S => n + 1 \in S
  PROVE  \A n \in Nat : n \in S
<1> SUFFICES ASSUME NEW m \in Nat, m \notin S
             PROVE  FALSE
  OBVIOUS
<1> DEFINE T == {x \in 0 .. m : x \notin S}
           f == [x \in T |-> x - 1]
<1>1. IsFiniteSet(T)
  <2>1. T \in SUBSET (0 .. m) /\ IsFiniteSet(0 .. m)
    BY FS_Interval
  <2> QED
    BY <2>1, FS_Subset
<1>2. m \in T
  OBVIOUS
<1>3. \A x \in T : x - 1 \in T \ {m}
  <2> SUFFICES ASSUME NEW x \in T
               PROVE  x - 1 \in T \ {m}
    OBVIOUS
  <2>1. x \in Nat /\ x # 0 /\ x <= m /\ x \notin S
    OBVIOUS
  <2>2. x - 1 \in Nat /\ (x - 1) + 1 = x
    BY <2>1
  <2> QED
    BY <2>1, <2>2
<1>4. f \in [T -> T \ {m}]
  BY <1>3
<1>5. IsFiniteSet(T \ {m}) /\ Cardinality(T \ {m}) = Cardinality(T) - 1 /\ Cardinality(T) \in Nat
  BY <1>1, <1>2, FS_RemoveElement, FS_CardinalityType
<1>6. PICK x, y \in T : x # y /\ f[x] = f[y]
  <2> HIDE DEF f, T
  <2> QED
    BY <1>1, <1>4, <1>5, FS_PigeonHole
<1> QED
  BY <1>6

\* A finite set of numbers has a bound.
LEMMA FiniteIsBounded ==
  ASSUME NEW S \in SUBSET Nat, IsFiniteSet(S)
  PROVE  \E b \in Nat : \A x \in S : x < b
<1>1. PICK n \in Nat : ExistsSurjection(1 .. n, S)
  BY FS_NatSurjection
<1>2. PICK f : f \in Surjection(1 .. n, S)
  BY <1>1 DEF ExistsSurjection
<1>3. f \in [1 .. n -> S] /\ \A x \in S : \E i \in 1 .. n : f[i] = x
  BY <1>2 DEF Surjection
<1> DEFINE K == {k \in Nat : \E b \in Nat : \A i \in 1 .. n : i <= k => f[i] < b}
<1>4. 0 \in K
  OBVIOUS
<1>5. ASSUME NEW k \in Nat, k \in K
      PROVE  k + 1 \in K
  <2>1. PICK b \in Nat : \A i \in 1 .. n : i <= k => f[i] < b
    BY <1>5
  <2>2. CASE k + 1 \in 1 .. n
    <3>1. f[k + 1] \in Nat
      BY <1>3, <2>2
    <3> DEFINE c == b + f[k + 1] + 1
    <3>2. c \in Nat /\ f[k + 1] < c /\ b <= c
      BY <3>1
    <3> HIDE DEF c
    <3>3. \A i \in 1 .. n : i <= k + 1 => f[i] < c
      <4> SUFFICES ASSUME NEW i \in 1 .. n, i <= k + 1
                   PROVE  f[i] < c
        OBVIOUS
      <4>1. f[i] \in Nat
        BY <1>3
      <4>2. CASE i = k + 1
        BY <3>2, <4>2
      <4>3. CASE i # k + 1
        <5>1. i <= k
          BY <4>3
        <5> QED
          BY <2>1, <3>2, <4>1, <5>1
      <4> QED
        BY <4>2, <4>3
    <3> QED
      BY <3>2, <3>3
  <2>3. CASE k + 1 \notin 1 .. n
    <3>1. \A i \in 1 .. n : i <= k + 1 => i <= k
      BY <2>3
    <3> QED
      BY <2>1, <3>1
  <2> QED
    BY <2>2, <2>3
<1>6. \A k \in Nat : k \in K
  <2> HIDE DEF K
  <2> QED
    BY <1>4, <1>5, SetInduction
<1>7. PICK b \in Nat : \A i \in 1 .. n : i <= n => f[i] < b
  BY <1>6
<1>8. \A i \in 1 .. n : f[i] < b
  BY <1>7
<1> QED
  BY <1>3, <1>8

\* The order of Ascending.
Increasing(s, n) == \A i, j \in 1 .. n : i < j => s[i] < s[j]

\* A finite set of numbers can be listed in increasing order: by induction on a bound, the
\* greatest element last.
LEMMA IncreasingExists ==
  ASSUME NEW S \in SUBSET Nat, IsFiniteSet(S)
  PROVE  \E s \in [1 .. Cardinality(S) -> S] : Increasing(s, Cardinality(S))
<1> DEFINE Sorts(U) == \E s \in [1 .. Cardinality(U) -> U] : Increasing(s, Cardinality(U))
           K == {b \in Nat : \A U \in SUBSET Nat : (IsFiniteSet(U) /\ \A x \in U : x < b) => Sorts(U)}
<1>1. 0 \in K
  <2> SUFFICES ASSUME NEW U \in SUBSET Nat, IsFiniteSet(U), \A x \in U : x < 0
               PROVE  Sorts(U)
    OBVIOUS
  <2>1. U = {} /\ Cardinality(U) = 0
    <3>1. U = {}
      OBVIOUS
    <3> QED
      BY <3>1, FS_EmptySet
  <2> DEFINE s == [i \in 1 .. 0 |-> 0]
  <2>2. s \in [1 .. 0 -> U] /\ Increasing(s, 0)
    BY DEF Increasing
  <2> HIDE DEF s
  <2> QED
    BY <2>1, <2>2
<1>2. ASSUME NEW b \in Nat, b \in K
      PROVE  b + 1 \in K
  <2> SUFFICES ASSUME NEW U \in SUBSET Nat, IsFiniteSet(U), \A x \in U : x < b + 1
               PROVE  Sorts(U)
    OBVIOUS
  <2>1. CASE b \notin U
    <3>1. \A x \in U : x < b
      BY <2>1
    <3> HIDE DEF Sorts
    <3> QED
      BY <1>2, <3>1
  <2>2. CASE b \in U
    <3> DEFINE V == U \ {b}
               n == Cardinality(V)
    <3>1. IsFiniteSet(V) /\ n \in Nat /\ Cardinality(U) = n + 1
      <4>1. IsFiniteSet(V) /\ n = Cardinality(U) - 1
        BY <2>2, FS_RemoveElement
      <4>2. Cardinality(U) \in Nat /\ n \in Nat
        <5> HIDE DEF V
        <5> QED
          BY <4>1, FS_CardinalityType
      <4> HIDE DEF V, n
      <4> QED
        BY <4>1, <4>2
    <3>2. V \in SUBSET Nat /\ \A x \in V : x < b
      OBVIOUS
    <3>3. Sorts(V)
      <4> HIDE DEF Sorts, V
      <4> QED
        BY <1>2, <3>1, <3>2
    <3>4. PICK s \in [1 .. n -> V] : Increasing(s, n)
      BY <3>3
    <3> HIDE DEF n
    <3> DEFINE t == [i \in 1 .. n + 1 |-> IF i <= n THEN s[i] ELSE b]
    <3>5. \A i \in 1 .. n + 1 : i <= n => i \in 1 .. n /\ t[i] = s[i] /\ s[i] \in V
      BY <3>1
    <3>6. t[n + 1] = b
      BY <3>1
    <3>7. t \in [1 .. n + 1 -> U]
      BY <2>2, <3>1
    <3> HIDE DEF t
    <3>8. ASSUME NEW i \in 1 .. n + 1, NEW j \in 1 .. n + 1, i < j
          PROVE  t[i] < t[j]
      <4>1. i <= n /\ t[i] = s[i] /\ s[i] < b
        <5>1. i <= n
          BY <3>1, <3>8
        <5>2. t[i] = s[i] /\ s[i] \in V
          BY <3>5, <5>1
        <5> HIDE DEF V
        <5> QED
          BY <3>2, <5>1, <5>2
      <4>2. CASE j = n + 1
        BY <3>6, <4>1, <4>2
      <4>3. CASE j # n + 1
        <5>1. j <= n
          BY <3>1, <4>3
        <5> QED
          BY <3>4, <3>5, <3>8, <4>1, <5>1 DEF Increasing
      <4> QED
        BY <4>2, <4>3
    <3>9. Increasing(t, n + 1)
      BY <3>8 DEF Increasing
    <3> QED
      BY <3>1, <3>7, <3>9
  <2> QED
    BY <2>1, <2>2
<1>3. \A b \in Nat : b \in K
  <2> HIDE DEF K
  <2> QED
    BY <1>1, <1>2, SetInduction
<1>4. PICK b \in Nat : \A x \in S : x < b
  BY FiniteIsBounded
<1>5. Sorts(S)
  <2> HIDE DEF Sorts
  <2> QED
    BY <1>3, <1>4
<1> QED
  BY <1>5

\* A set in ascending order, every element of it.
LEMMA AscendingOrder ==
  ASSUME NEW S \in SUBSET Nat, IsFiniteSet(S)
  PROVE  /\ Ascending(S) \in Seq(S)
         /\ \A x \in S : \E i \in 1 .. Len(Ascending(S)) : Ascending(S)[i] = x
<1> DEFINE n == Cardinality(S)
           s == Ascending(S)
<1>1. n \in Nat
  BY FS_CardinalityType
<1>2. s \in [1 .. n -> S] /\ Increasing(s, n)
  <2>1. \E f \in [1 .. n -> S] : \A i, j \in 1 .. n : i < j => f[i] < f[j]
    BY IncreasingExists DEF Increasing
  <2> QED
    BY <2>1 DEF Ascending, Increasing
<1> HIDE DEF s
<1>3. IsInjective(s)
  <2> SUFFICES ASSUME NEW i \in 1 .. n, NEW j \in 1 .. n, s[i] = s[j]
               PROVE  i = j
    BY <1>2 DEF IsInjective
  <2>1. s[i] \in Nat /\ s[j] \in Nat /\ i \in Nat /\ j \in Nat
    <3>1. s[i] \in S /\ s[j] \in S
      BY <1>2
    <3>2. S \subseteq Nat
      OBVIOUS
    <3>3. s[i] \in Nat /\ s[j] \in Nat
      BY <3>1, <3>2, Zenon
    <3> HIDE DEF n
    <3> QED
      BY <1>1, <3>3
  <2>2. (i < j => s[i] < s[j]) /\ (j < i => s[j] < s[i])
    BY <1>2 DEF Increasing
  <2> QED
    BY <2>1, <2>2
<1>4. s \in Injection(1 .. n, S)
  BY <1>2, <1>3 DEF Injection
<1>5. Cardinality(1 .. n) = n
  BY <1>1, FS_Interval
<1>6. s \in Surjection(1 .. n, S)
  BY <1>4, <1>5, FS_Injection
<1>7. s \in Seq(S) /\ Len(s) = n
  BY <1>1, <1>2
<1> QED
  BY <1>6, <1>7 DEF Surjection, s

------------------------------------------------------------------------------
(* Pushing a target *)

\* The place a push takes, and the places that stay free.
PlaceOf(x) == IF x.free = <<>> THEN Len(x.targets) + 1 ELSE Last(x.free)
FreeOf(x) == IF x.free = <<>> THEN x.free ELSE Front(x.free)

\* The place a push takes is one no target is active in, and it is free no longer.
LEMMA PushPlace ==
  ASSUME NEW x, x \in Index, Places(x)
  PROVE  LET i == PlaceOf(x)
             free == FreeOf(x)
         IN
         /\ i \in Nat /\ i \notin Active(x)
         /\ (1 .. Len(x.targets)) \cup {i} = 1 .. (IF x.free = <<>> THEN i ELSE Len(x.targets))
         /\ free \in Seq(Nat)
         /\ \A k \in DOMAIN free : free[k] \in DOMAIN x.targets /\ free[k] \notin Active(x) /\ free[k] # i
         /\ \A k, l \in DOMAIN free : free[k] = free[l] => k = l
<1> DEFINE i == PlaceOf(x)
           free == FreeOf(x)
<1>0. (i = IF x.free = <<>> THEN Len(x.targets) + 1 ELSE Last(x.free))
      /\ (free = IF x.free = <<>> THEN x.free ELSE Front(x.free))
  BY DEF PlaceOf, FreeOf
<1> HIDE DEF i, free
<1>1. x.targets \in Seq(Target) /\ x.free \in Seq(Nat) /\ Len(x.targets) \in Nat /\ DOMAIN x.targets = 1 .. Len(x.targets)
  BY DEF Index
<1>2. CASE x.free = <<>>
  <2>1. i = Len(x.targets) + 1 /\ free = <<>>
    BY <1>0, <1>2
  <2>2. i \notin DOMAIN x.targets /\ i \in Nat
    BY <1>1, <2>1
  <2>3. (1 .. Len(x.targets)) \cup {i} = 1 .. i
    BY <1>1, <2>1
  <2> QED
    BY <1>2, <2>1, <2>2, <2>3 DEF Active, i, free
<1>3. CASE x.free # <<>>
  <2> DEFINE n == Len(x.free)
  <2>1. n \in Nat /\ n > 0 /\ DOMAIN x.free = 1 .. n
    BY <1>1, <1>3
  <2>2. i = x.free[n] /\ free = SubSeq(x.free, 1, n - 1)
    BY <1>0, <1>3 DEF Last, Front
  <2>3. free \in Seq(Nat) /\ DOMAIN free = 1 .. (n - 1) /\ \A k \in 1 .. (n - 1) : free[k] = x.free[k]
    <3> HIDE DEF n
    <3>1. \A k \in 1 .. (n - 1) : x.free[k] \in Nat /\ k \in 1 .. n
      BY <1>1, <2>1
    <3>2. free = [k \in 1 .. (n - 1) |-> x.free[k]]
      BY <2>1, <2>2 
    <3> QED
      BY <2>1, <3>1, <3>2
  <2>4. i \in DOMAIN x.targets /\ i \notin Active(x)
    BY <2>1, <2>2 DEF Places
  <2>5. \A k \in DOMAIN free : k \in DOMAIN x.free /\ k # n /\ free[k] = x.free[k]
    <3> HIDE DEF n
    <3>1. \A k \in 1 .. (n - 1) : k \in 1 .. n /\ k # n
      BY <2>1
    <3> QED
      BY <2>1, <2>3, <3>1
  <2>6. (1 .. Len(x.targets)) \cup {i} = 1 .. Len(x.targets) /\ i \in Nat
    BY <1>1, <2>4
  <2>7. n \in DOMAIN x.free
    BY <2>1
  <2> HIDE DEF n
  <2>8. \A k \in DOMAIN free : free[k] \in DOMAIN x.targets /\ free[k] \notin Active(x) /\ free[k] # i
    BY <2>2, <2>5, <2>7 DEF Places
  <2>9. \A k, l \in DOMAIN free : free[k] = free[l] => k = l
    BY <2>5 DEF Places
  <2> QED
    BY <1>3, <2>3, <2>4, <2>6, <2>8, <2>9 DEF i, free
<1> QED
  BY <1>2, <1>3 DEF i, free

\* A push of a target whose source is the pool's and whose balance is fresh or none.
LEMMA PushKeeps ==
  ASSUME NEW x, NEW R, NEW c, Good(x, R, c), NEW p \in Pools, NEW token \in Tokens,
         NEW source \in Source, NEW balance \in Int, GoodSource(token, source),
         Fits(source, p, R[p], token),
         TrueBalance([token |-> token, source |-> source, balance |-> balance, active |-> TRUE], c)
  PROVE  Good(Push(x, p, token, source, balance), R, c)
<1> DEFINE i == PlaceOf(x)
           target == [token |-> token, source |-> source, balance |-> balance, active |-> TRUE]
           free == FreeOf(x)
           y == Push(x, p, token, source, balance)
           holders == IF source.kind = "erc20" THEN {<<<<token, source.holder>>, i>>} ELSE {}
           slots == StorageSlot(token, source)
<1>1. x \in Index /\ Places(x) /\ Tracked(x, R) /\ Indexed(x) /\ Honest(x, c)
  BY DEF Good
<1>2. /\ i \in Nat /\ i \notin Active(x)
      /\ (1 .. Len(x.targets)) \cup {i} = 1 .. (IF x.free = <<>> THEN i ELSE Len(x.targets))
      /\ free \in Seq(Nat)
      /\ \A k \in DOMAIN free : free[k] \in DOMAIN x.targets /\ free[k] \notin Active(x) /\ free[k] # i
      /\ \A k, l \in DOMAIN free : free[k] = free[l] => k = l
  BY <1>1, PushPlace
<1>3. /\ y.free = free
      /\ y.targets = [j \in (1 .. Len(x.targets)) \cup {i} |-> IF j = i THEN target ELSE x.targets[j]]
      /\ y.by_pool = [x.by_pool EXCEPT ![p] = Append(@, i)]
      /\ y.by_pool_token = {e \in x.by_pool_token : e[1] # <<p, token>>} \cup {<<<<p, token>>, i>>}
      /\ y.by_token_holder = x.by_token_holder \cup holders
      /\ y.by_storage_slot = x.by_storage_slot \cup (slots \X {i})
      /\ y.counts = x.counts
      /\ y = [targets |-> y.targets, by_pool |-> y.by_pool, by_pool_token |-> y.by_pool_token,
              by_token_holder |-> y.by_token_holder, by_storage_slot |-> y.by_storage_slot,
              free |-> y.free, counts |-> y.counts]
  <2> DEFINE T == [j \in (1 .. Len(x.targets)) \cup {i} |-> IF j = i THEN target ELSE x.targets[j]]
             B == [x.by_pool EXCEPT ![p] = Append(x.by_pool[p], i)]
             K == {e \in x.by_pool_token : e[1] # <<p, token>>} \cup {<<<<p, token>>, i>>}
             H == x.by_token_holder \cup holders
             S == x.by_storage_slot \cup (slots \X {i})
  <2>1. y = [x EXCEPT !.free = free, !.targets = T, !.by_pool = B, !.by_pool_token = K,
                      !.by_token_holder = H, !.by_storage_slot = S]
    BY DEF Push, PlaceOf, FreeOf
  <2>2. x = [targets |-> x.targets, by_pool |-> x.by_pool, by_pool_token |-> x.by_pool_token,
             by_token_holder |-> x.by_token_holder, by_storage_slot |-> x.by_storage_slot,
             free |-> x.free, counts |-> x.counts]
    BY <1>1 DEF Index
  <2> HIDE DEF T, B, K, H, S, free, y
  <2>3. y = [targets |-> T, by_pool |-> B, by_pool_token |-> K, by_token_holder |-> H,
             by_storage_slot |-> S, free |-> free, counts |-> x.counts]
    BY <2>1, <2>2
  <2> QED
    BY <2>3 DEF T, B, K, H, S
<1> HIDE DEF i, free, y
<1>4. x.targets \in Seq(Target) /\ Len(x.targets) \in Nat /\ DOMAIN x.targets = 1 .. Len(x.targets)
  BY <1>1 DEF Index
<1>5. target \in Target /\ target.token = token /\ target.source = source /\ target.active
  BY DEF Target
<1>6. slots \subseteq Slots /\ slots = StorageSlot(token, source)
  <2>1. source.kind = "erc20" => <<token, source.holder>> \in Slots
    BY DEF GoodSource
  <2>2. source.kind = "cash" => <<Vault, source.slot>> \in Slots
    BY DEF GoodSource, Slots
  <2> QED
    BY <2>1, <2>2 DEF StorageSlot
<1> HIDE DEF target, slots
<1>7. /\ DOMAIN y.targets = DOMAIN x.targets \cup {i} /\ y.targets[i] = target
      /\ \A j \in DOMAIN x.targets : j # i => y.targets[j] = x.targets[j]
      /\ y.targets \in Seq(Target)
  <2>1. DOMAIN y.targets = DOMAIN x.targets \cup {i} /\ y.targets[i] = target
        /\ \A j \in DOMAIN x.targets : j # i => y.targets[j] = x.targets[j]
    BY <1>3, <1>4
  <2>2. \A j \in DOMAIN y.targets : y.targets[j] \in Target
    BY <1>4, <1>5, <2>1
  <2>3. \E n \in Nat : DOMAIN y.targets = 1 .. n
    BY <1>2, <1>3, <1>4
  <2>4. y.targets = [j \in DOMAIN y.targets |-> y.targets[j]]
    BY <1>3
  <2>5. PICK n \in Nat : DOMAIN y.targets = 1 .. n
    BY <2>3
  <2>6. y.targets \in [1 .. n -> Target]
    BY <2>2, <2>4, <2>5
  <2> QED
    BY <2>1, <2>5, <2>6
<1>8. /\ \A q \in Pools : q # p => y.by_pool[q] = x.by_pool[q]
      /\ y.by_pool[p] = Append(x.by_pool[p], i) /\ y.by_pool \in [Pools -> Seq(Nat)]
      /\ x.by_pool[p] \in Seq(Nat)
  <2>1. x.by_pool \in [Pools -> Seq(Nat)]
    BY <1>1 DEF Index
  <2>2. x.by_pool[p] \in Seq(Nat) /\ Append(x.by_pool[p], i) \in Seq(Nat)
    BY <1>2, <2>1
  <2> QED
    BY <1>3, <2>1, <2>2
<1>9. y \in Index
  <2>1. y.by_pool_token \in SUBSET ((Pools \X Tokens) \X Nat)
    <3>1. x.by_pool_token \in SUBSET ((Pools \X Tokens) \X Nat)
      BY <1>1 DEF Index
    <3> QED
      BY <1>2, <1>3, <3>1
  <2>2. y.by_token_holder \in SUBSET ((Tokens \X Nat) \X Nat)
    <3>1. x.by_token_holder \in SUBSET ((Tokens \X Nat) \X Nat)
      BY <1>1 DEF Index
    <3>2. source.holder \in Nat
      BY DEF Source
    <3>3. holders \in SUBSET ((Tokens \X Nat) \X Nat)
      BY <1>2, <3>2
    <3> HIDE DEF holders
    <3> QED
      BY <1>3, <3>1, <3>3
  <2>3. y.by_storage_slot \in SUBSET (Slots \X Nat)
    <3>1. x.by_storage_slot \in SUBSET (Slots \X Nat)
      BY <1>1 DEF Index
    <3> QED
      BY <1>2, <1>3, <1>6, <3>1
  <2>4. y.counts \in [Pools -> Nat]
    BY <1>1, <1>3 DEF Index
  <2> QED
    BY <1>2, <1>3, <1>7, <1>8, <2>1, <2>2, <2>3, <2>4 DEF Index
<1>10. \A j \in Nat : j \in Active(y) <=> j \in Active(x) \/ j = i
  BY <1>2, <1>4, <1>5, <1>7 DEF Active
<1>11. \A j \in Active(x) : j \in DOMAIN x.targets /\ j \in Nat /\ j # i /\ y.targets[j] = x.targets[j]
  BY <1>2, <1>4, <1>7 DEF Active
<1>12. /\ i \in Active(y) /\ \A j \in Active(x) : j \in Active(y)
       /\ \A j \in Active(y) : j \in Nat
  <2>1. \A j \in Active(y) : j \in Nat
    BY <1>2, <1>4, <1>7 DEF Active
  <2> QED
    BY <1>2, <1>10, <1>11, <2>1
<1>13. Places(y)
  <2> DEFINE n == Len(x.by_pool[p])
  <2>1. n \in Nat /\ DOMAIN x.by_pool[p] = 1 .. n /\ DOMAIN y.by_pool[p] = 1 .. (n + 1)
        /\ y.by_pool[p][n + 1] = i /\ \A k \in 1 .. n : y.by_pool[p][k] = x.by_pool[p][k]
    BY <1>2, <1>8
  <2> HIDE DEF n
  <2>2. \A q \in Pools : \A k \in DOMAIN y.by_pool[q] :
          \/ q = p /\ k = n + 1 /\ y.by_pool[q][k] = i
          \/ k \in DOMAIN x.by_pool[q] /\ y.by_pool[q][k] = x.by_pool[q][k] /\ x.by_pool[q][k] \in Active(x)
    <3> SUFFICES ASSUME NEW q \in Pools, NEW k \in DOMAIN y.by_pool[q]
                 PROVE  \/ q = p /\ k = n + 1 /\ y.by_pool[q][k] = i
                        \/ k \in DOMAIN x.by_pool[q] /\ y.by_pool[q][k] = x.by_pool[q][k] /\ x.by_pool[q][k] \in Active(x)
      OBVIOUS
    <3>1. CASE q # p
      BY <1>1, <1>8, <3>1 DEF Places
    <3>2. CASE q = p /\ k = n + 1
      BY <2>1, <3>2
    <3>3. CASE q = p /\ k # n + 1
      <4>1. k \in 1 .. n
        BY <2>1, <3>3
      <4> QED
        BY <1>1, <2>1, <3>3, <4>1 DEF Places
    <3> QED
      BY <3>1, <3>2, <3>3
  <2>3. \A q \in Pools : \A k \in DOMAIN y.by_pool[q] : y.by_pool[q][k] \in Active(y)
    BY <1>12, <2>2
  <2>4. \A q, r \in Pools : \A k \in DOMAIN y.by_pool[q], l \in DOMAIN y.by_pool[r] :
          y.by_pool[q][k] = y.by_pool[r][l] => q = r /\ k = l
    BY <1>1, <1>2, <2>2 DEF Places
  <2>5. \A k \in DOMAIN y.free : y.free[k] \in DOMAIN y.targets /\ y.free[k] \notin Active(y)
    <3> SUFFICES ASSUME NEW k \in DOMAIN free
                 PROVE  free[k] \in DOMAIN y.targets /\ free[k] \notin Active(y)
      BY <1>3
    <3>1. free[k] \in DOMAIN x.targets /\ free[k] \notin Active(x) /\ free[k] # i
      BY <1>2
    <3>2. free[k] \in Nat
      BY <1>4, <3>1
    <3> QED
      BY <1>7, <1>10, <3>1, <3>2
  <2>6. \A k, l \in DOMAIN y.free : y.free[k] = y.free[l] => k = l
    BY <1>2, <1>3
  <2> QED
    BY <2>3, <2>4, <2>5, <2>6 DEF Places
<1>14. Tracked(y, R)
  <2> SUFFICES ASSUME NEW q \in Pools, NEW t \in Tokens, NEW j \in Nat, <<<<q, t>>, j>> \in y.by_pool_token
               PROVE  /\ \E k \in DOMAIN y.by_pool[q] : y.by_pool[q][k] = j
                      /\ y.targets[j].token = t /\ Fits(y.targets[j].source, q, R[q], t)
    BY DEF Tracked
  <2>0. \A q2 \in Pools : \A k \in DOMAIN x.by_pool[q2] : k \in DOMAIN y.by_pool[q2] /\ y.by_pool[q2][k] = x.by_pool[q2][k]
    <3> SUFFICES ASSUME NEW q2 \in Pools, NEW k \in DOMAIN x.by_pool[q2]
                 PROVE  k \in DOMAIN y.by_pool[q2] /\ y.by_pool[q2][k] = x.by_pool[q2][k]
      OBVIOUS
    <3>1. CASE q2 # p
      BY <1>8, <3>1
    <3>2. CASE q2 = p
      <4>1. /\ Len(x.by_pool[p]) \in Nat /\ DOMAIN x.by_pool[p] = 1 .. Len(x.by_pool[p])
            /\ DOMAIN y.by_pool[p] = 1 .. (Len(x.by_pool[p]) + 1)
            /\ \A l \in 1 .. Len(x.by_pool[p]) : y.by_pool[p][l] = x.by_pool[p][l]
        BY <1>2, <1>8
      <4> QED
        BY <3>2, <4>1
    <3> QED
      BY <3>1, <3>2
  <2>1. CASE <<<<q, t>>, j>> \in x.by_pool_token
    <3>1. /\ \E k \in DOMAIN x.by_pool[q] : x.by_pool[q][k] = j
          /\ x.targets[j].token = t /\ Fits(x.targets[j].source, q, R[q], t)
      BY <1>1, <2>1 DEF Tracked
    <3>2. j \in Active(x)
      BY <1>1, <3>1 DEF Places
    <3> QED
      BY <1>11, <2>0, <3>1, <3>2
  <2>2. CASE <<<<q, t>>, j>> = <<<<p, token>>, i>>
    <3>1. q = p /\ t = token /\ j = i
      BY <2>2
    <3>2. Len(x.by_pool[p]) + 1 \in DOMAIN y.by_pool[p] /\ y.by_pool[p][Len(x.by_pool[p]) + 1] = i
      <4> DEFINE q2 == x.by_pool[p]
      <4>1. q2 \in Seq(Nat) /\ y.by_pool[p] = Append(q2, i)
        BY <1>8
      <4> HIDE DEF q2
      <4>2. Len(q2) + 1 \in DOMAIN Append(q2, i) /\ Append(q2, i)[Len(q2) + 1] = i
        BY <1>2, <4>1
      <4> QED
        BY <4>1, <4>2 DEF q2
    <3> QED
      BY <1>5, <1>7, <3>1, <3>2
  <2> QED
    BY <1>3, <2>1, <2>2
<1>15. Indexed(y)
  <2>1. ASSUME NEW t \in Tokens, NEW h \in Nat, NEW j \in Nat
        PROVE  <<<<t, h>>, j>> \in y.by_token_holder <=>
                 /\ j \in Active(y) /\ y.targets[j].token = t
                 /\ y.targets[j].source.kind = "erc20" /\ y.targets[j].source.holder = h
    <3>1. <<<<t, h>>, j>> \in x.by_token_holder <=>
                 /\ j \in Active(x) /\ x.targets[j].token = t
                 /\ x.targets[j].source.kind = "erc20" /\ x.targets[j].source.holder = h
      BY <1>1 DEF Indexed
    <3>2. <<<<t, h>>, j>> \in holders <=> j = i /\ t = token /\ source.kind = "erc20" /\ source.holder = h
      OBVIOUS
    <3>3. <<<<t, h>>, j>> \in y.by_token_holder <=> <<<<t, h>>, j>> \in x.by_token_holder \/ <<<<t, h>>, j>> \in holders
      BY <1>3
    <3> HIDE DEF holders
    <3>4. CASE j = i
      BY <1>2, <1>5, <1>7, <1>12, <3>1, <3>2, <3>3, <3>4
    <3>5. CASE j # i
      BY <1>10, <1>11, <3>1, <3>2, <3>3, <3>5
    <3> QED
      BY <3>4, <3>5
  <2>2. ASSUME NEW s \in Slots, NEW j \in Nat
        PROVE  <<s, j>> \in y.by_storage_slot <=>
                 j \in Active(y) /\ s \in StorageSlot(y.targets[j].token, y.targets[j].source)
    <3>1. <<s, j>> \in x.by_storage_slot <=>
                 j \in Active(x) /\ s \in StorageSlot(x.targets[j].token, x.targets[j].source)
      BY <1>1 DEF Indexed
    <3>2. <<s, j>> \in y.by_storage_slot <=> <<s, j>> \in x.by_storage_slot \/ (j = i /\ s \in slots)
      BY <1>3
    <3>3. CASE j = i
      BY <1>2, <1>5, <1>6, <1>7, <1>12, <3>1, <3>2, <3>3
    <3>4. CASE j # i
      BY <1>10, <1>11, <3>1, <3>2, <3>4
    <3> QED
      BY <3>3, <3>4
  <2> QED
    BY <2>1, <2>2 DEF Indexed
<1>16. Honest(y, c)
  <2> SUFFICES ASSUME NEW j \in Active(y)
               PROVE  GoodSource(y.targets[j].token, y.targets[j].source) /\ TrueBalance(y.targets[j], c)
    BY DEF Honest
  <2>1. CASE j = i
    BY <1>5, <1>7, <2>1 DEF target
  <2>2. CASE j # i
    <3>1. j \in Active(x) /\ y.targets[j] = x.targets[j]
      BY <1>10, <1>11, <1>12, <2>2
    <3> QED
      BY <1>1, <3>1 DEF Honest
  <2> QED
    BY <2>1, <2>2
<1> QED
  BY <1>9, <1>13, <1>14, <1>15, <1>16 DEF Good, y

------------------------------------------------------------------------------
(* Recursive functions *)

Leads(step, n, X) == \A i \in 1 .. n : \A v \in X[i - 1] : step[i][v] \in X[i]
Runs(f, step, n, X, x0) ==
  /\ f = [i \in 0 .. n |-> f[i]] /\ f[0] = x0
  /\ \A i \in 1 .. n : f[i - 1] \in X[i - 1] /\ f[i] = step[i][f[i - 1]]
\* A recursive function exists: n steps, each from one set of values into the next.
LEMMA StepsExist ==
  ASSUME NEW n \in Nat, NEW X, NEW x0 \in X[0], NEW step, Leads(step, n, X)
  PROVE  \E f : Runs(f, step, n, X, x0)
<1> DEFINE Steps(m, f) == /\ f = [i \in 0 .. m |-> f[i]] /\ f[0] = x0 /\ f[m] \in X[m]
                          /\ \A i \in 1 .. m : f[i - 1] \in X[i - 1] /\ f[i] = step[i][f[i - 1]]
           S == {m \in Nat : m <= n => \E f : Steps(m, f)}
<1>1. 0 \in S
  <2> DEFINE f == [i \in 0 .. 0 |-> x0]
  <2>1. Steps(0, f)
    OBVIOUS
  <2> HIDE DEF f, Steps
  <2> QED
    BY <2>1
<1>2. ASSUME NEW m \in Nat, m \in S
      PROVE  m + 1 \in S
  <2> SUFFICES ASSUME m + 1 <= n
               PROVE  \E f : Steps(m + 1, f)
    OBVIOUS
  <2>1. PICK f : Steps(m, f)
    BY <1>2
  <2> DEFINE last == step[m + 1][f[m]]
             g == [i \in 0 .. m + 1 |-> IF i <= m THEN f[i] ELSE last]
  <2>2. f[m] \in X[m] /\ m + 1 \in 1 .. n /\ (m + 1) - 1 = m
    BY <2>1
  <2>3. last \in X[m + 1]
    BY <2>2 DEF Leads
  <2>4. \A i \in 0 .. m : g[i] = f[i]
    OBVIOUS
  <2>5. g[m + 1] = last
    OBVIOUS
  <2>6. g = [i \in 0 .. m + 1 |-> g[i]]
    OBVIOUS
  <2> HIDE DEF g
  <2>7. ASSUME NEW i \in 1 .. m + 1
        PROVE  g[i - 1] \in X[i - 1] /\ g[i] = step[i][g[i - 1]]
    <3>1. CASE i = m + 1
      <4>1. i - 1 = m /\ g[m] = f[m]
        BY <2>4, <3>1
      <4> QED
        BY <2>2, <2>5, <3>1, <4>1
    <3>2. CASE i # m + 1
      <4>1. i \in 1 .. m /\ i \in 0 .. m /\ i - 1 \in 0 .. m
        BY <3>2
      <4> QED
        BY <2>1, <2>4, <4>1
    <3> QED
      BY <3>1, <3>2
  <2>8. g[0] = x0
    BY <2>1, <2>4
  <2>9. Steps(m + 1, g)
    <3> HIDE DEF last
    <3> QED
      BY <2>3, <2>5, <2>6, <2>7, <2>8
  <2> HIDE DEF Steps
  <2> QED
    BY <2>9
<1>3. \A m \in Nat : m \in S
  <2> HIDE DEF S
  <2> QED
    BY <1>1, <1>2, SetInduction
<1>4. PICK f : Steps(n, f)
  BY <1>3
<1> QED
  BY <1>4 DEF Runs

\* And its values stay in those sets.
LEMMA StepsStay ==
  ASSUME NEW n \in Nat, NEW X, NEW f, f[0] \in X[0],
         \A i \in 1 .. n : f[i - 1] \in X[i - 1] => f[i] \in X[i]
  PROVE  f[n] \in X[n]
<1> DEFINE S == {m \in Nat : m <= n => f[m] \in X[m]}
<1>1. 0 \in S
  OBVIOUS
<1>2. ASSUME NEW m \in Nat, m \in S
      PROVE  m + 1 \in S
  <2> SUFFICES ASSUME m + 1 <= n
               PROVE  f[m + 1] \in X[m + 1]
    OBVIOUS
  <2>1. m + 1 \in 1 .. n /\ (m + 1) - 1 = m /\ f[m] \in X[m]
    BY <1>2
  <2> QED
    BY <2>1
<1>3. \A m \in Nat : m \in S
  <2> HIDE DEF S
  <2> QED
    BY <1>1, <1>2, SetInduction
<1> QED
  BY <1>3

\* What a list of targets to push must be.
Pushable(list, p, r, c) ==
  \A i \in 1 .. Len(list) :
    /\ list[i].token \in Tokens /\ list[i].source \in Source /\ list[i].balance \in Int
    /\ GoodSource(list[i].token, list[i].source) /\ Fits(list[i].source, p, r, list[i].token)
    /\ TrueBalance([token |-> list[i].token, source |-> list[i].source, balance |-> list[i].balance,
             active |-> TRUE], c)

\* A list of targets is pushed one after the other.
LEMMA PushAllKeeps ==
  ASSUME NEW x, NEW R, NEW c, Good(x, R, c), NEW p \in Pools, NEW list, Len(list) \in Nat,
         Pushable(list, p, R[p], c)
  PROVE  Good(PushAll(x, p, list), R, c)
<1> DEFINE n == Len(list)
           G == {v \in Index : Good(v, R, c)}
           X == [i \in 0 .. n |-> G]
           Turn(i, v) == Push(v, p, list[i].token, list[i].source, list[i].balance)
           Body(f) == [i \in 0 .. n |-> IF i = 0 THEN x ELSE Turn(i, f[i - 1])]
           pushed == CHOOSE f : f = Body(f)
           step == [i \in 1 .. n |-> [v \in G |-> Turn(i, v)]]
<1>1. x \in G
  BY DEF Good
<1>2. ASSUME NEW i \in 1 .. n, NEW v \in G
      PROVE  Turn(i, v) \in G
  <2>1. Good(v, R, c)
    OBVIOUS
  <2>2. Good(Turn(i, v), R, c)
    <3>1. /\ list[i].token \in Tokens /\ list[i].source \in Source /\ list[i].balance \in Int
          /\ GoodSource(list[i].token, list[i].source) /\ Fits(list[i].source, p, R[p], list[i].token)
          /\ TrueBalance([token |-> list[i].token, source |-> list[i].source, balance |-> list[i].balance,
                   active |-> TRUE], c)
      BY DEF Pushable
    <3> QED
      BY <2>1, <3>1, PushKeeps
  <2> QED
    BY <2>2 DEF Good
<1> HIDE DEF G
<1>3. \A i \in 1 .. n : i \in 0 .. n /\ i - 1 \in 0 .. n /\ i # 0
  OBVIOUS
<1>4. \A i \in 1 .. n : \A v \in X[i - 1] : step[i][v] \in X[i] /\ step[i][v] = Turn(i, v)
  <2> SUFFICES ASSUME NEW i \in 1 .. n, NEW v \in X[i - 1]
               PROVE  step[i][v] \in X[i] /\ step[i][v] = Turn(i, v)
    OBVIOUS
  <2>1. v \in G /\ X[i] = G
    BY <1>3
  <2> HIDE DEF X, Turn
  <2>2. step[i][v] = Turn(i, v)
    BY <2>1
  <2> HIDE DEF step
  <2> QED
    BY <1>2, <2>1, <2>2
<1>5. x \in X[0]
  BY <1>1
<1>6. PICK f : /\ f = [i \in 0 .. n |-> f[i]] /\ f[0] = x
               /\ \A i \in 1 .. n : f[i - 1] \in X[i - 1] /\ f[i] = step[i][f[i - 1]]
  <2> HIDE DEF X, step, n
  <2>1. n \in Nat
    BY DEF n
  <2>2. Leads(step, n, X)
    BY <1>4 DEF Leads
  <2>3. \E f : Runs(f, step, n, X, x)
    BY <1>5, <2>1, <2>2, StepsExist
  <2> QED
    BY <2>3 DEF Runs
<1>7. \A i \in 1 .. n : f[i] = Turn(i, f[i - 1])
  <2> HIDE DEF X, step, Turn
  <2> QED
    BY <1>4, <1>6
<1>8. f = Body(f)
  <2>1. ASSUME NEW i \in 0 .. n
        PROVE  f[i] = IF i = 0 THEN x ELSE Turn(i, f[i - 1])
    <3>1. CASE i = 0
      BY <1>6, <3>1
    <3>2. CASE i # 0
      <4>1. i \in 1 .. n
        BY <3>2
      <4> HIDE DEF Turn
      <4> QED
        BY <1>7, <3>2, <4>1
    <3> QED
      BY <3>1, <3>2
  <2> HIDE DEF Turn, n
  <2> QED
    BY <1>6, <2>1
<1>9. pushed = Body(pushed)
  <2> HIDE DEF Body
  <2> QED
    BY <1>8
<1>10. PushAll(x, p, list) = pushed[n]
  BY DEF PushAll
<1> HIDE DEF pushed, Turn
<1>11. pushed[0] = x /\ \A i \in 1 .. n : pushed[i] = Turn(i, pushed[i - 1])
  <2>1. pushed[0] = Body(pushed)[0] /\ \A i \in 1 .. n : pushed[i] = Body(pushed)[i]
    <3> HIDE DEF Body
    <3> QED
      BY <1>9
  <2>2. Body(pushed)[0] = x /\ \A i \in 1 .. n : Body(pushed)[i] = Turn(i, pushed[i - 1])
    <3>1. 0 \in 0 .. n
      OBVIOUS
    <3> QED
      BY <1>3, <3>1
  <2> HIDE DEF Body
  <2> QED
    BY <2>1, <2>2
<1>12. \A i \in 1 .. n : pushed[i - 1] \in X[i - 1] => pushed[i] \in X[i]
  <2> SUFFICES ASSUME NEW i \in 1 .. n, pushed[i - 1] \in X[i - 1]
               PROVE  pushed[i] \in X[i]
    OBVIOUS
  <2>1. X[i - 1] = G /\ X[i] = G
    BY <1>3
  <2> HIDE DEF X
  <2> QED
    BY <1>2, <1>11, <2>1
<1>13. pushed[n] \in X[n] /\ X[n] = G
  <2>1. X[n] = G
    OBVIOUS
  <2> HIDE DEF X, n
  <2>2. n \in Nat
    BY DEF n
  <2> QED
    BY <1>5, <1>11, <1>12, <2>1, <2>2, StepsStay
<1> QED
  BY <1>10, <1>13 DEF G

------------------------------------------------------------------------------
(* Taking a pool's targets out *)

\* Every index that leads to a target of the pool forgets it, so its place can be used
\* again, whatever the pool's registration is from now on.
LEMMA RemoveKeeps ==
  ASSUME NEW x, NEW R, NEW Q, NEW c, Good(x, R, c), NEW p \in Pools,
         \A q \in Pools : q # p => Q[q] = R[q]
  PROVE  Good(RemovePoolTargets(x, p), Q, c)
<1> DEFINE y == RemovePoolTargets(x, p)
           gone == ToSet(x.by_pool[p])
           target(e) == x.targets[e[2]]
           out == {<<p, x.targets[i].token>> : i \in gone}
<1>1. x \in Index /\ Places(x) /\ Tracked(x, R) /\ Indexed(x) /\ Honest(x, c)
  BY DEF Good
<1>2. /\ x.targets \in Seq(Target) /\ x.by_pool \in [Pools -> Seq(Nat)] /\ x.free \in Seq(Nat)
      /\ x.by_pool_token \in SUBSET ((Pools \X Tokens) \X Nat)
      /\ x.by_token_holder \in SUBSET ((Tokens \X Nat) \X Nat)
      /\ x.by_storage_slot \in SUBSET (Slots \X Nat) /\ x.counts \in [Pools -> Nat]
      /\ x.by_pool[p] \in Seq(Nat)
  BY <1>1 DEF Index
<1>3. /\ y = [targets |-> y.targets, by_pool |-> y.by_pool, by_pool_token |-> y.by_pool_token,
              by_token_holder |-> y.by_token_holder, by_storage_slot |-> y.by_storage_slot,
              free |-> y.free, counts |-> y.counts]
      /\ y.targets = [i \in DOMAIN x.targets |-> [x.targets[i] EXCEPT !.active = @ /\ i \notin gone]]
      /\ y.free = x.free \o x.by_pool[p]
      /\ y.by_pool = [x.by_pool EXCEPT ![p] = <<>>] /\ y.counts = [x.counts EXCEPT ![p] = 0]
      /\ y.by_pool_token = {e \in x.by_pool_token : e[1] \notin out}
      /\ y.by_token_holder =
          {e \in x.by_token_holder : ~(e[2] \in gone /\ e[1] = <<target(e).token, target(e).source.holder>>)}
      /\ y.by_storage_slot =
          {e \in x.by_storage_slot : ~(e[2] \in gone /\ e[1] \in StorageSlot(target(e).token, target(e).source))}
  <2> DEFINE T == [i \in DOMAIN x.targets |-> [x.targets[i] EXCEPT !.active = @ /\ i \notin gone]]
             F == x.free \o x.by_pool[p]
             B == [x.by_pool EXCEPT ![p] = <<>>]
             C == [x.counts EXCEPT ![p] = 0]
             K == {e \in x.by_pool_token : e[1] \notin out}
             H == {e \in x.by_token_holder : ~(e[2] \in gone /\ e[1] = <<target(e).token, target(e).source.holder>>)}
             S == {e \in x.by_storage_slot : ~(e[2] \in gone /\ e[1] \in StorageSlot(target(e).token, target(e).source))}
  <2>1. y = [x EXCEPT !.targets = T, !.free = F, !.by_pool = B, !.counts = C, !.by_pool_token = K,
                      !.by_token_holder = H, !.by_storage_slot = S]
    BY DEF RemovePoolTargets
  <2>2. x = [targets |-> x.targets, by_pool |-> x.by_pool, by_pool_token |-> x.by_pool_token,
             by_token_holder |-> x.by_token_holder, by_storage_slot |-> x.by_storage_slot,
             free |-> x.free, counts |-> x.counts]
    BY <1>1 DEF Index
  <2> HIDE DEF T, F, B, C, K, H, S, y
  <2>3. y = [targets |-> T, by_pool |-> B, by_pool_token |-> K, by_token_holder |-> H,
             by_storage_slot |-> S, free |-> F, counts |-> C]
    BY <2>1, <2>2
  <2> QED
    BY <2>3 DEF T, F, B, C, K, H, S
<1> HIDE DEF y
<1>4. \A i : i \in gone <=> \E k \in DOMAIN x.by_pool[p] : x.by_pool[p][k] = i
  BY DEF ToSet
<1> HIDE DEF gone
<1>5. DOMAIN y.targets = DOMAIN x.targets /\ \A i \in DOMAIN x.targets :
        /\ y.targets[i].token = x.targets[i].token /\ y.targets[i].source = x.targets[i].source
        /\ y.targets[i].balance = x.targets[i].balance
        /\ y.targets[i].active <=> x.targets[i].active /\ i \notin gone
        /\ y.targets[i] \in Target
  <2>1. DOMAIN y.targets = DOMAIN x.targets
    BY <1>3
  <2> SUFFICES ASSUME NEW i \in DOMAIN x.targets
               PROVE  /\ y.targets[i].token = x.targets[i].token /\ y.targets[i].source = x.targets[i].source
                      /\ y.targets[i].balance = x.targets[i].balance
                      /\ y.targets[i].active <=> x.targets[i].active /\ i \notin gone
                      /\ y.targets[i] \in Target
    BY <2>1
  <2>2. x.targets[i] \in Target
    BY <1>2
  <2>3. y.targets[i] = [x.targets[i] EXCEPT !.active = @ /\ i \notin gone]
    BY <1>3
  <2>4. y.targets[i] = [token |-> x.targets[i].token, source |-> x.targets[i].source,
                        balance |-> x.targets[i].balance, active |-> (x.targets[i].active /\ i \notin gone)]
    BY <2>2, <2>3 DEF Target
  <2> DEFINE a == x.targets[i].active /\ i \notin gone
  <2>5. a \in BOOLEAN
    OBVIOUS
  <2>6. y.targets[i] = [token |-> x.targets[i].token, source |-> x.targets[i].source,
                        balance |-> x.targets[i].balance, active |-> a]
    BY <2>4
  <2> HIDE DEF a
  <2>7. /\ y.targets[i].token = x.targets[i].token /\ y.targets[i].source = x.targets[i].source
        /\ y.targets[i].balance = x.targets[i].balance /\ y.targets[i].active = a
        /\ y.targets[i] \in Target
    BY <2>2, <2>5, <2>6 DEF Target
  <2>8. y.targets[i].active <=> x.targets[i].active /\ i \notin gone
    BY <2>7, Zenon DEF a
  <2> QED
    BY <2>7, <2>8
<1>6. \A i : i \in Active(y) <=> i \in Active(x) /\ i \notin gone
  BY <1>5 DEF Active
<1>7. /\ y.by_pool[p] = <<>> /\ DOMAIN y.by_pool[p] = {} /\ y.by_pool \in [Pools -> Seq(Nat)]
      /\ \A q \in Pools : q # p => y.by_pool[q] = x.by_pool[q]
  BY <1>2, <1>3
<1>8. y \in Index
  <2>1. y.targets \in Seq(Target)
    <3>1. DOMAIN y.targets = 1 .. Len(x.targets) /\ Len(x.targets) \in Nat
      BY <1>2, <1>5
    <3>2. y.targets = [i \in DOMAIN x.targets |-> y.targets[i]]
      BY <1>3
    <3>3. y.targets \in [1 .. Len(x.targets) -> Target]
      BY <1>5, <3>1, <3>2
    <3> QED
      BY <3>1, <3>3
  <2>2. y.free \in Seq(Nat)
    BY <1>2, <1>3
  <2>3. /\ y.by_pool_token \in SUBSET ((Pools \X Tokens) \X Nat)
        /\ y.by_token_holder \in SUBSET ((Tokens \X Nat) \X Nat)
        /\ y.by_storage_slot \in SUBSET (Slots \X Nat)
    BY <1>2, <1>3
  <2>4. y.counts \in [Pools -> Nat]
    BY <1>2, <1>3
  <2> QED
    BY <1>3, <1>7, <2>1, <2>2, <2>3, <2>4 DEF Index
<1>9. Places(y)
  <2>1. \A q \in Pools : \A k \in DOMAIN y.by_pool[q] : y.by_pool[q][k] \in Active(y)
    <3> SUFFICES ASSUME NEW q \in Pools, NEW k \in DOMAIN y.by_pool[q]
                 PROVE  y.by_pool[q][k] \in Active(y)
      OBVIOUS
    <3>1. q # p /\ y.by_pool[q] = x.by_pool[q] /\ k \in DOMAIN x.by_pool[q]
      BY <1>7
    <3>2. x.by_pool[q][k] \in Active(x) /\ x.by_pool[q][k] \notin gone
      BY <1>1, <1>4, <3>1 DEF Places
    <3> QED
      BY <1>6, <3>1, <3>2
  <2>2. \A q, r \in Pools : \A k \in DOMAIN y.by_pool[q], l \in DOMAIN y.by_pool[r] :
          y.by_pool[q][k] = y.by_pool[r][l] => q = r /\ k = l
    <3> SUFFICES ASSUME NEW q \in Pools, NEW r \in Pools, NEW k \in DOMAIN y.by_pool[q],
                        NEW l \in DOMAIN y.by_pool[r], y.by_pool[q][k] = y.by_pool[r][l]
                 PROVE  q = r /\ k = l
      OBVIOUS
    <3>1. q # p /\ y.by_pool[q] = x.by_pool[q] /\ k \in DOMAIN x.by_pool[q]
      BY <1>7
    <3>2. r # p /\ y.by_pool[r] = x.by_pool[r] /\ l \in DOMAIN x.by_pool[r]
      BY <1>7
    <3> QED
      BY <1>1, <3>1, <3>2 DEF Places
  <2> DEFINE m == Len(x.free)
             n == Len(x.by_pool[p])
  <2>3. /\ m \in Nat /\ n \in Nat /\ DOMAIN x.free = 1 .. m /\ DOMAIN x.by_pool[p] = 1 .. n
        /\ DOMAIN y.free = 1 .. (m + n)
    BY <1>2, <1>3
  <2>4. \A k \in 1 .. m : y.free[k] = x.free[k]
    <3> SUFFICES ASSUME NEW k \in 1 .. m
                 PROVE  y.free[k] = x.free[k]
      OBVIOUS
    <3>1. k \in 1 .. (m + n) /\ k <= m
      <4> HIDE DEF m, n
      <4> QED
        BY <2>3
    <3> QED
      BY <1>2, <1>3, <3>1
  <2>5. \A k \in 1 .. (m + n) : k > m => y.free[k] = x.by_pool[p][k - m]
    BY <1>2, <1>3
  <2> HIDE DEF m, n
  <2>6. \A k \in DOMAIN y.free :
          \/ k \in DOMAIN x.free /\ y.free[k] = x.free[k] /\ x.free[k] \in DOMAIN x.targets /\ x.free[k] \notin Active(x)
          \/ k - m \in DOMAIN x.by_pool[p] /\ y.free[k] = x.by_pool[p][k - m] /\ y.free[k] \in Active(x) /\ y.free[k] \in gone
    <3> SUFFICES ASSUME NEW k \in DOMAIN y.free
                 PROVE  \/ k \in DOMAIN x.free /\ y.free[k] = x.free[k] /\ x.free[k] \in DOMAIN x.targets /\ x.free[k] \notin Active(x)
                        \/ k - m \in DOMAIN x.by_pool[p] /\ y.free[k] = x.by_pool[p][k - m] /\ y.free[k] \in Active(x) /\ y.free[k] \in gone
      OBVIOUS
    <3>1. CASE k <= m
      <4>1. k \in 1 .. m
        BY <2>3, <3>1
      <4> QED
        BY <1>1, <2>3, <2>4, <4>1 DEF Places
    <3>2. CASE ~(k <= m)
      <4>1. k - m \in 1 .. n /\ k > m /\ k \in 1 .. (m + n)
        BY <2>3, <3>2
      <4>2. y.free[k] = x.by_pool[p][k - m] /\ k - m \in DOMAIN x.by_pool[p]
        BY <2>3, <2>5, <4>1
      <4> QED
        BY <1>1, <1>4, <4>2 DEF Places
    <3> QED
      BY <3>1, <3>2
  <2>7. \A k \in DOMAIN y.free : y.free[k] \in DOMAIN y.targets /\ y.free[k] \notin Active(y)
    BY <1>5, <1>6, <2>6 DEF Active
  <2>8. \A k, l \in DOMAIN y.free : y.free[k] = y.free[l] => k = l
    <3> SUFFICES ASSUME NEW k \in DOMAIN y.free, NEW l \in DOMAIN y.free, y.free[k] = y.free[l]
                 PROVE  k = l
      OBVIOUS
    <3>1. CASE y.free[k] \in Active(x)
      <4>1. k - m \in DOMAIN x.by_pool[p] /\ l - m \in DOMAIN x.by_pool[p]
            /\ x.by_pool[p][k - m] = x.by_pool[p][l - m]
        BY <2>6, <3>1
      <4>2. k - m = l - m
        BY <1>1, <4>1 DEF Places
      <4>3. k \in Int /\ l \in Int
        BY <2>3
      <4> QED
        BY <2>3, <4>2, <4>3
    <3>2. CASE y.free[k] \notin Active(x)
      <4>1. k \in DOMAIN x.free /\ l \in DOMAIN x.free /\ x.free[k] = x.free[l]
        BY <2>6, <3>2
      <4> QED
        BY <1>1, <4>1 DEF Places
    <3> QED
      BY <3>1, <3>2
  <2> QED
    BY <2>1, <2>2, <2>7, <2>8 DEF Places
<1>10. Tracked(y, Q)
  <2> SUFFICES ASSUME NEW q \in Pools, NEW t \in Tokens, NEW j \in Nat, <<<<q, t>>, j>> \in y.by_pool_token
               PROVE  /\ \E k \in DOMAIN y.by_pool[q] : y.by_pool[q][k] = j
                      /\ y.targets[j].token = t /\ Fits(y.targets[j].source, q, Q[q], t)
    BY DEF Tracked
  <2>1. <<<<q, t>>, j>> \in x.by_pool_token /\ <<q, t>> \notin out
    BY <1>3
  <2>2. /\ \E k \in DOMAIN x.by_pool[q] : x.by_pool[q][k] = j
        /\ x.targets[j].token = t /\ Fits(x.targets[j].source, q, R[q], t)
    BY <1>1, <2>1 DEF Tracked
  <2>3. q # p
    BY <1>4, <2>1, <2>2
  <2>4. j \in DOMAIN x.targets
    BY <1>1, <2>2 DEF Places, Active
  <2> QED
    BY <1>5, <1>7, <2>2, <2>3, <2>4
<1>11. Indexed(y)
  <2>1. ASSUME NEW t \in Tokens, NEW h \in Nat, NEW j \in Nat
        PROVE  <<<<t, h>>, j>> \in y.by_token_holder <=>
                 /\ j \in Active(y) /\ y.targets[j].token = t
                 /\ y.targets[j].source.kind = "erc20" /\ y.targets[j].source.holder = h
    <3>1. <<<<t, h>>, j>> \in x.by_token_holder <=>
                 /\ j \in Active(x) /\ x.targets[j].token = t
                 /\ x.targets[j].source.kind = "erc20" /\ x.targets[j].source.holder = h
      BY <1>1 DEF Indexed
    <3>2. <<<<t, h>>, j>> \in y.by_token_holder <=>
            /\ <<<<t, h>>, j>> \in x.by_token_holder
            /\ ~(j \in gone /\ <<t, h>> = <<x.targets[j].token, x.targets[j].source.holder>>)
      BY <1>3
    <3>3. j \in Active(x) => j \in DOMAIN x.targets
      BY DEF Active
    <3> QED
      BY <1>5, <1>6, <3>1, <3>2, <3>3
  <2>2. ASSUME NEW s \in Slots, NEW j \in Nat
        PROVE  <<s, j>> \in y.by_storage_slot <=>
                 j \in Active(y) /\ s \in StorageSlot(y.targets[j].token, y.targets[j].source)
    <3>1. <<s, j>> \in x.by_storage_slot <=>
                 j \in Active(x) /\ s \in StorageSlot(x.targets[j].token, x.targets[j].source)
      BY <1>1 DEF Indexed
    <3>2. <<s, j>> \in y.by_storage_slot <=>
            /\ <<s, j>> \in x.by_storage_slot
            /\ ~(j \in gone /\ s \in StorageSlot(x.targets[j].token, x.targets[j].source))
      BY <1>3
    <3>3. j \in Active(x) => j \in DOMAIN x.targets
      BY DEF Active
    <3> QED
      BY <1>5, <1>6, <3>1, <3>2, <3>3
  <2> QED
    BY <2>1, <2>2 DEF Indexed
<1>12. Honest(y, c)
  <2> SUFFICES ASSUME NEW j \in Active(y)
               PROVE  GoodSource(y.targets[j].token, y.targets[j].source) /\ TrueBalance(y.targets[j], c)
    BY DEF Honest
  <2>1. j \in Active(x) /\ j \in DOMAIN x.targets
    BY <1>6 DEF Active
  <2>2. GoodSource(x.targets[j].token, x.targets[j].source) /\ TrueBalance(x.targets[j], c)
    BY <1>1, <2>1 DEF Honest
  <2>3. /\ y.targets[j].token = x.targets[j].token /\ y.targets[j].source = x.targets[j].source
        /\ y.targets[j].balance = x.targets[j].balance
    BY <1>5, <2>1
  <2> QED
    BY <2>2, <2>3 DEF TrueBalance
<1> QED
  BY <1>8, <1>9, <1>10, <1>11, <1>12 DEF Good, y

\* The number of a pool's tokens is set.
LEMMA CountKeeps ==
  ASSUME NEW x, NEW R, NEW c, Good(x, R, c), NEW p \in Pools, NEW n \in Nat
  PROVE  Good([x EXCEPT !.counts[p] = n], R, c)
<1> DEFINE y == [x EXCEPT !.counts[p] = n]
           C == [x.counts EXCEPT ![p] = n]
<1>1. x \in Index /\ Places(x) /\ Tracked(x, R) /\ Indexed(x) /\ Honest(x, c)
  BY DEF Good
<1>2. x.counts \in [Pools -> Nat] /\ C \in [Pools -> Nat]
  BY <1>1 DEF Index
<1>3. y = [x EXCEPT !.counts = C]
  OBVIOUS
<1> HIDE DEF C, y
<1>4. y \in Index /\ y.targets = x.targets /\ y.by_pool = x.by_pool /\ y.by_pool_token = x.by_pool_token
      /\ y.by_token_holder = x.by_token_holder /\ y.by_storage_slot = x.by_storage_slot /\ y.free = x.free
  BY <1>1, <1>2, <1>3 DEF Index
<1>5. Active(y) = Active(x)
  BY <1>4 DEF Active
<1>6. Places(y)
  BY <1>1, <1>4, <1>5 DEF Places
<1>7. Tracked(y, R)
  BY <1>1, <1>4 DEF Tracked
<1>8. Indexed(y)
  BY <1>1, <1>4, <1>5 DEF Indexed
<1>9. Honest(y, c)
  BY <1>1, <1>4, <1>5 DEF Honest
<1> QED
  BY <1>4, <1>6, <1>7, <1>8, <1>9 DEF Good, y

------------------------------------------------------------------------------
(* The targets of a pool *)

\* What desired_targets wants tracked: tokens of the pool, read from where its registration
\* says, at slots the chain has.
LEMMA DesiredFit ==
  ASSUME NEW reg \in Registries, NEW p \in Pools
  PROVE  LET d == DesiredTargets(reg, p)
         IN /\ Len(d) \in Nat /\ DOMAIN d = 1 .. Len(d)
            /\ \A i \in DOMAIN d :
                 /\ d[i].token \in Tokens /\ d[i].source \in Source
                 /\ GoodSource(d[i].token, d[i].source) /\ Fits(d[i].source, p, reg[p], d[i].token)
<1> DEFINE d == DesiredTargets(reg, p)
           tokens == Ascending(reg[p].needed)
<1>1. CASE reg[p].kind \notin {"erc20", "balancer"}
  <2>1. d = <<>>
    BY <1>1 DEF DesiredTargets
  <2> HIDE DEF d
  <2>2. Len(d) = 0 /\ DOMAIN d = {}
    BY <2>1
  <2>3. Len(d) \in Nat /\ DOMAIN d = 1 .. Len(d)
    BY <2>2
  <2> QED
    BY <2>2, <2>3 DEF d
<1>2. CASE reg[p].kind \in {"erc20", "balancer"}
  <2>1. reg[p].needed \in SUBSET Nat /\ IsFiniteSet(reg[p].needed) /\ reg[p].needed \in SUBSET Tokens
    <3>1. reg[p].needed \in SUBSET Tokens /\ IsFiniteSet(Tokens) /\ Tokens \in SUBSET Nat
      BY LiquidityAssumption
    <3> QED
      BY <3>1, FS_Subset
  <2>2. tokens \in Seq(reg[p].needed)
    BY <2>1, AscendingOrder
  <2>3. Len(tokens) \in Nat /\ DOMAIN tokens = 1 .. Len(tokens) /\ \A i \in DOMAIN tokens : tokens[i] \in Tokens
    <3> HIDE DEF tokens
    <3>1. Len(tokens) \in Nat /\ DOMAIN tokens = 1 .. Len(tokens) /\ \A i \in DOMAIN tokens : tokens[i] \in reg[p].needed
      BY <2>2
    <3> QED
      BY <2>1, <3>1
  <2>4. d = [i \in DOMAIN tokens |-> [token |-> tokens[i], source |-> SourceOf(reg, p, tokens[i])]]
    BY <1>2 DEF DesiredTargets
  <2> HIDE DEF d, tokens
  <2>5. DOMAIN d = 1 .. Len(tokens) /\ Len(d) = Len(tokens)
    BY <2>3, <2>4
  <2>6. ASSUME NEW i \in DOMAIN d
        PROVE  /\ d[i].token \in Tokens /\ d[i].source \in Source
               /\ GoodSource(d[i].token, d[i].source) /\ Fits(d[i].source, p, reg[p], d[i].token)
    <3> DEFINE t == tokens[i]
               s == SourceOf(reg, p, t)
    <3>1. t \in Tokens /\ d[i].token = t /\ d[i].source = s
      BY <2>3, <2>4, <2>5
    <3> HIDE DEF t
    <3>2. s \in Source /\ GoodSource(t, s) /\ Fits(s, p, reg[p], t)
      <4>1. CASE s = NoSource
        BY <4>1 DEF NoSource, Source, GoodSource, Fits
      <4>2. CASE reg[p].kind = "erc20" /\ Holder[p] # 0 /\ s = Erc20(Holder[p], FALSE)
        <5>1. Holder[p] \in Nat
          BY LiquidityAssumption
        <5>2. <<t, Holder[p]>> \in Slots
          BY <3>1, <4>2 DEF Slots, ERC20Slots
        <5> HIDE DEF s
        <5> QED
          BY <4>2, <5>1, <5>2 DEF Erc20, Source, GoodSource, Fits
      <4>3. CASE reg[p].kind = "balancer" /\ t \in DOMAIN reg[p].cash /\ s = Cash(reg[p].cash[t])
        <5>1. reg[p].cash[t].slot \in VaultSlots /\ reg[p].cash[t].high \in BOOLEAN
          BY <4>3, LiquidityAssumption
        <5> HIDE DEF s
        <5> QED
          BY <4>3, <5>1 DEF Cash, Source, GoodSource, Fits
      <4> QED
        BY <4>1, <4>2, <4>3 DEF SourceOf
    <3> HIDE DEF s
    <3> QED
      BY <3>1, <3>2
  <2> QED
    BY <2>3, <2>5, <2>6 DEF d
<1> QED
  BY <1>1, <1>2

\* A pool has finitely many tokens.
LEMMA CardinalityOfTokens ==
  ASSUME NEW reg \in Registries, NEW p \in Pools
  PROVE  Cardinality(reg[p].tokens) \in Nat
<1>1. reg[p].tokens \in SUBSET Tokens /\ IsFiniteSet(Tokens)
  BY LiquidityAssumption
<1> QED
  BY <1>1, FS_Subset, FS_CardinalityType

\* from_registry_with_scope, one pool.
LEMMA AddPoolKeeps ==
  ASSUME NEW x, NEW reg \in Registries, NEW c, Good(x, reg, c), NEW p \in Pools
  PROVE  Good(AddPool(x, reg, p), reg, c)
<1> DEFINE d == DesiredTargets(reg, p)
           count == IF reg[p].needed = {} THEN 0 ELSE Cardinality(reg[p].tokens)
           counted == [x EXCEPT !.counts[p] = count]
           list == [i \in DOMAIN d |-> [token |-> d[i].token, source |-> d[i].source, balance |-> Unknown]]
<1>1. AddPool(x, reg, p) = PushAll(counted, p, list)
  BY DEF AddPool
<1>2. /\ Len(d) \in Nat /\ DOMAIN d = 1 .. Len(d)
      /\ \A i \in DOMAIN d :
           /\ d[i].token \in Tokens /\ d[i].source \in Source
           /\ GoodSource(d[i].token, d[i].source) /\ Fits(d[i].source, p, reg[p], d[i].token)
  BY DesiredFit
<1> HIDE DEF d
<1>3. Good(counted, reg, c)
  <2>1. count \in Nat
    BY CardinalityOfTokens
  <2> HIDE DEF count
  <2> QED
    BY <2>1, CountKeeps
<1>4. Len(list) = Len(d)
  BY <1>2
<1>5. Pushable(list, p, reg[p], c)
  <2> SUFFICES ASSUME NEW i \in DOMAIN d
               PROVE  /\ list[i].token \in Tokens /\ list[i].source \in Source /\ list[i].balance \in Int
                      /\ GoodSource(list[i].token, list[i].source)
                      /\ Fits(list[i].source, p, reg[p], list[i].token)
                      /\ TrueBalance([token |-> list[i].token, source |-> list[i].source,
                               balance |-> list[i].balance, active |-> TRUE], c)
    BY <1>2, <1>4 DEF Pushable
  <2>1. list[i].token = d[i].token /\ list[i].source = d[i].source /\ list[i].balance = Unknown
    OBVIOUS
  <2> HIDE DEF list
  <2>2. Unknown \in Int /\ ~(Unknown >= 0)
    BY DEF Unknown
  <2> QED
    BY <1>2, <2>1, <2>2 DEF TrueBalance
<1> HIDE DEF list, counted
<1> QED
  BY <1>1, <1>2, <1>3, <1>4, <1>5, PushAllKeeps

\* reconcile_pools, one pool: the balances it keeps are of the source the pool has now.
LEMMA ReconcileKeeps ==
  ASSUME NEW x, NEW R, NEW Q, NEW c, Good(x, R, c), NEW reg \in Registries, NEW p \in Pools,
         Q[p] = reg[p], \A q \in Pools : q # p => Q[q] = R[q]
  PROVE  Good(ReconcilePool(x, reg, p), Q, c)
<1> DEFINE before(t) == {x.targets[i] : i \in {j \in ToSet(x.by_pool[p]) :
                                           x.targets[j].active /\ x.targets[j].token = t}}
           d == DesiredTargets(reg, p)
           source(e) == IF before(e.token) = {} THEN e.source
                        ELSE PreserveDiscovered((CHOOSE b \in before(e.token) : TRUE).source, e.source)
           same(e) == {b \in before(e.token) : b.source = source(e)}
           balance(e) == IF same(e) = {} THEN Unknown ELSE (CHOOSE b \in same(e) : TRUE).balance
           removed == RemovePoolTargets(x, p)
           count == IF d = <<>> THEN 0 ELSE Cardinality(reg[p].tokens)
           counted == [removed EXCEPT !.counts[p] = count]
           list == [i \in DOMAIN d |-> [token |-> d[i].token, source |-> source(d[i]), balance |-> balance(d[i])]]
<1>1. ReconcilePool(x, reg, p) = PushAll(counted, p, list)
  BY DEF ReconcilePool
<1>2. /\ Len(d) \in Nat /\ DOMAIN d = 1 .. Len(d)
      /\ \A i \in DOMAIN d :
           /\ d[i].token \in Tokens /\ d[i].source \in Source
           /\ GoodSource(d[i].token, d[i].source) /\ Fits(d[i].source, p, reg[p], d[i].token)
  BY DesiredFit
<1>3. Good(counted, Q, c)
  <2>1. count \in Nat
    BY CardinalityOfTokens
  <2>2. Good(removed, Q, c)
    BY RemoveKeeps
  <2> HIDE DEF count, removed
  <2> QED
    BY <2>1, <2>2, CountKeeps
<1>4. \A t : \A b \in before(t) : /\ b \in Target /\ b.token = t
                                   /\ GoodSource(t, b.source) /\ TrueBalance(b, c)
  <2> SUFFICES ASSUME NEW t, NEW b \in before(t)
               PROVE  b \in Target /\ b.token = t /\ GoodSource(t, b.source) /\ TrueBalance(b, c)
    OBVIOUS
  <2>1. x \in Index /\ Places(x) /\ Honest(x, c)
    BY DEF Good
  <2>2. PICK j \in ToSet(x.by_pool[p]) : x.targets[j].active /\ x.targets[j].token = t /\ b = x.targets[j]
    OBVIOUS
  <2>3. j \in Active(x)
    BY <2>1, <2>2 DEF Places, ToSet
  <2>4. j \in DOMAIN x.targets /\ x.targets \in Seq(Target)
    BY <2>1, <2>3 DEF Active, Index
  <2>5. x.targets[j] \in Target
    BY <2>4
  <2> QED
    BY <2>1, <2>2, <2>3, <2>5 DEF Honest
<1> HIDE DEF before, d
<1>5. Len(list) = Len(d)
  BY <1>2
<1>6. Pushable(list, p, Q[p], c)
  <2> SUFFICES ASSUME NEW i \in DOMAIN d
               PROVE  /\ list[i].token \in Tokens /\ list[i].source \in Source /\ list[i].balance \in Int
                      /\ GoodSource(list[i].token, list[i].source)
                      /\ Fits(list[i].source, p, Q[p], list[i].token)
                      /\ TrueBalance([token |-> list[i].token, source |-> list[i].source,
                               balance |-> list[i].balance, active |-> TRUE], c)
    BY <1>2, <1>5 DEF Pushable
  <2> DEFINE e == d[i]
             s == source(e)
             a == balance(e)
  <2>1. list[i].token = e.token /\ list[i].source = s /\ list[i].balance = a
    OBVIOUS
  <2>2. /\ e.token \in Tokens /\ e.source \in Source
        /\ GoodSource(e.token, e.source) /\ Fits(e.source, p, reg[p], e.token)
    BY <1>2
  <2> HIDE DEF list, e
  <2>3. s \in Source /\ GoodSource(e.token, s) /\ Fits(s, p, reg[p], e.token)
    <3> DEFINE b == CHOOSE b \in before(e.token) : TRUE
    <3>1. CASE s = e.source
      BY <2>2, <3>1
    <3>2. CASE s # e.source
      <4>1. before(e.token) # {} /\ s = PreserveDiscovered(b.source, e.source)
        BY <3>2
      <4>2. b \in before(e.token)
        BY <4>1
      <4> HIDE DEF s, b
      <4>3. s = b.source /\ b.source.kind = "erc20" /\ e.source.kind = "erc20" /\ e.source.holder = b.source.holder
        BY <3>2, <4>1 DEF PreserveDiscovered
      <4>4. b \in Target /\ GoodSource(e.token, b.source)
        BY <1>4, <4>2
      <4>5. reg[p].kind = "erc20" /\ e.source.holder = Holder[p]
        <5>1. \A k : Cash(k).kind = "cash"
          BY DEF Cash
        <5> QED
          BY <2>2, <4>3, <5>1 DEF Fits
      <4> QED
        BY <4>3, <4>4, <4>5 DEF Target, Fits
    <3> QED
      BY <3>1, <3>2
  <2>4. a \in Int /\ TrueBalance([token |-> e.token, source |-> s, balance |-> a, active |-> TRUE], c)
    <3>1. CASE same(e) = {}
      <4>1. a = Unknown
        BY <3>1
      <4> HIDE DEF a, s
      <4> QED
        BY <4>1 DEF Unknown, TrueBalance
    <3>2. CASE same(e) # {}
      <4> DEFINE b == CHOOSE b \in same(e) : TRUE
      <4>1. b \in same(e) /\ a = b.balance
        BY <3>2
      <4>2. b \in before(e.token) /\ b.source = s
        BY <4>1
      <4> HIDE DEF b, a, s
      <4>3. b \in Target /\ b.token = e.token /\ TrueBalance(b, c)
        BY <1>4, <4>2
      <4> QED
        BY <4>1, <4>2, <4>3 DEF Target, TrueBalance
    <3> QED
      BY <3>1, <3>2
  <2> HIDE DEF s, a
  <2> QED
    BY <2>1, <2>2, <2>3, <2>4
<1> HIDE DEF list, counted
<1> QED
  BY <1>1, <1>2, <1>3, <1>5, <1>6, PushAllKeeps

------------------------------------------------------------------------------
(* All pools *)

\* The index says nothing of registrations other than those of the pools.
LEMMA SameRegistry ==
  ASSUME NEW x, NEW R, NEW Q, NEW c, Good(x, R, c), \A q \in Pools : Q[q] = R[q]
  PROVE  Good(x, Q, c)
<1>1. Tracked(x, Q)
  BY DEF Good, Tracked
<1> QED
  BY <1>1 DEF Good

\* An index without targets.
LEMMA EmptyIsGood ==
  ASSUME NEW R, NEW c
  PROVE  Good(EmptyIndex, R, c)
<1> DEFINE x == EmptyIndex
<1>1. /\ x = [targets |-> <<>>, by_pool |-> [p \in Pools |-> <<>>], by_pool_token |-> {},
              by_token_holder |-> {}, by_storage_slot |-> {}, free |-> <<>>, counts |-> [p \in Pools |-> 0]]
  BY DEF EmptyIndex
<1> HIDE DEF x
<1>2. /\ x.targets = <<>> /\ DOMAIN x.targets = {} /\ x.free = <<>> /\ DOMAIN x.free = {}
      /\ \A p \in Pools : DOMAIN x.by_pool[p] = {}
      /\ x.by_pool_token = {} /\ x.by_token_holder = {} /\ x.by_storage_slot = {}
  BY <1>1
<1>3. x \in Index
  BY <1>1 DEF Index
<1>4. Active(x) = {}
  BY <1>2 DEF Active
<1>5. Places(x)
  BY <1>2 DEF Places
<1>6. Tracked(x, R) /\ Indexed(x) /\ Honest(x, c)
  BY <1>2, <1>4 DEF Tracked, Indexed, Honest
<1> QED
  BY <1>3, <1>5, <1>6 DEF Good, x

\* The order in which pools are taken has each of them.
LEMMA OrderOf ==
  ASSUME NEW S \in SUBSET Pools
  PROVE  LET order == Ascending(S)
         IN /\ Len(order) \in Nat
            /\ \A i \in 1 .. Len(order) : order[i] \in S
            /\ \A q \in S : \E i \in 1 .. Len(order) : order[i] = q
<1>1. S \in SUBSET Nat /\ IsFiniteSet(S)
  <2>1. Pools \in SUBSET Nat /\ IsFiniteSet(Pools)
    BY LiquidityAssumption
  <2> QED
    BY <2>1, FS_Subset
<1>2. Ascending(S) \in Seq(S) /\ \A x \in S : \E i \in 1 .. Len(Ascending(S)) : Ascending(S)[i] = x
  BY <1>1, AscendingOrder
<1> QED
  BY <1>2

\* from_registry_with_scope: pool by pool from the empty index.
LEMMA FromRegistryGood ==
  ASSUME NEW reg \in Registries, NEW c
  PROVE  Good(FromRegistry(reg), reg, c)
<1> DEFINE order == Ascending(Pools)
           n == Len(order)
           G == {v \in Index : Good(v, reg, c)}
           X == [i \in 0 .. n |-> G]
           Turn(i, v) == AddPool(v, reg, order[i])
           Body(f) == [i \in 0 .. n |-> IF i = 0 THEN EmptyIndex ELSE Turn(i, f[i - 1])]
           added == CHOOSE f : f = Body(f)
           step == [i \in 1 .. n |-> [v \in G |-> Turn(i, v)]]
<1>0. n \in Nat /\ \A i \in 1 .. n : order[i] \in Pools
  BY OrderOf
<1>a. FromRegistry(reg) = added[n]
  BY DEF FromRegistry
<1> HIDE DEF order
<1>1. EmptyIndex \in G
  BY EmptyIsGood DEF Good
<1>2. ASSUME NEW i \in 1 .. n, NEW v \in G
      PROVE  Turn(i, v) \in G
  <2>1. Good(v, reg, c) /\ order[i] \in Pools
    BY <1>0
  <2>2. Good(Turn(i, v), reg, c)
    BY <2>1, AddPoolKeeps
  <2> QED
    BY <2>2 DEF Good
<1> HIDE DEF G, n
<1>3. \A i \in 1 .. n : i \in 0 .. n /\ i - 1 \in 0 .. n /\ i # 0
  BY <1>0
<1>4. \A i \in 1 .. n : \A v \in X[i - 1] : step[i][v] \in X[i] /\ step[i][v] = Turn(i, v)
  <2> SUFFICES ASSUME NEW i \in 1 .. n, NEW v \in X[i - 1]
               PROVE  step[i][v] \in X[i] /\ step[i][v] = Turn(i, v)
    OBVIOUS
  <2>1. v \in G /\ X[i] = G
    BY <1>3
  <2> HIDE DEF X, Turn
  <2>2. step[i][v] = Turn(i, v)
    BY <2>1
  <2> HIDE DEF step
  <2> QED
    BY <1>2, <2>1, <2>2
<1>5. EmptyIndex \in X[0] /\ 0 \in 0 .. n
  BY <1>0, <1>1
<1>6. PICK f : Runs(f, step, n, X, EmptyIndex)
  <2>1. Leads(step, n, X)
    <3> HIDE DEF X, step, Turn
    <3> QED
      BY <1>4 DEF Leads
  <2> HIDE DEF X, step
  <2> QED
    BY <1>0, <1>5, <2>1, StepsExist
<1>7. /\ f = [i \in 0 .. n |-> f[i]] /\ f[0] = EmptyIndex
      /\ \A i \in 1 .. n : f[i] = Turn(i, f[i - 1])
  <2> HIDE DEF X, step, Turn
  <2> QED
    BY <1>4, <1>6 DEF Runs
<1>8. f = Body(f)
  <2>1. ASSUME NEW i \in 0 .. n
        PROVE  f[i] = IF i = 0 THEN EmptyIndex ELSE Turn(i, f[i - 1])
    <3>1. CASE i = 0
      BY <1>7, <3>1
    <3>2. CASE i # 0
      <4>1. i \in 1 .. n
        BY <1>0, <3>2
      <4> HIDE DEF Turn
      <4> QED
        BY <1>7, <3>2, <4>1
    <3> QED
      BY <3>1, <3>2
  <2> HIDE DEF Turn, n
  <2> QED
    BY <1>7, <2>1
<1>9. added = Body(added)
  <2> HIDE DEF Body
  <2> QED
    BY <1>8
<1> HIDE DEF added, Turn
<1>11. added[0] = EmptyIndex /\ \A i \in 1 .. n : added[i] = Turn(i, added[i - 1])
  <2>1. added[0] = Body(added)[0] /\ \A i \in 1 .. n : added[i] = Body(added)[i]
    <3> HIDE DEF Body
    <3> QED
      BY <1>9
  <2>2. Body(added)[0] = EmptyIndex /\ \A i \in 1 .. n : Body(added)[i] = Turn(i, added[i - 1])
    BY <1>3, <1>5
  <2> HIDE DEF Body
  <2> QED
    BY <2>1, <2>2
<1>12. \A i \in 1 .. n : added[i - 1] \in X[i - 1] => added[i] \in X[i]
  <2> SUFFICES ASSUME NEW i \in 1 .. n, added[i - 1] \in X[i - 1]
               PROVE  added[i] \in X[i]
    OBVIOUS
  <2>1. X[i - 1] = G /\ X[i] = G
    BY <1>3
  <2> HIDE DEF X
  <2> QED
    BY <1>2, <1>11, <2>1
<1>13. added[n] \in X[n] /\ X[n] = G
  <2>1. X[n] = G
    BY <1>0
  <2> HIDE DEF X
  <2> QED
    BY <1>0, <1>5, <1>11, <1>12, <2>1, StepsStay
<1> QED
  BY <1>a, <1>13 DEF G

\* The pools whose registration changed are reconciled one after the other: until its turn
\* a pool's targets are those of its old registration.
LEMMA ReconcileAllKeeps ==
  ASSUME NEW x, NEW R, NEW c, Good(x, R, c), NEW reg \in Registries
  PROVE  Good(ReconcileAll(x, reg, {q \in Pools : reg[q] # R[q]}), reg, c)
<1> DEFINE S == {q \in Pools : reg[q] # R[q]}
           order == Ascending(S)
           n == Len(order)
           Mix(i) == [q \in Pools |-> IF \E k \in 1 .. i : order[k] = q THEN reg[q] ELSE R[q]]
           G(i) == {v \in Index : Good(v, Mix(i), c)}
           X == [i \in 0 .. n |-> G(i)]
           Turn(i, v) == ReconcilePool(v, reg, order[i])
           Body(f) == [i \in 0 .. n |-> IF i = 0 THEN x ELSE Turn(i, f[i - 1])]
           done == CHOOSE f : f = Body(f)
           step == [i \in 1 .. n |-> [v \in G(i - 1) |-> Turn(i, v)]]
<1>0. /\ n \in Nat /\ \A i \in 1 .. n : order[i] \in Pools
      /\ \A q \in S : \E i \in 1 .. n : order[i] = q
  <2>1. S \in SUBSET Pools
    OBVIOUS
  <2> HIDE DEF S
  <2> QED
    BY <2>1, OrderOf
<1>a. ReconcileAll(x, reg, S) = done[n]
  BY DEF ReconcileAll
<1>b. \A q \in Pools : q \notin S => reg[q] = R[q]
  OBVIOUS
<1> HIDE DEF order, S
<1>1. x \in G(0)
  <2>1. \A q \in Pools : Mix(0)[q] = R[q]
    OBVIOUS
  <2> HIDE DEF Mix
  <2>2. Good(x, Mix(0), c)
    BY <2>1, SameRegistry
  <2> QED
    BY <2>2 DEF Good
<1> HIDE DEF n
<1>3. \A i \in 1 .. n : i \in 0 .. n /\ i - 1 \in 0 .. n /\ i # 0 /\ i \in Nat
  BY <1>0
<1>2. ASSUME NEW i \in 1 .. n, NEW v \in G(i - 1)
      PROVE  Turn(i, v) \in G(i)
  <2>1. Good(v, Mix(i - 1), c) /\ order[i] \in Pools
    BY <1>0
  <2>2. Mix(i)[order[i]] = reg[order[i]]
    <3>1. i \in 1 .. i
      BY <1>3
    <3> QED
      BY <2>1, <3>1
  <2>3. \A q \in Pools : q # order[i] => Mix(i)[q] = Mix(i - 1)[q]
    <3> SUFFICES ASSUME NEW q \in Pools, q # order[i]
                 PROVE  Mix(i)[q] = Mix(i - 1)[q]
      OBVIOUS
    <3>1. (\E k \in 1 .. i : order[k] = q) <=> (\E k \in 1 .. (i - 1) : order[k] = q)
      <4>1. \A k \in 1 .. i : k # i => k \in 1 .. (i - 1)
        BY <1>3
      <4>2. \A k \in 1 .. (i - 1) : k \in 1 .. i
        BY <1>3
      <4> QED
        BY <4>1, <4>2
    <3> QED
      BY <3>1
  <2> HIDE DEF Mix
  <2>4. Good(Turn(i, v), Mix(i), c)
    BY <2>1, <2>2, <2>3, ReconcileKeeps
  <2> QED
    BY <2>4 DEF Good
<1>c. \A v : v \in G(n) => Good(v, reg, c)
  <2> SUFFICES ASSUME NEW v, v \in G(n)
               PROVE  Good(v, reg, c)
    OBVIOUS
  <2>1. Good(v, Mix(n), c)
    OBVIOUS
  <2>2. \A q \in Pools : reg[q] = Mix(n)[q]
    BY <1>0, <1>b
  <2> HIDE DEF Mix
  <2> QED
    BY <2>1, <2>2, SameRegistry
<1> HIDE DEF G
<1>4. \A i \in 1 .. n : \A v \in X[i - 1] : step[i][v] \in X[i] /\ step[i][v] = Turn(i, v)
  <2> SUFFICES ASSUME NEW i \in 1 .. n, NEW v \in X[i - 1]
               PROVE  step[i][v] \in X[i] /\ step[i][v] = Turn(i, v)
    OBVIOUS
  <2>1. v \in G(i - 1) /\ X[i] = G(i)
    BY <1>3
  <2> HIDE DEF X, Turn
  <2>2. step[i][v] = Turn(i, v)
    BY <2>1
  <2> HIDE DEF step
  <2> QED
    BY <1>2, <2>1, <2>2
<1>5. x \in X[0] /\ 0 \in 0 .. n
  BY <1>0, <1>1
<1>6. PICK f : Runs(f, step, n, X, x)
  <2>1. Leads(step, n, X)
    <3> HIDE DEF X, step, Turn
    <3> QED
      BY <1>4 DEF Leads
  <2> HIDE DEF X, step
  <2> QED
    BY <1>0, <1>5, <2>1, StepsExist
<1>7. /\ f = [i \in 0 .. n |-> f[i]] /\ f[0] = x
      /\ \A i \in 1 .. n : f[i] = Turn(i, f[i - 1])
  <2> HIDE DEF X, step, Turn
  <2> QED
    BY <1>4, <1>6 DEF Runs
<1>8. f = Body(f)
  <2>1. ASSUME NEW i \in 0 .. n
        PROVE  f[i] = IF i = 0 THEN x ELSE Turn(i, f[i - 1])
    <3>1. CASE i = 0
      BY <1>7, <3>1
    <3>2. CASE i # 0
      <4>1. i \in 1 .. n
        BY <1>0, <3>2
      <4> HIDE DEF Turn
      <4> QED
        BY <1>7, <3>2, <4>1
    <3> QED
      BY <3>1, <3>2
  <2> HIDE DEF Turn, n
  <2> QED
    BY <1>7, <2>1
<1>9. done = Body(done)
  <2> HIDE DEF Body
  <2> QED
    BY <1>8
<1> HIDE DEF done, Turn
<1>11. done[0] = x /\ \A i \in 1 .. n : done[i] = Turn(i, done[i - 1])
  <2>1. done[0] = Body(done)[0] /\ \A i \in 1 .. n : done[i] = Body(done)[i]
    <3> HIDE DEF Body
    <3> QED
      BY <1>9
  <2>2. Body(done)[0] = x /\ \A i \in 1 .. n : Body(done)[i] = Turn(i, done[i - 1])
    BY <1>3, <1>5
  <2> HIDE DEF Body
  <2> QED
    BY <2>1, <2>2
<1>12. \A i \in 1 .. n : done[i - 1] \in X[i - 1] => done[i] \in X[i]
  <2> SUFFICES ASSUME NEW i \in 1 .. n, done[i - 1] \in X[i - 1]
               PROVE  done[i] \in X[i]
    OBVIOUS
  <2>1. X[i - 1] = G(i - 1) /\ X[i] = G(i)
    BY <1>3
  <2> HIDE DEF X
  <2> QED
    BY <1>2, <1>11, <2>1
<1>13. done[n] \in X[n] /\ X[n] = G(n)
  <2>1. X[n] = G(n)
    BY <1>0
  <2> HIDE DEF X
  <2> QED
    BY <1>0, <1>5, <1>11, <1>12, <2>1, StepsStay
<1>14. Good(ReconcileAll(x, reg, S), reg, c)
  BY <1>a, <1>c, <1>13
<1> QED
  BY <1>14 DEF S

------------------------------------------------------------------------------
(* Changes of balances *)

\* The same targets but for their balances.
Rebalanced(x, T) ==
  /\ T = [i \in DOMAIN x.targets |-> T[i]]
  /\ \A i \in DOMAIN x.targets : T[i] = [x.targets[i] EXCEPT !.balance = T[i].balance] /\ T[i].balance \in Int

\* A rebalanced target has its token, its source and its place.
LEMMA RebalancedFields ==
  ASSUME NEW x, x \in Index, NEW T, Rebalanced(x, T), NEW i \in DOMAIN x.targets
  PROVE  /\ T[i] \in Target /\ x.targets[i] \in Target
         /\ T[i].token = x.targets[i].token /\ T[i].source = x.targets[i].source
         /\ T[i].active = x.targets[i].active
<1>1. x.targets \in Seq(Target)
  BY DEF Index
<1>2. x.targets[i] \in Target
  BY <1>1
<1>3. T[i] = [x.targets[i] EXCEPT !.balance = T[i].balance] /\ T[i].balance \in Int
  BY DEF Rebalanced
<1> DEFINE b == T[i].balance
           u == x.targets[i]
<1>4. T[i] = [u EXCEPT !.balance = b] /\ b \in Int /\ u \in Target
  BY <1>2, <1>3
<1> HIDE DEF b, u
<1>5. /\ T[i] \in Target /\ T[i].token = u.token /\ T[i].source = u.source /\ T[i].active = u.active
  BY <1>4 DEF Target
<1> QED
  BY <1>2, <1>5 DEF u

\* New balances that are none or what is on the chain now.
LEMMA BalancesKeep ==
  ASSUME NEW x, NEW R, NEW c, NEW c2, Good(x, R, c), NEW T, Rebalanced(x, T),
         \A i \in Active(x) : TrueBalance(T[i], c2)
  PROVE  Good([x EXCEPT !.targets = T], R, c2)
<1> DEFINE y == [x EXCEPT !.targets = T]
<1>1. x \in Index /\ Places(x) /\ Tracked(x, R) /\ Indexed(x) /\ Honest(x, c)
  BY DEF Good
<1>2. \A i \in DOMAIN x.targets :
        /\ T[i] \in Target /\ T[i].token = x.targets[i].token /\ T[i].source = x.targets[i].source
        /\ T[i].active = x.targets[i].active
  BY <1>1, RebalancedFields
<1>3. T \in Seq(Target) /\ DOMAIN T = DOMAIN x.targets
  <2>1. Len(x.targets) \in Nat /\ DOMAIN x.targets = 1 .. Len(x.targets)
    BY <1>1 DEF Index
  <2>2. T = [i \in 1 .. Len(x.targets) |-> T[i]]
    BY <2>1 DEF Rebalanced
  <2>3. T \in [1 .. Len(x.targets) -> Target]
    BY <1>2, <2>1, <2>2
  <2> QED
    BY <2>1, <2>3
<1>4. /\ y \in Index /\ y.targets = T /\ y.by_pool = x.by_pool /\ y.by_pool_token = x.by_pool_token
      /\ y.by_token_holder = x.by_token_holder /\ y.by_storage_slot = x.by_storage_slot /\ y.free = x.free
  BY <1>1, <1>3 DEF Index
<1> HIDE DEF y
<1>5. Active(y) = Active(x) /\ \A i \in Active(x) : i \in DOMAIN x.targets
  BY <1>2, <1>3, <1>4 DEF Active
<1>6. Places(y)
  BY <1>1, <1>3, <1>4, <1>5 DEF Places
<1>7. Tracked(y, R)
  <2> SUFFICES ASSUME NEW q \in Pools, NEW t \in Tokens, NEW j \in Nat, <<<<q, t>>, j>> \in y.by_pool_token
               PROVE  /\ \E k \in DOMAIN y.by_pool[q] : y.by_pool[q][k] = j
                      /\ y.targets[j].token = t /\ Fits(y.targets[j].source, q, R[q], t)
    BY DEF Tracked
  <2>1. /\ \E k \in DOMAIN x.by_pool[q] : x.by_pool[q][k] = j
        /\ x.targets[j].token = t /\ Fits(x.targets[j].source, q, R[q], t)
    BY <1>1, <1>4 DEF Tracked
  <2>2. j \in DOMAIN x.targets
    BY <1>1, <1>5, <2>1 DEF Places
  <2> QED
    BY <1>2, <1>4, <2>1, <2>2
<1>8. Indexed(y)
  BY <1>1, <1>2, <1>4, <1>5 DEF Indexed
<1>9. Honest(y, c2)
  BY <1>1, <1>2, <1>4, <1>5 DEF Honest
<1> QED
  BY <1>4, <1>6, <1>7, <1>8, <1>9 DEF Good, y

\* Where an active target is found: by its token and holder, and at its slot.
LEMMA FoundBy ==
  ASSUME NEW x, NEW R, NEW c, Good(x, R, c), NEW i, i \in Active(x)
  PROVE  /\ i \in DOMAIN x.targets /\ x.targets[i] \in Target /\ i \in Nat
         /\ GoodSource(x.targets[i].token, x.targets[i].source) /\ TrueBalance(x.targets[i], c)
         /\ \A t \in Tokens, h \in Nat : i \in TokenHolder(x, t, h) <=>
              /\ x.targets[i].token = t /\ x.targets[i].source.kind = "erc20"
              /\ x.targets[i].source.holder = h
         /\ \A s \in Slots : i \in AtSlot(x, s) <=> s \in StorageSlot(x.targets[i].token, x.targets[i].source)
<1>1. x \in Index /\ Indexed(x) /\ Honest(x, c)
  BY DEF Good
<1>2. x.targets \in Seq(Target) /\ i \in DOMAIN x.targets
  BY <1>1 DEF Index, Active
<1>3. i \in Nat /\ x.targets[i] \in Target
  BY <1>2
<1>4. \A t \in Tokens, h \in Nat : i \in TokenHolder(x, t, h) <=> <<<<t, h>>, i>> \in x.by_token_holder
  <2>1. x.by_token_holder \in SUBSET ((Tokens \X Nat) \X Nat)
    BY <1>1 DEF Index
  <2> QED
    BY <2>1 DEF TokenHolder
<1>5. \A s \in Slots : i \in AtSlot(x, s) <=> <<s, i>> \in x.by_storage_slot
  <2>1. x.by_storage_slot \in SUBSET (Slots \X Nat)
    BY <1>1 DEF Index
  <2> QED
    BY <2>1 DEF AtSlot
<1>6. GoodSource(x.targets[i].token, x.targets[i].source) /\ TrueBalance(x.targets[i], c)
  BY <1>1 DEF Honest
<1>7. \A t \in Tokens, h \in Nat : i \in TokenHolder(x, t, h) <=>
              /\ x.targets[i].token = t /\ x.targets[i].source.kind = "erc20"
              /\ x.targets[i].source.holder = h
  BY <1>1, <1>3, <1>4 DEF Indexed
<1>8. \A s \in Slots : i \in AtSlot(x, s) <=> s \in StorageSlot(x.targets[i].token, x.targets[i].source)
  BY <1>1, <1>3, <1>5 DEF Indexed
<1> QED
  BY <1>2, <1>3, <1>6, <1>7, <1>8

\* The three kinds of targets: a field of the vault, a token's balance at a holder that is
\* somebody, and no slot at all.
LEMMA SlotOf ==
  ASSUME NEW token \in Tokens, NEW source \in Source, GoodSource(token, source)
  PROVE  \/ StorageSlot(token, source) = {} /\ ~(source.kind = "erc20" /\ source.known)
         \/ /\ source.kind = "cash" /\ source.slot \in VaultSlots /\ <<Vault, source.slot>> \in Slots
            /\ StorageSlot(token, source) = {<<Vault, source.slot>>}
         \/ /\ source.kind = "erc20" /\ source.known /\ <<token, source.holder>> \in Slots
            /\ StorageSlot(token, source) = {<<token, source.holder>>} /\ source.holder # 0
<1>1. CASE source.kind = "erc20" /\ source.known
  <2>1. <<token, source.holder>> \in Slots
    BY <1>1 DEF GoodSource
  <2>2. token # Vault
    BY LiquidityAssumption DEF Vault
  <2>3. source.holder # 0
    BY <2>1, <2>2 DEF Slots, ERC20Slots
  <2>4. StorageSlot(token, source) = {<<token, source.holder>>}
    BY <1>1 DEF StorageSlot
  <2> QED
    BY <1>1, <2>1, <2>3, <2>4
<1>2. CASE source.kind = "cash"
  <2>1. source.slot \in VaultSlots /\ <<Vault, source.slot>> \in Slots
    BY <1>2 DEF GoodSource, Slots
  <2>2. StorageSlot(token, source) = {<<Vault, source.slot>>}
    BY <1>2 DEF StorageSlot
  <2> QED
    BY <1>2, <2>1, <2>2
<1>3. CASE ~(source.kind = "erc20" /\ source.known) /\ source.kind # "cash"
  BY <1>3 DEF StorageSlot
<1> QED
  BY <1>1, <1>2, <1>3

\* A decoded word is an amount.
LEMMA DecodedType ==
  ASSUME NEW source, NEW word \in Nat \X Nat
  PROVE  Decoded(source, word) \in Nat
BY DEF Decoded

------------------------------------------------------------------------------
(* Slots that become known *)

\* The targets of a token and holder whose slot is found: they had no fresh balance if
\* their slot was not known before.
LEMMA SlotsKeep ==
  ASSUME NEW x, NEW R, NEW c, Good(x, R, c), NEW found, found \subseteq ERC20Slots
  PROVE  Good(SetErc20Slots(x, found), R, c)
<1> DEFINE holding(w) == TokenHolder(x, w[1], w[2])
           known == UNION {holding(w) : w \in found}
           T == [i \in DOMAIN x.targets |-> IF i \in known THEN [x.targets[i] EXCEPT !.source.known = TRUE] ELSE x.targets[i]]
           S == x.by_storage_slot \cup UNION {{w} \X holding(w) : w \in found}
           y == SetErc20Slots(x, found)
<1>1. x \in Index /\ Places(x) /\ Tracked(x, R) /\ Indexed(x) /\ Honest(x, c)
  BY DEF Good
<1>2. y = [x EXCEPT !.targets = T, !.by_storage_slot = S]
  BY DEF SetErc20Slots
<1>3. \A w \in found : w \in Slots /\ w[1] \in Tokens /\ w[2] \in Nat /\ w = <<w[1], w[2]>>
  <2>1. \A w \in ERC20Slots : w \in Slots /\ w[1] \in Tokens /\ w[2] \in Nat /\ w = <<w[1], w[2]>>
    BY LiquidityAssumption DEF ERC20Slots, Slots
  <2> QED
    BY <2>1
<1>4. \A w \in found : \A i : i \in holding(w) <=>
        /\ i \in Active(x) /\ x.targets[i].source.kind = "erc20"
        /\ w = <<x.targets[i].token, x.targets[i].source.holder>>
  <2> SUFFICES ASSUME NEW w \in found, NEW i
               PROVE  i \in holding(w) <=>
                        /\ i \in Active(x) /\ x.targets[i].source.kind = "erc20"
                        /\ w = <<x.targets[i].token, x.targets[i].source.holder>>
    OBVIOUS
  <2>1. x.by_token_holder \in SUBSET ((Tokens \X Nat) \X Nat)
    BY <1>1 DEF Index
  <2>2. i \in holding(w) <=> <<<<w[1], w[2]>>, i>> \in x.by_token_holder
    BY <1>3, <2>1 DEF TokenHolder
  <2>3. i \in holding(w) => i \in Nat
    BY <1>3, <2>1 DEF TokenHolder
  <2>4. i \in Active(x) => i \in Nat
    BY <1>1 DEF Active, Index
  <2>5. i \in Nat => (<<<<w[1], w[2]>>, i>> \in x.by_token_holder <=>
                        /\ i \in Active(x) /\ x.targets[i].token = w[1]
                        /\ x.targets[i].source.kind = "erc20" /\ x.targets[i].source.holder = w[2])
    BY <1>1, <1>3 DEF Indexed
  <2> HIDE DEF holding
  <2> QED
    BY <1>3, <2>2, <2>3, <2>4, <2>5
<1>5. \A i : i \in known <=>
        /\ i \in Active(x) /\ x.targets[i].source.kind = "erc20"
        /\ <<x.targets[i].token, x.targets[i].source.holder>> \in found
  <2>1. \A i : i \in known <=> \E w \in found : i \in holding(w)
    OBVIOUS
  <2> HIDE DEF holding, known
  <2> QED
    BY <1>4, <2>1
<1>6. \A s, i : <<s, i>> \in S <=> <<s, i>> \in x.by_storage_slot \/ (s \in found /\ i \in holding(s))
  <2> HIDE DEF holding
  <2> QED
    OBVIOUS
<1>7. x.targets \in Seq(Target) /\ Len(x.targets) \in Nat /\ DOMAIN x.targets = 1 .. Len(x.targets)
  BY <1>1 DEF Index
<1> HIDE DEF known
<1>8. \A i \in DOMAIN x.targets :
        /\ T[i] \in Target /\ T[i].token = x.targets[i].token /\ T[i].active = x.targets[i].active
        /\ T[i].balance = x.targets[i].balance
        /\ T[i].source.kind = x.targets[i].source.kind /\ T[i].source.holder = x.targets[i].source.holder
        /\ i \notin known => T[i].source = x.targets[i].source
        /\ i \in known => T[i].source.known
  <2> SUFFICES ASSUME NEW i \in DOMAIN x.targets
               PROVE  /\ T[i] \in Target /\ T[i].token = x.targets[i].token /\ T[i].active = x.targets[i].active
                      /\ T[i].balance = x.targets[i].balance
                      /\ T[i].source.kind = x.targets[i].source.kind /\ T[i].source.holder = x.targets[i].source.holder
                      /\ i \notin known => T[i].source = x.targets[i].source
                      /\ i \in known => T[i].source.known
    OBVIOUS
  <2>1. x.targets[i] \in Target
    BY <1>7
  <2>2. CASE i \notin known
    BY <2>1, <2>2
  <2>3. CASE i \in known
    <3> DEFINE u == x.targets[i]
               v == [u.source EXCEPT !.known = TRUE]
    <3>1. T[i] = [u EXCEPT !.source = v]
      BY <2>3
    <3>2. u.source \in Source /\ u \in Target
      BY <2>1 DEF Target
    <3>3. v \in Source /\ v.kind = u.source.kind /\ v.holder = u.source.holder /\ v.known = TRUE
      BY <3>2 DEF Source
    <3> HIDE DEF v, T
    <3>4. T[i] \in Target /\ T[i].token = u.token /\ T[i].active = u.active /\ T[i].balance = u.balance /\ T[i].source = v
      BY <3>1, <3>2, <3>3 DEF Target
    <3> QED
      BY <2>3, <3>3, <3>4
  <2> QED
    BY <2>2, <2>3
<1>9. T \in Seq(Target) /\ DOMAIN T = DOMAIN x.targets
  <2>1. T = [i \in 1 .. Len(x.targets) |-> T[i]]
    BY <1>7
  <2> HIDE DEF T
  <2>2. T \in [1 .. Len(x.targets) -> Target]
    BY <1>7, <1>8, <2>1
  <2> QED
    BY <1>7, <2>2
<1>10. S \in SUBSET (Slots \X Nat)
  <2>1. x.by_storage_slot \in SUBSET (Slots \X Nat)
    BY <1>1 DEF Index
  <2>2. \A w \in found : \A i \in holding(w) : i \in Nat /\ w \in Slots
    <3>1. \A i \in Active(x) : i \in Nat
      BY <1>7 DEF Active
    <3> HIDE DEF holding
    <3> QED
      BY <1>3, <1>4, <3>1
  <2> HIDE DEF holding
  <2> QED
    BY <2>1, <2>2
<1> HIDE DEF T, S, y, holding
<1>11. /\ y \in Index /\ y.targets = T /\ y.by_pool = x.by_pool /\ y.by_pool_token = x.by_pool_token
       /\ y.by_token_holder = x.by_token_holder /\ y.by_storage_slot = S /\ y.free = x.free
  BY <1>1, <1>2, <1>9, <1>10 DEF Index
<1>12. Active(y) = Active(x) /\ \A i \in Active(x) : i \in DOMAIN x.targets /\ i \in Nat
  BY <1>7, <1>8, <1>9, <1>11 DEF Active
<1>13. Places(y)
  BY <1>1, <1>9, <1>11, <1>12 DEF Places
<1>14. Tracked(y, R)
  <2> SUFFICES ASSUME NEW q \in Pools, NEW t \in Tokens, NEW j \in Nat, <<<<q, t>>, j>> \in y.by_pool_token
               PROVE  /\ \E k \in DOMAIN y.by_pool[q] : y.by_pool[q][k] = j
                      /\ y.targets[j].token = t /\ Fits(y.targets[j].source, q, R[q], t)
    BY DEF Tracked
  <2>1. /\ \E k \in DOMAIN x.by_pool[q] : x.by_pool[q][k] = j
        /\ x.targets[j].token = t /\ Fits(x.targets[j].source, q, R[q], t)
    BY <1>1, <1>11 DEF Tracked
  <2>2. j \in DOMAIN x.targets
    BY <1>1, <1>12, <2>1 DEF Places
  <2>3. CASE j \notin known
    BY <1>8, <1>11, <2>1, <2>2, <2>3
  <2>4. CASE j \in known
    <3>1. x.targets[j].source.kind = "erc20"
      BY <1>5, <2>4
    <3>2. \A k : Cash(k).kind = "cash"
      BY DEF Cash
    <3>3. R[q].kind = "erc20" /\ x.targets[j].source.holder = Holder[q]
      BY <2>1, <3>1, <3>2 DEF Fits
    <3>4. Fits(T[j].source, q, R[q], t)
      BY <1>8, <2>2, <3>1, <3>3 DEF Fits
    <3> QED
      BY <1>8, <1>11, <2>1, <2>2, <3>4
  <2> QED
    BY <2>3, <2>4
<1>15. ASSUME NEW i \in DOMAIN x.targets, i \in known
       PROVE  /\ StorageSlot(T[i].token, T[i].source) = {<<x.targets[i].token, x.targets[i].source.holder>>}
              /\ StorageSlot(x.targets[i].token, x.targets[i].source)
                   = IF x.targets[i].source.known THEN {<<x.targets[i].token, x.targets[i].source.holder>>} ELSE {}
  BY <1>5, <1>8, <1>15 DEF StorageSlot
<1>16. Indexed(y)
  <2>1. ASSUME NEW t \in Tokens, NEW h \in Nat, NEW j \in Nat
        PROVE  <<<<t, h>>, j>> \in y.by_token_holder <=>
                 /\ j \in Active(y) /\ y.targets[j].token = t
                 /\ y.targets[j].source.kind = "erc20" /\ y.targets[j].source.holder = h
    <3>1. <<<<t, h>>, j>> \in x.by_token_holder <=>
                 /\ j \in Active(x) /\ x.targets[j].token = t
                 /\ x.targets[j].source.kind = "erc20" /\ x.targets[j].source.holder = h
      BY <1>1 DEF Indexed
    <3> QED
      BY <1>8, <1>11, <1>12, <3>1
  <2>2. ASSUME NEW s \in Slots, NEW j \in Nat
        PROVE  <<s, j>> \in y.by_storage_slot <=>
                 j \in Active(y) /\ s \in StorageSlot(y.targets[j].token, y.targets[j].source)
    <3>1. <<s, j>> \in x.by_storage_slot <=>
                 j \in Active(x) /\ s \in StorageSlot(x.targets[j].token, x.targets[j].source)
      BY <1>1 DEF Indexed
    <3>2. <<s, j>> \in y.by_storage_slot <=> <<s, j>> \in x.by_storage_slot \/ (s \in found /\ j \in holding(s))
      BY <1>6, <1>11
    <3>3. CASE j \notin Active(x)
      BY <1>4, <1>12, <3>1, <3>2, <3>3
    <3>4. CASE j \in Active(x) /\ j \notin known
      <4>1. ~(s \in found /\ j \in holding(s))
        BY <1>4, <1>5, <3>4
      <4> QED
        BY <1>8, <1>11, <1>12, <3>1, <3>2, <3>4, <4>1
    <3>5. CASE j \in Active(x) /\ j \in known
      <4>1. (s \in found /\ j \in holding(s)) <=> s = <<x.targets[j].token, x.targets[j].source.holder>>
        BY <1>4, <1>5, <3>5
      <4> QED
        BY <1>11, <1>12, <1>15, <3>1, <3>2, <3>5, <4>1
    <3> QED
      BY <3>3, <3>4, <3>5
  <2> QED
    BY <2>1, <2>2 DEF Indexed
<1>17. Honest(y, c)
  <2> SUFFICES ASSUME NEW i \in Active(x)
               PROVE  GoodSource(T[i].token, T[i].source) /\ TrueBalance(T[i], c)
    BY <1>11, <1>12 DEF Honest
  <2>1. GoodSource(x.targets[i].token, x.targets[i].source) /\ TrueBalance(x.targets[i], c) /\ i \in DOMAIN x.targets
    BY <1>1, <1>12 DEF Honest
  <2>2. CASE i \notin known
    BY <1>8, <2>1, <2>2 DEF TrueBalance
  <2>3. CASE i \in known
    <3>1. GoodSource(T[i].token, T[i].source)
      BY <1>5, <1>8, <2>1, <2>3 DEF GoodSource
    <3>2. \A u : Decoded(T[i].source, u) = u[1] /\ Decoded(x.targets[i].source, u) = u[1]
      BY <1>5, <1>8, <2>1, <2>3 DEF Decoded
    <3>3. TrueBalance(T[i], c)
      <4> SUFFICES ASSUME T[i].balance >= 0
                   PROVE  \E s \in StorageSlot(T[i].token, T[i].source) : \E u \in c[s] :
                            T[i].balance = Decoded(T[i].source, u)
        BY DEF TrueBalance
      <4> DEFINE w == <<x.targets[i].token, x.targets[i].source.holder>>
      <4>1. T[i].balance = x.targets[i].balance
        BY <1>8, <2>1
      <4>2. PICK s \in StorageSlot(x.targets[i].token, x.targets[i].source) : \E u \in c[s] :
              x.targets[i].balance = Decoded(x.targets[i].source, u)
        BY <2>1, <4>1 DEF TrueBalance
      <4>3. s \in StorageSlot(T[i].token, T[i].source)
        BY <1>15, <2>1, <2>3, <4>2
      <4> QED
        BY <3>2, <4>1, <4>2, <4>3
    <3> QED
      BY <3>1, <3>3
  <2> QED
    BY <2>2, <2>3
<1> QED
  BY <1>11, <1>13, <1>14, <1>16, <1>17 DEF Good, y

------------------------------------------------------------------------------
(* The calls that change balances *)

\* A target without a balance claims nothing.
LEMMA NoBalance ==
  ASSUME NEW target, NEW c, target.balance \in {Unknown, Stale}
  PROVE  TrueBalance(target, c)
<1>1. ~(target.balance >= 0)
  BY DEF Unknown, Stale
<1> QED
  BY <1>1 DEF TrueBalance

\* What a slot may be taken to hold, now and after a step.
LEMMA BelievedIs ==
  ASSUME NEW s \in Slots
  PROVE  /\ \A w : w \in Believed[s] <=> w = chain[s] \/ (s \in misread /\ w = cache[s])
         /\ \A w : w \in Believed'[s] <=> w = chain'[s] \/ (s \in misread' /\ w = cache'[s])
BY DEF Believed

LEMMA ChainBelieved == \A s \in Slots : chain[s] \in Believed[s]
BY DEF Believed

\* Where neither the chain nor the cache changes.
LEMMA WordsSame ==
  ASSUME UNCHANGED <<chain, cache, misread>>
  PROVE  Believed' = Believed /\ (CacheOk => CacheOk')
BY DEF Believed, CacheOk, hot

\* Setting the balance of some targets gives a rebalanced list.
LEMMA SetAllTargets ==
  ASSUME NEW x, x \in Index, NEW S, NEW b \in Int
  PROVE  \E T : /\ SetAll(x, S, b) = [x EXCEPT !.targets = T] /\ Rebalanced(x, T)
                /\ \A i \in DOMAIN x.targets : T[i].balance = IF i \in S THEN b ELSE x.targets[i].balance
<1> DEFINE T == [i \in DOMAIN x.targets |-> IF i \in S THEN [x.targets[i] EXCEPT !.balance = b] ELSE x.targets[i]]
<1>1. SetAll(x, S, b) = [x EXCEPT !.targets = T]
  BY DEF SetAll
<1>2. T = [i \in DOMAIN x.targets |-> T[i]]
  OBVIOUS
<1>3. ASSUME NEW i \in DOMAIN x.targets
      PROVE  /\ T[i] = [x.targets[i] EXCEPT !.balance = T[i].balance] /\ T[i].balance \in Int
             /\ T[i].balance = IF i \in S THEN b ELSE x.targets[i].balance
  <2>1. x.targets \in Seq(Target)
    BY DEF Index
  <2>2. x.targets[i] \in Target
    BY <2>1
  <2>3. T[i] = IF i \in S THEN [x.targets[i] EXCEPT !.balance = b] ELSE x.targets[i]
    OBVIOUS
  <2> HIDE DEF T
  <2> QED
    BY <2>2, <2>3 DEF Target
<1> HIDE DEF T
<1>4. Rebalanced(x, T)
  BY <1>2, <1>3 DEF Rebalanced
<1> DEFINE Holds(U) == /\ SetAll(x, S, b) = [x EXCEPT !.targets = U] /\ Rebalanced(x, U)
                       /\ \A i \in DOMAIN x.targets : U[i].balance = IF i \in S THEN b ELSE x.targets[i].balance
<1>5. Holds(T)
  BY <1>1, <1>3, <1>4
<1> SUFFICES \E U : Holds(U)
  OBVIOUS
<1> HIDE DEF Holds
<1> QED
  BY <1>5

\* Balances that are lost, of all the targets the chain changed under.
LEMMA LostKeeps ==
  ASSUME NEW x, NEW R, NEW c, NEW c2, Good(x, R, c), NEW S, NEW b \in {Unknown, Stale},
         \A i \in Active(x) : i \notin S => TrueBalance(x.targets[i], c2)
  PROVE  Good(SetAll(x, S, b), R, c2)
<1>1. x \in Index /\ b \in Int
  BY DEF Good, Unknown, Stale
<1>2. PICK T : /\ SetAll(x, S, b) = [x EXCEPT !.targets = T] /\ Rebalanced(x, T)
               /\ \A i \in DOMAIN x.targets : T[i].balance = IF i \in S THEN b ELSE x.targets[i].balance
  BY <1>1, SetAllTargets
<1>3. ASSUME NEW i \in Active(x)
      PROVE  TrueBalance(T[i], c2)
  <2>1. i \in DOMAIN x.targets
    BY DEF Active
  <2>2. T[i].token = x.targets[i].token /\ T[i].source = x.targets[i].source
    BY <1>1, <1>2, <2>1, RebalancedFields
  <2>3. CASE i \in S
    BY <1>2, <2>1, <2>3, NoBalance
  <2>4. CASE i \notin S
    BY <1>2, <2>1, <2>2, <2>4 DEF TrueBalance
  <2> QED
    BY <2>3, <2>4
<1>4. Good([x EXCEPT !.targets = T], R, c2)
  BY <1>2, <1>3, BalancesKeep
<1> QED
  BY <1>2, <1>4

\* The words after a transfer: only those of its token and of its two ends change, by its
\* amount, and they are amounts again.
LEMMA WordsAfter ==
  ASSUME chain \in Words, NEW t \in Tokens, NEW from \in Nat, NEW to \in Nat, NEW v \in Amounts,
         Possible(t, from, to, v)
  PROVE  /\ Transferred(t, from, to, v) \in Words
         /\ \A s \in Slots : s[1] # t => Transferred(t, from, to, v)[s] = chain[s]
         /\ \A s \in Slots : s[2] # from /\ s[2] # to => Transferred(t, from, to, v)[s][1] = chain[s][1]
         /\ \A s \in Slots : s[1] = t =>
              Transferred(t, from, to, v)[s][1] =
                chain[s][1] - (IF s[2] = from THEN v ELSE 0) + (IF s[2] = to THEN v ELSE 0)
<1> DEFINE w == Transferred(t, from, to, v)
<1>1. Amounts \subseteq Nat
  BY LiquidityAssumption
<1>2. w = [s \in Slots |->
             IF s[1] # t THEN chain[s]
             ELSE <<chain[s][1] - (IF s[2] = from THEN v ELSE 0) + (IF s[2] = to THEN v ELSE 0), 0>>]
  BY DEF Transferred
<1>3. \A s \in Slots : w[s][1] \in Amounts
  BY DEF Possible
<1>4. \A s \in Slots : chain[s] \in Nat \X Nat /\ chain[s][1] \in Nat
  BY DEF Words
<1> HIDE DEF w
<1>5. ASSUME NEW s \in Slots
      PROVE  /\ w[s] \in Nat \X Nat
             /\ s[1] # t => w[s] = chain[s]
             /\ s[2] # from /\ s[2] # to => w[s][1] = chain[s][1]
             /\ s[1] = t => w[s][1] = chain[s][1] - (IF s[2] = from THEN v ELSE 0) + (IF s[2] = to THEN v ELSE 0)
  <2>1. CASE s[1] # t
    <3>1. w[s] = chain[s]
      BY <1>2, <2>1
    <3> QED
      BY <1>4, <2>1, <3>1
  <2>2. CASE s[1] = t
    <3> DEFINE a == chain[s][1] - (IF s[2] = from THEN v ELSE 0) + (IF s[2] = to THEN v ELSE 0)
    <3>1. w[s] = <<a, 0>>
      BY <1>2, <2>2
    <3>2. w[s][1] = a
      BY <3>1
    <3>3. (s[2] # from /\ s[2] # to) => a = chain[s][1]
      BY <1>4
    <3> HIDE DEF a
    <3>4. a \in Amounts
      BY <1>3, <3>2
    <3>5. w[s] \in Nat \X Nat
      BY <1>1, <3>1, <3>4
    <3> QED
      BY <2>2, <3>2, <3>3, <3>5 DEF a
  <2> QED
    BY <2>1, <2>2
<1>6. w \in Words
  BY <1>2, <1>5 DEF Words
<1> QED
  BY <1>5, <1>6 DEF w

------------------------------------------------------------------------------
(* Transfers *)

\* What a balance of holder h becomes, sent first and got then.
After(amount, from, to, h, v) ==
  LET sent == IF h = from THEN Applied(amount, -v) ELSE amount
  IN IF h = to THEN Applied(sent, v) ELSE sent

\* The cache after a transfer: what targets are known for moves, and no other contract's.
LEMMA CacheAfterTransfer ==
  ASSUME CacheOk, NEW t, NEW from, NEW to, NEW v \in Nat, cache' = CacheAfter(t, from, to, v),
         misread' = misread
  PROVE  /\ CacheOk' /\ \A s \in hot : s[1] # t => cache'[s] = cache[s]
         /\ \A h : (/\ <<t, h>> \in hot /\ (h = from => Touched(t, from) # {})
                    /\ (h = to => Touched(t, to) # {})) =>
              cache'[<<t, h>>][1] = After(cache[<<t, h>>][1], from, to, h, v)
<1> DEFINE sent(s) == IF s = <<t, from>> /\ Touched(t, from) # {} THEN Applied(cache[s][1], -v)
                      ELSE cache[s][1]
           got(s) == IF s = <<t, to>> /\ Touched(t, to) # {} THEN Applied(sent(s), v) ELSE sent(s)
<1>1. cache' = [s \in hot |-> <<got(s), cache[s][2]>>]
  BY DEF CacheAfter
<1>2. \A s \in hot : cache[s] \in Nat \X Nat /\ cache[s][1] \in Nat /\ cache[s][2] \in Nat
                     /\ cache[s] = <<cache[s][1], cache[s][2]>>
  BY DEF CacheOk
<1>3. \A a \in Nat : Applied(a, v) \in Nat /\ Applied(a, -v) \in Nat
  BY DEF Applied
<1>4. \A s \in hot : sent(s) \in Nat
  BY <1>2, <1>3
<1> HIDE DEF sent
<1>5. \A s \in hot : got(s) \in Nat
  BY <1>3, <1>4
<1> HIDE DEF got
<1>6. hot' = hot
  BY <1>1 DEF hot
<1>7. CacheOk'
  <2>1. \A s \in hot : <<got(s), cache[s][2]>> \in Nat \X Nat
    BY <1>2, <1>5
  <2>2. cache' \in [hot -> Nat \X Nat]
    BY <1>1, <2>1
  <2> QED
    BY <1>6, <2>2 DEF CacheOk
<1>8. ASSUME NEW s \in hot, s[1] # t
      PROVE  cache'[s] = cache[s]
  <2>1. s # <<t, from>> /\ s # <<t, to>>
    BY <1>8
  <2>2. got(s) = cache[s][1]
    BY <2>1 DEF got, sent
  <2> QED
    BY <1>1, <1>2, <2>2
<1>9. ASSUME NEW h, <<t, h>> \in hot, h = from => Touched(t, from) # {}, h = to => Touched(t, to) # {}
      PROVE  cache'[<<t, h>>][1] = After(cache[<<t, h>>][1], from, to, h, v)
  <2> DEFINE s == <<t, h>>
  <2>1. (s = <<t, from>> <=> h = from) /\ (s = <<t, to>> <=> h = to)
    OBVIOUS
  <2>2. cache'[s][1] = got(s)
    BY <1>1, <1>9
  <2> HIDE DEF s
  <2>3. sent(s) = IF h = from THEN Applied(cache[s][1], -v) ELSE cache[s][1]
    BY <1>9, <2>1 DEF sent
  <2>4. got(s) = IF h = to THEN Applied(sent(s), v) ELSE sent(s)
    BY <1>9, <2>1 DEF got
  <2> QED
    BY <2>2, <2>3, <2>4 DEF After, s
<1> QED
  BY <1>7, <1>8, <1>9

\* apply_transfer_log: a target at an end of the transfer moves with the chain and the cache, or becomes
\* stale; a target of another token, another holder or the vault is not touched.
LEMMA TransferKeeps ==
  ASSUME IndexInv, NEW t \in Tokens, NEW from \in Nat, NEW to \in Nat, NEW v \in Amounts,
         TransferLog(t, from, to, v)
  PROVE  IndexInv'
<1> DEFINE c2 == Transferred(t, from, to, v)
           A == Touched(t, from)
           B == Touched(t, to)
           skipA == <<t, from>> \notin hot
           skipB == <<t, to>> \notin hot
           debit(b) == IF skipA \/ b < 0 THEN Stale ELSE Applied(b, -v)
           credit(b) == IF skipB \/ b < 0 THEN Stale ELSE Applied(b, v)
           once(i) == IF i \notin A THEN ix.targets[i].balance ELSE debit(ix.targets[i].balance)
           twice(i) == IF i \notin B THEN once(i) ELSE credit(once(i))
           T == [i \in DOMAIN ix.targets |-> [ix.targets[i] EXCEPT !.balance = twice(i)]]
           sent == Moved(ix, A, skipA, -v)
<1>1. registry \in Registries /\ chain \in Words /\ CacheOk /\ Good(ix, registry, Believed)
  BY DEF IndexInv
<1>2. /\ Possible(t, from, to, v) /\ chain' = c2 /\ cache' = CacheAfter(t, from, to, v)
      /\ misread' = misread /\ registry' = registry
      /\ ix' = Moved(sent, B, skipB, v)
  BY DEF TransferLog
<1>3. /\ c2 \in Words
      /\ \A s \in Slots : s[1] # t => c2[s] = chain[s]
      /\ \A s \in Slots : s[1] = t =>
           c2[s][1] = chain[s][1] - (IF s[2] = from THEN v ELSE 0) + (IF s[2] = to THEN v ELSE 0)
  BY <1>1, <1>2, WordsAfter
<1> HIDE DEF c2
<1>k. /\ CacheOk' /\ \A s \in hot : s[1] # t => cache'[s] = cache[s]
      /\ \A h : (/\ <<t, h>> \in hot /\ (h = from => Touched(t, from) # {})
                /\ (h = to => Touched(t, to) # {})) =>
           cache'[<<t, h>>][1] = After(cache[<<t, h>>][1], from, to, h, v)
  BY <1>1, <1>2, LiquidityAssumption, CacheAfterTransfer
<1>4. ix \in Index /\ v \in Nat
  BY <1>1, LiquidityAssumption DEF Good
<1>5. \A i \in DOMAIN ix.targets : ix.targets[i] \in Target /\ ix.targets[i].balance \in Int
  <2>1. ix.targets \in Seq(Target)
    BY <1>4 DEF Index
  <2>2. \A i \in DOMAIN ix.targets : ix.targets[i] \in Target
    BY <2>1
  <2> QED
    BY <2>2 DEF Target
<1>6. \A i \in DOMAIN ix.targets : once(i) \in Int /\ twice(i) \in Int
  BY <1>4, <1>5 DEF Stale, Applied
<1>7. ix' = [ix EXCEPT !.targets = T]
  <2> DEFINE T1 == [i \in DOMAIN ix.targets |-> [ix.targets[i] EXCEPT !.balance = once(i)]]
             T2 == [i \in DOMAIN ix.targets |->
                      IF i \notin B THEN T1[i]
                      ELSE [T1[i] EXCEPT !.balance = credit(T1[i].balance)]]
  <2>1. sent = [ix EXCEPT !.targets = T1]
    <3>1. sent = [ix EXCEPT !.targets = [i \in DOMAIN ix.targets |->
                    IF i \notin A THEN ix.targets[i]
                    ELSE [ix.targets[i] EXCEPT !.balance = IF skipA \/ @ < 0 THEN Stale ELSE Applied(@, -v)]]]
      BY DEF Moved
    <3>2. \A i \in DOMAIN ix.targets :
            T1[i] = IF i \notin A THEN ix.targets[i]
                    ELSE [ix.targets[i] EXCEPT !.balance = IF skipA \/ @ < 0 THEN Stale ELSE Applied(@, -v)]
      <4> SUFFICES ASSUME NEW i \in DOMAIN ix.targets
                   PROVE  T1[i] = IF i \notin A THEN ix.targets[i]
                                  ELSE [ix.targets[i] EXCEPT !.balance = IF skipA \/ @ < 0 THEN Stale ELSE Applied(@, -v)]
        OBVIOUS
      <4>1. T1[i] = [ix.targets[i] EXCEPT !.balance = once(i)]
        OBVIOUS
      <4>2. ix.targets[i] \in Target
        BY <1>5
      <4> HIDE DEF T1, A, skipA
      <4>3. CASE i \notin A
        BY <4>1, <4>2, <4>3 DEF Target
      <4>4. CASE i \in A
        BY <4>1, <4>2, <4>4
      <4> QED
        BY <4>3, <4>4
    <3>3. T1 = [i \in DOMAIN ix.targets |-> T1[i]]
      OBVIOUS
    <3> HIDE DEF T1, A, skipA, sent
    <3> QED
      BY <3>1, <3>2, <3>3
  <2>2. sent.targets = T1 /\ DOMAIN T1 = DOMAIN ix.targets
    <3> HIDE DEF T1, sent
    <3>1. sent.targets = T1
      BY <1>4, <2>1 DEF Index
    <3> QED
      BY <3>1 DEF T1
  <2>3. ix' = [sent EXCEPT !.targets = T2]
    <3>1. ix' = [sent EXCEPT !.targets = [i \in DOMAIN sent.targets |->
                    IF i \notin B THEN sent.targets[i]
                    ELSE [sent.targets[i] EXCEPT !.balance = IF skipB \/ @ < 0 THEN Stale ELSE Applied(@, v)]]]
      BY <1>2 DEF Moved
    <3> HIDE DEF T1, B, skipB, sent
    <3> QED
      BY <2>2, <3>1
  <2>4. ASSUME NEW i \in DOMAIN ix.targets
        PROVE  T2[i] = [ix.targets[i] EXCEPT !.balance = twice(i)]
    <3>1. T2[i] = IF i \notin B THEN T1[i] ELSE [T1[i] EXCEPT !.balance = credit(T1[i].balance)]
      OBVIOUS
    <3>2. T1[i] = [ix.targets[i] EXCEPT !.balance = once(i)]
      OBVIOUS
    <3>3. ix.targets[i] \in Target /\ once(i) \in Int
      BY <1>5, <1>6
    <3> HIDE DEF T1, T2, once
    <3>4. T1[i].balance = once(i)
      BY <3>2, <3>3 DEF Target
    <3> HIDE DEF B, credit
    <3>5. CASE i \notin B
      BY <3>1, <3>2, <3>5
    <3>6. CASE i \in B
      <4> DEFINE b == credit(once(i))
      <4>1. T2[i] = [T1[i] EXCEPT !.balance = b] /\ twice(i) = b
        BY <3>1, <3>4, <3>6
      <4> HIDE DEF b, twice
      <4> QED
        BY <3>2, <3>3, <4>1 DEF Target
    <3> QED
      BY <3>5, <3>6
  <2>5. T2 = T
    <3>1. T2 = [i \in DOMAIN ix.targets |-> T2[i]]
      OBVIOUS
    <3> HIDE DEF T1, T2, twice
    <3> QED
      BY <2>4, <3>1
  <2> HIDE DEF T, T1, T2, sent
  <2> QED
    BY <1>4, <2>1, <2>3, <2>5 DEF Index
<1>8. \A i \in DOMAIN ix.targets : T[i].balance = twice(i)
  <2> SUFFICES ASSUME NEW i \in DOMAIN ix.targets
               PROVE  T[i].balance = twice(i)
    OBVIOUS
  <2>1. T[i] = [ix.targets[i] EXCEPT !.balance = twice(i)] /\ ix.targets[i] \in Target
    BY <1>5
  <2> HIDE DEF T, twice
  <2> QED
    BY <2>1 DEF Target
<1>9. Rebalanced(ix, T)
  <2>1. T = [i \in DOMAIN ix.targets |-> T[i]]
    OBVIOUS
  <2>2. \A i \in DOMAIN ix.targets : T[i] = [ix.targets[i] EXCEPT !.balance = twice(i)]
    OBVIOUS
  <2> HIDE DEF T, twice
  <2> QED
    BY <1>6, <1>8, <2>1, <2>2 DEF Rebalanced
<1> HIDE DEF T
<1>10. ASSUME NEW i \in Active(ix)
       PROVE  TrueBalance(T[i], Believed')
  <2> DEFINE u == ix.targets[i]
  <2>1. /\ i \in DOMAIN ix.targets /\ u \in Target
        /\ GoodSource(u.token, u.source) /\ TrueBalance(u, Believed)
        /\ \A tt \in Tokens, h \in Nat : i \in TokenHolder(ix, tt, h) <=>
             u.token = tt /\ u.source.kind = "erc20" /\ u.source.holder = h
    BY <1>1, FoundBy
  <2>2. u.token \in Tokens /\ u.source \in Source /\ u.balance \in Int
    BY <2>1 DEF Target
  <2>3. T[i].token = u.token /\ T[i].source = u.source /\ T[i].balance = twice(i)
    BY <1>4, <1>8, <1>9, <2>1, RebalancedFields
  <2>4. i \in A <=> from # 0 /\ u.token = t /\ u.source.kind = "erc20" /\ u.source.holder = from /\ u.source.known
    BY <2>1 DEF Touched, Nobody
  <2>5. i \in B <=> to # 0 /\ u.token = t /\ u.source.kind = "erc20" /\ u.source.holder = to /\ u.source.known
    BY <2>1 DEF Touched, Nobody
  <2> HIDE DEF A, B, u, skipA, skipB
  <2>6. CASE StorageSlot(u.token, u.source) = {} /\ ~(u.source.kind = "erc20" /\ u.source.known)
    <3>1. twice(i) = u.balance /\ ~(u.balance >= 0)
      BY <2>1, <2>4, <2>5, <2>6 DEF TrueBalance, u
    <3> QED
      BY <2>3, <3>1 DEF TrueBalance
  <2>7. CASE /\ u.source.kind = "cash" /\ u.source.slot \in VaultSlots /\ <<Vault, u.source.slot>> \in Slots
             /\ StorageSlot(u.token, u.source) = {<<Vault, u.source.slot>>}
    <3>1. twice(i) = u.balance
      BY <2>4, <2>5, <2>7 DEF u
    <3>2. t # Vault
      BY LiquidityAssumption DEF Vault
    <3> DEFINE s == <<Vault, u.source.slot>>
    <3>3. s \in Slots /\ s[1] # t /\ StorageSlot(u.token, u.source) = {s}
      BY <2>7, <3>2
    <3> HIDE DEF s
    <3>4. \A w \in Believed[s] : w \in Believed'[s]
      <4>1. c2[s] = chain[s] /\ (s \in hot => cache'[s] = cache[s])
        BY <1>3, <1>k, <3>3
      <4> QED
        BY <1>1, <1>2, <3>3, <4>1, BelievedIs DEF CacheOk
    <3> QED
      BY <2>1, <2>3, <3>1, <3>3, <3>4 DEF TrueBalance
  <2>8. CASE /\ u.source.kind = "erc20" /\ u.source.known /\ <<u.token, u.source.holder>> \in Slots
             /\ StorageSlot(u.token, u.source) = {<<u.token, u.source.holder>>} /\ u.source.holder # 0
    <3> DEFINE s == <<u.token, u.source.holder>>
    <3>1. \A w : Decoded(u.source, w) = w[1]
      BY <2>8 DEF Decoded
    <3>2. s[1] = u.token /\ s[2] = u.source.holder /\ s \in Slots /\ StorageSlot(u.token, u.source) = {s}
      BY <2>8
    <3>3. ASSUME twice(i) >= 0
          PROVE  \E w \in Believed'[s] : twice(i) = w[1]
      <4>1. CASE u.token # t
        <5>1. twice(i) = u.balance
          BY <2>4, <2>5, <4>1 DEF u
        <5>2. c2[s] = chain[s] /\ (s \in hot => cache'[s] = cache[s])
          BY <1>3, <1>k, <3>2, <4>1
        <5> HIDE DEF s, twice
        <5>3. PICK w \in Believed[s] : u.balance = w[1]
          BY <2>1, <3>1, <3>2, <3>3, <5>1 DEF TrueBalance
        <5>4. w \in Believed'[s]
          BY <1>1, <1>2, <3>2, <5>2, BelievedIs DEF CacheOk
        <5> QED
          BY <5>1, <5>3, <5>4
      <4>2. CASE u.token = t
        <5> DEFINE h == u.source.holder
                   b == u.balance
        <5>1. (i \in A <=> h = from) /\ (i \in B <=> h = to)
          BY <2>4, <2>5, <2>8, <4>2
        <5>2. s = <<t, h>>
          BY <4>2
        <5>3. once(i) = IF h # from THEN b ELSE debit(b)
          BY <5>1 DEF u
        <5>4. twice(i) = IF h # to THEN once(i) ELSE credit(once(i))
          BY <5>1
        <5>5. b \in Int /\ once(i) \in Int
          BY <1>6, <2>1, <2>2
        <5> HIDE DEF s, h, b, once, twice
        <5>6. b >= 0 /\ twice(i) = After(b, from, to, h, v)
          BY <1>4, <3>3, <5>3, <5>4, <5>5 DEF Stale, After
        <5>7. PICK w \in Believed[s] : b = w[1]
          BY <2>1, <3>1, <3>2, <5>6 DEF TrueBalance, b
        <5>8. CASE w = chain[s]
          <6>1. c2[s] \in Believed'[s]
            BY <1>2, <3>2, BelievedIs
          <6>2. c2[s][1] = b - (IF h = from THEN v ELSE 0) + (IF h = to THEN v ELSE 0)
            BY <1>3, <3>2, <4>2, <5>2, <5>7, <5>8 DEF h
          <6>3. h = from => v <= b
            BY <1>2, <3>2, <5>2, <5>7, <5>8 DEF Possible
          <6>4. c2[s][1] = After(b, from, to, h, v)
            BY <1>4, <5>5, <5>6, <6>2, <6>3 DEF After, Applied
          <6> QED
            BY <5>6, <6>1, <6>4
        <5>9. CASE s \in misread /\ w = cache[s]
          <6>1. s \in hot /\ cache'[s] \in Believed'[s]
            BY <1>1, <1>2, <3>2, <5>9, BelievedIs DEF CacheOk
          <6>2. (h = from => Touched(t, from) # {}) /\ (h = to => Touched(t, to) # {})
            BY <5>1 DEF A, B
          <6>3. cache'[s][1] = After(b, from, to, h, v)
            BY <1>k, <5>2, <5>7, <5>9, <6>1, <6>2
          <6> QED
            BY <5>6, <6>1, <6>3
        <5> QED
          BY <3>2, <5>7, <5>8, <5>9, BelievedIs
      <4> QED
        BY <4>1, <4>2
    <3> HIDE DEF twice, s
    <3> QED
      BY <2>3, <3>1, <3>2, <3>3 DEF TrueBalance
  <2> QED
    BY <2>1, <2>2, <2>6, <2>7, <2>8, SlotOf
<1>11. Good(ix', registry', Believed')
  <2>1. Good([ix EXCEPT !.targets = T], registry, Believed')
    BY <1>1, <1>9, <1>10, BalancesKeep
  <2> QED
    BY <1>2, <1>7, <2>1
<1> QED
  BY <1>1, <1>2, <1>3, <1>11, <1>k DEF IndexInv

\* mark_transfer_log_stale: every target the transfer may have moved is stale.
LEMMA RemovedKeeps ==
  ASSUME IndexInv, NEW t \in Tokens, NEW from \in Nat, NEW to \in Nat, NEW v \in Amounts,
         RemovedLog(t, from, to, v)
  PROVE  IndexInv'
<1> DEFINE c2 == Transferred(t, to, from, v)
           S == UNION {TokenHolder(ix, t, h) : h \in {from, to} \ {Nobody}}
<1>1. registry \in Registries /\ chain \in Words /\ CacheOk /\ Good(ix, registry, Believed)
  BY DEF IndexInv
<1>2. /\ Possible(t, to, from, v) /\ chain' = c2 /\ UNCHANGED <<cache, misread>>
      /\ registry' = registry /\ ix' = SetAll(ix, S, Stale)
  BY DEF RemovedLog
<1>3. /\ c2 \in Words
      /\ \A s \in Slots : s[1] # t => c2[s] = chain[s]
      /\ \A s \in Slots : s[2] # to /\ s[2] # from => c2[s][1] = chain[s][1]
  BY <1>1, <1>2, WordsAfter
<1> HIDE DEF c2
<1>4. ASSUME NEW i \in Active(ix), i \notin S
      PROVE  TrueBalance(ix.targets[i], Believed')
  <2> DEFINE u == ix.targets[i]
  <2>1. /\ i \in DOMAIN ix.targets /\ u \in Target
        /\ GoodSource(u.token, u.source) /\ TrueBalance(u, Believed)
        /\ \A tt \in Tokens, h \in Nat : i \in TokenHolder(ix, tt, h) <=>
             u.token = tt /\ u.source.kind = "erc20" /\ u.source.holder = h
    BY <1>1, FoundBy
  <2>2. u.token \in Tokens /\ u.source \in Source
    BY <2>1 DEF Target
  <2>3. \A h \in {from, to} : h # 0 => ~(u.token = t /\ u.source.kind = "erc20" /\ u.source.holder = h)
    BY <1>4, <2>1 DEF Nobody
  <2> SUFFICES TrueBalance(u, Believed')
    OBVIOUS
  <2> HIDE DEF u, S
  <2>4. CASE StorageSlot(u.token, u.source) = {}
    BY <2>1, <2>4 DEF TrueBalance
  <2>5. CASE /\ u.source.kind = "cash" /\ <<Vault, u.source.slot>> \in Slots
             /\ StorageSlot(u.token, u.source) = {<<Vault, u.source.slot>>}
    <3>1. t # Vault
      BY LiquidityAssumption DEF Vault
    <3> DEFINE s == <<Vault, u.source.slot>>
    <3>2. s \in Slots /\ c2[s] = chain[s]
      BY <1>3, <2>5, <3>1
    <3> HIDE DEF s
    <3>3. \A w \in Believed[s] : w \in Believed'[s]
      BY <1>2, <3>2, BelievedIs
    <3>4. StorageSlot(u.token, u.source) = {s}
      BY <2>5 DEF s
    <3> QED
      BY <2>1, <3>3, <3>4 DEF TrueBalance
  <2>6. CASE /\ u.source.kind = "erc20" /\ u.source.known /\ <<u.token, u.source.holder>> \in Slots
             /\ StorageSlot(u.token, u.source) = {<<u.token, u.source.holder>>} /\ u.source.holder # 0
    <3> DEFINE s == <<u.token, u.source.holder>>
    <3>1. s[1] = u.token /\ s[2] = u.source.holder /\ s \in Slots
      BY <2>6
    <3>2. c2[s][1] = chain[s][1]
      BY <1>3, <2>3, <2>6, <3>1
    <3>3. \A w : Decoded(u.source, w) = w[1]
      BY <2>6 DEF Decoded
    <3>4. StorageSlot(u.token, u.source) = {s}
      BY <2>6
    <3> HIDE DEF s
    <3>5. \A w \in Believed[s] : \E y \in Believed'[s] : y[1] = w[1]
      <4> SUFFICES ASSUME NEW w \in Believed[s]
                   PROVE  \E y \in Believed'[s] : y[1] = w[1]
        OBVIOUS
      <4>1. CASE w = chain[s]
        <5>1. c2[s] \in Believed'[s]
          BY <1>2, <3>1, BelievedIs
        <5> QED
          BY <3>2, <4>1, <5>1
      <4>2. CASE s \in misread /\ w = cache[s]
        <5>1. w \in Believed'[s]
          BY <1>2, <3>1, <4>2, BelievedIs
        <5> QED
          BY <5>1
      <4> QED
        BY <3>1, <4>1, <4>2, BelievedIs
    <3> QED
      BY <2>1, <3>3, <3>4, <3>5 DEF TrueBalance
  <2> QED
    BY <2>1, <2>2, <2>4, <2>5, <2>6, SlotOf
<1>5. Good(SetAll(ix, S, Stale), registry, Believed')
  <2> HIDE DEF S
  <2> QED
    BY <1>1, <1>4, LostKeeps
<1> QED
  BY <1>1, <1>2, <1>3, <1>5 DEF IndexInv, CacheOk, hot

------------------------------------------------------------------------------
(* Reads *)

\* Targets T with balances b, each read from the target's slot or none.
ReadAs(x, b, T, c) ==
  /\ T = [i \in DOMAIN x.targets |-> T[i]]
  /\ \A i \in DOMAIN x.targets :
       /\ b[i] \in Int
       /\ \/ T[i] = [x.targets[i] EXCEPT !.balance = b[i]]
          \/ T[i] = x.targets[i] /\ b[i] = x.targets[i].balance
  /\ \A i \in Active(x) : b[i] >= 0 =>
       \E s \in StorageSlot(x.targets[i].token, x.targets[i].source) : \E w \in c[s] :
         b[i] = Decoded(x.targets[i].source, w)

\* New balances that were read.
LEMMA ReadKeeps ==
  ASSUME NEW x, NEW R, NEW c, NEW c2, Good(x, R, c), NEW b, NEW T, ReadAs(x, b, T, c2)
  PROVE  Good([x EXCEPT !.targets = T], R, c2)
<1>1. x \in Index
  BY DEF Good
<1>2. ASSUME NEW i \in DOMAIN x.targets
      PROVE  T[i] = [x.targets[i] EXCEPT !.balance = b[i]] /\ T[i].balance = b[i]
  <2>1. x.targets \in Seq(Target)
    BY <1>1 DEF Index
  <2>2. x.targets[i] \in Target
    BY <2>1
  <2>3. CASE T[i] = [x.targets[i] EXCEPT !.balance = b[i]]
    BY <2>2, <2>3 DEF Target
  <2>4. CASE T[i] = x.targets[i] /\ b[i] = x.targets[i].balance
    BY <2>2, <2>4 DEF Target
  <2> QED
    BY <2>3, <2>4 DEF ReadAs
<1>3. Rebalanced(x, T)
  BY <1>2 DEF Rebalanced, ReadAs
<1>4. ASSUME NEW i \in Active(x)
      PROVE  TrueBalance(T[i], c2)
  <2>1. i \in DOMAIN x.targets
    BY DEF Active
  <2>2. T[i].token = x.targets[i].token /\ T[i].source = x.targets[i].source /\ T[i].balance = b[i]
    <3>1. T[i].token = x.targets[i].token /\ T[i].source = x.targets[i].source
      BY <1>1, <1>3, <2>1, RebalancedFields
    <3>2. T[i].balance = b[i]
      BY <1>2, <2>1
    <3> QED
      BY <3>1, <3>2
  <2> QED
    BY <2>2 DEF TrueBalance, ReadAs
<1> QED
  BY <1>3, <1>4, BalancesKeep

\* The parts of a target.
LEMMA TargetsTyped ==
  ASSUME NEW x, x \in Index
  PROVE  \A i \in DOMAIN x.targets :
           /\ x.targets[i] \in Target /\ x.targets[i].balance \in Int
           /\ x.targets[i].token \in Tokens /\ x.targets[i].source \in Source
<1>1. x.targets \in Seq(Target)
  BY DEF Index
<1>2. \A i \in DOMAIN x.targets : x.targets[i] \in Target
  BY <1>1
<1> QED
  BY <1>2 DEF Target

\* The slot of an active target is one of the chain's.
LEMMA SlotsOfActive ==
  ASSUME NEW x, NEW R, NEW c, Good(x, R, c), NEW i \in Active(x)
  PROVE  StorageSlot(x.targets[i].token, x.targets[i].source) \subseteq Slots
<1>1. x.targets[i] \in Target /\ GoodSource(x.targets[i].token, x.targets[i].source)
  BY FoundBy
<1> DEFINE token == x.targets[i].token
           source == x.targets[i].source
<1>2. token \in Tokens /\ source \in Source /\ GoodSource(token, source)
  BY <1>1 DEF Target
<1> SUFFICES StorageSlot(token, source) \subseteq Slots
  OBVIOUS
<1> HIDE DEF token, source
<1>3. \/ StorageSlot(token, source) = {}
      \/ StorageSlot(token, source) = {<<Vault, source.slot>>} /\ <<Vault, source.slot>> \in Slots
      \/ StorageSlot(token, source) = {<<token, source.holder>>} /\ <<token, source.holder>> \in Slots
  BY <1>2, SlotOf
<1> QED
  BY <1>3

\* Words that are put in the cache.
LEMMA CachedKeeps ==
  ASSUME CacheOk, NEW slots, NEW words, cache' = Cached(slots, words), misread' \subseteq misread,
         slots \subseteq Slots, \A s \in slots : words[s] \in Nat \X Nat
  PROVE  CacheOk' /\ \A s \in hot : s \notin slots => cache'[s] = cache[s]
<1>1. /\ cache' = [s \in hot \cup slots |-> IF s \in slots THEN words[s] ELSE cache[s]]
      /\ hot' = DOMAIN cache'
  BY DEF Cached, hot
<1>2. hot \subseteq Slots /\ misread \subseteq hot /\ \A s \in hot : cache[s] \in Nat \X Nat
  BY DEF CacheOk
<1>3. hot' = hot \cup slots
  BY <1>1
<1>4. cache' \in [hot' -> Nat \X Nat]
  BY <1>1, <1>2, <1>3
<1> QED
  BY <1>1, <1>2, <1>3, <1>4 DEF CacheOk

\* apply_storage_updates
LEMMA UpdateKeeps ==
  ASSUME IndexInv, NEW s \in Slots, NEW low \in Amounts, NEW high \in Amounts,
         StorageUpdate(s, low, high)
  PROVE  IndexInv'
<1> DEFINE word == <<low, high>>
           c2 == [chain EXCEPT ![s] = word]
           here(i) == i \in AtSlot(ix, s) /\ ix.targets[i].source.kind # "unknown"
           b == [i \in DOMAIN ix.targets |->
                   IF here(i) THEN Decoded(ix.targets[i].source, word) ELSE ix.targets[i].balance]
           T == [i \in DOMAIN ix.targets |->
                   IF here(i) THEN [ix.targets[i] EXCEPT !.balance = Decoded(ix.targets[i].source, word)]
                   ELSE ix.targets[i]]
<1>1. registry \in Registries /\ chain \in Words /\ CacheOk /\ Good(ix, registry, Believed)
  BY DEF IndexInv
<1>2. /\ chain' = c2 /\ cache' = Cached({s}, c2) /\ misread' = misread \ {s}
      /\ registry' = registry /\ ix' = [ix EXCEPT !.targets = T]
  BY DEF StorageUpdate, UpdateSlotValue, Word
<1>3. word \in Nat \X Nat
  BY LiquidityAssumption
<1>4. c2 \in Words /\ c2[s] = word /\ \A r \in Slots : r # s => c2[r] = chain[r]
  <2> HIDE DEF word
  <2> QED
    BY <1>1, <1>3 DEF Words
<1>w. CacheOk' /\ word \in Believed'[s] /\ \A r \in Slots : r # s => Believed[r] \subseteq Believed'[r]
  <2> HIDE DEF c2
  <2>1. CacheOk' /\ \A r \in hot : r # s => cache'[r] = cache[r]
    <3>1. {s} \subseteq Slots /\ \A r \in {s} : c2[r] \in Nat \X Nat
      BY <1>3, <1>4
    <3>2. misread' \subseteq misread
      BY <1>2
    <3> QED
      BY <1>1, <1>2, <3>1, <3>2, CachedKeeps
  <2>2. word \in Believed'[s]
    BY <1>2, <1>4, BelievedIs
  <2>3. ASSUME NEW r \in Slots, r # s, NEW w \in Believed[r]
        PROVE  w \in Believed'[r]
    <3>1. w = chain[r] \/ (r \in misread /\ r \in hot /\ w = cache[r])
      BY <1>1, BelievedIs DEF CacheOk
    <3>2. chain'[r] = chain[r] /\ (r \in misread => r \in misread') /\ (r \in hot => cache'[r] = cache[r])
      BY <1>2, <1>4, <2>1, <2>3
    <3> QED
      BY <3>1, <3>2, BelievedIs
  <2> QED
    BY <2>1, <2>2, <2>3
<1>5. T = [i \in DOMAIN ix.targets |-> T[i]]
  OBVIOUS
<1>6. ASSUME NEW i \in DOMAIN ix.targets
      PROVE  /\ b[i] \in Int
             /\ \/ T[i] = [ix.targets[i] EXCEPT !.balance = b[i]]
                \/ T[i] = ix.targets[i] /\ b[i] = ix.targets[i].balance
  <2>1. ix.targets[i].balance \in Int
    BY <1>1, TargetsTyped DEF Good
  <2> HIDE DEF word
  <2>2. Decoded(ix.targets[i].source, word) \in Int
    BY <1>3, DecodedType
  <2> HIDE DEF here
  <2> QED
    BY <2>1, <2>2
<1>7. ASSUME NEW i \in Active(ix), b[i] >= 0
      PROVE  \E r \in StorageSlot(ix.targets[i].token, ix.targets[i].source) :
               \E w \in Believed'[r] : b[i] = Decoded(ix.targets[i].source, w)
  <2> DEFINE u == ix.targets[i]
  <2>1. /\ i \in DOMAIN ix.targets /\ TrueBalance(u, Believed)
        /\ i \in AtSlot(ix, s) <=> s \in StorageSlot(u.token, u.source)
    BY <1>1, FoundBy
  <2>2. StorageSlot(u.token, u.source) \subseteq Slots
    BY <1>1, SlotsOfActive
  <2>3. CASE s \in StorageSlot(u.token, u.source)
    <3>1. u.source.kind # "unknown"
      BY <2>3 DEF StorageSlot
    <3>2. b[i] = Decoded(u.source, word)
      BY <2>1, <2>3, <3>1
    <3> QED
      BY <1>w, <2>3, <3>2
  <2>4. CASE s \notin StorageSlot(u.token, u.source)
    <3>1. b[i] = u.balance
      BY <2>1, <2>4
    <3>p. PICK r \in StorageSlot(u.token, u.source) :
            \E w \in Believed[r] : u.balance = Decoded(u.source, w)
      BY <1>7, <2>1, <3>1 DEF TrueBalance
    <3>2. PICK w \in Believed[r] : u.balance = Decoded(u.source, w)
      BY <3>p
    <3>3. w \in Believed'[r]
      BY <1>w, <2>2, <2>4, <3>2
    <3> QED
      BY <3>1, <3>2, <3>3
  <2> QED
    BY <2>3, <2>4
<1> HIDE DEF T, b, c2
<1>8. Good([ix EXCEPT !.targets = T], registry, Believed')
  <2>1. ReadAs(ix, b, T, Believed')
    BY <1>5, <1>6, <1>7 DEF ReadAs
  <2> QED
    BY <1>1, <2>1, ReadKeeps
<1> QED
  BY <1>1, <1>2, <1>4, <1>8, <1>w DEF IndexInv

\* set_erc20_balance_slot
LEMMA SeedKeeps ==
  ASSUME IndexInv, NEW t \in Tokens, NEW h, SeedSlot(t, h)
  PROVE  IndexInv'
<1>1. registry \in Registries /\ chain \in Words /\ CacheOk /\ Good(ix, registry, Believed)
  BY DEF IndexInv
<1>2. /\ <<t, h>> \in Slots /\ ix' = SetErc20Slots(ix, {<<t, h>>})
      /\ UNCHANGED <<chain, cache, misread>> /\ registry' = registry
  BY DEF SeedSlot
<1>3. {<<t, h>>} \subseteq ERC20Slots
  BY <1>2, LiquidityAssumption DEF Slots, Vault
<1>4. Good(SetErc20Slots(ix, {<<t, h>>}), registry, Believed)
  BY <1>1, <1>3, SlotsKeep
<1> QED
  BY <1>1, <1>2, <1>4, WordsSame DEF IndexInv

\* What is found for a pool and a token.
LEMMA TargetFound ==
  ASSUME IndexInv, NEW p \in Pools, NEW t \in Tokens, NEW i \in TargetIndex(p, t)
  PROVE  i \in Active(ix) /\ ix.targets[i].token = t /\ Fits(ix.targets[i].source, p, registry[p], t)
<1>1. ix \in Index /\ Places(ix) /\ Tracked(ix, registry)
  BY DEF IndexInv, Good
<1>2. ix.by_pool_token \in SUBSET ((Pools \X Tokens) \X Nat)
  BY <1>1 DEF Index
<1>3. i \in Nat /\ <<<<p, t>>, i>> \in ix.by_pool_token
  BY <1>2 DEF TargetIndex
<1>4. /\ \E k \in DOMAIN ix.by_pool[p] : ix.by_pool[p][k] = i
      /\ ix.targets[i].token = t /\ Fits(ix.targets[i].source, p, registry[p], t)
  BY <1>1, <1>3 DEF Tracked
<1> QED
  BY <1>1, <1>4 DEF Places

\* set_balance
LEMMA SetBalanceKeeps ==
  ASSUME IndexInv, NEW p \in Pools, NEW t \in Tokens, SetBalance(p, t)
  PROVE  IndexInv'
<1>1. registry \in Registries /\ chain \in Words /\ CacheOk /\ Good(ix, registry, Believed)
  BY DEF IndexInv
<1>2. PICK i \in TargetIndex(p, t) : \E s \in StorageSlot(t, ix.targets[i].source) :
        ix' = SetAll(ix, {i}, Decoded(ix.targets[i].source, chain[s]))
  BY DEF SetBalance
<1>3. PICK s \in StorageSlot(t, ix.targets[i].source) :
        ix' = SetAll(ix, {i}, Decoded(ix.targets[i].source, chain[s]))
  BY <1>2
<1>4. UNCHANGED <<chain, cache, misread>> /\ registry' = registry
  BY DEF SetBalance
<1>5. i \in Active(ix) /\ ix.targets[i].token = t
  BY TargetFound
<1> DEFINE a == Decoded(ix.targets[i].source, chain[s])
<1>6. a \in Int
  <2>1. s \in Slots
    BY <1>1, <1>3, <1>5, SlotsOfActive
  <2>2. chain[s] \in Nat \X Nat
    BY <1>1, <2>1 DEF Words
  <2> QED
    BY <2>2, DecodedType
<1>7. ix' = SetAll(ix, {i}, a)
  BY <1>3
<1>8. ix \in Index
  BY <1>1 DEF Good
<1> HIDE DEF a
<1>9. PICK T : /\ SetAll(ix, {i}, a) = [ix EXCEPT !.targets = T] /\ Rebalanced(ix, T)
               /\ \A j \in DOMAIN ix.targets : T[j].balance = IF j \in {i} THEN a ELSE ix.targets[j].balance
  <2> DEFINE S == {i}
  <2> HIDE DEF S
  <2>1. \E T : /\ SetAll(ix, S, a) = [ix EXCEPT !.targets = T] /\ Rebalanced(ix, T)
               /\ \A j \in DOMAIN ix.targets : T[j].balance = IF j \in S THEN a ELSE ix.targets[j].balance
    BY <1>6, <1>8, SetAllTargets
  <2> QED
    BY <2>1 DEF S
<1>10. ASSUME NEW j \in Active(ix)
       PROVE  TrueBalance(T[j], Believed)
  <2>1. j \in DOMAIN ix.targets /\ TrueBalance(ix.targets[j], Believed)
    BY <1>1, FoundBy
  <2>2. T[j].token = ix.targets[j].token /\ T[j].source = ix.targets[j].source
    BY <1>8, <1>9, <2>1, RebalancedFields
  <2>3. CASE j = i
    <3>1. s \in Slots
      BY <1>1, <1>3, <1>5, SlotsOfActive
    <3>2. chain[s] \in Believed[s]
      BY <3>1, ChainBelieved
    <3> QED
      BY <1>3, <1>5, <1>9, <2>1, <2>2, <2>3, <3>2 DEF TrueBalance, a
  <2>4. CASE j # i
    BY <1>9, <2>1, <2>2, <2>4 DEF TrueBalance
  <2> QED
    BY <2>3, <2>4
<1>11. Good([ix EXCEPT !.targets = T], registry, Believed)
  BY <1>1, <1>9, <1>10, BalancesKeep
<1> QED
  BY <1>1, <1>4, <1>7, <1>9, <1>11, WordsSame DEF IndexInv

\* mark_stale
LEMMA MarkStaleKeeps ==
  ASSUME IndexInv, NEW p \in Pools, NEW t \in Tokens, MarkStale(p, t)
  PROVE  IndexInv'
<1>1. registry \in Registries /\ chain \in Words /\ CacheOk /\ Good(ix, registry, Believed)
  BY DEF IndexInv
<1>2. /\ ix' = SetAll(ix, TargetIndex(p, t), Stale)
      /\ UNCHANGED <<chain, cache, misread>> /\ registry' = registry
  BY DEF MarkStale
<1>3. \A i \in Active(ix) : TrueBalance(ix.targets[i], Believed)
  BY <1>1, FoundBy
<1>4. Good(SetAll(ix, TargetIndex(p, t), Stale), registry, Believed)
  BY <1>1, <1>3, LostKeeps
<1> QED
  BY <1>1, <1>2, <1>4, WordsSame DEF IndexInv

\* refresh_from_snapshot
LEMMA SnapshotKeeps ==
  ASSUME IndexInv, RefreshFromSnapshot
  PROVE  IndexInv'
<1> DEFINE known(t) == StorageSlot(t.token, t.source) \cap hot
           read(t) == IF known(t) = {} THEN Unknown
                      ELSE Decoded(t.source, cache[CHOOSE s \in known(t) : TRUE])
           b == [i \in DOMAIN ix.targets |->
                   IF ix.targets[i].active THEN read(ix.targets[i]) ELSE ix.targets[i].balance]
           T == [i \in DOMAIN ix.targets |->
                   IF ix.targets[i].active THEN [ix.targets[i] EXCEPT !.balance = read(ix.targets[i])]
                   ELSE ix.targets[i]]
<1>1. registry \in Registries /\ chain \in Words /\ CacheOk /\ Good(ix, registry, Believed)
  BY DEF IndexInv
<1>2. /\ ix' = [ix EXCEPT !.targets = T] /\ chain' = chain /\ cache' = cache
      /\ misread' = {s \in hot : cache[s] # chain[s]} /\ registry' = registry
  BY DEF RefreshFromSnapshot
<1>3. T = [i \in DOMAIN ix.targets |-> T[i]]
  OBVIOUS
<1>c. CacheOk' /\ \A s \in hot : cache[s] \in Nat \X Nat /\ cache[s] \in Believed'[s]
  <2>1. CacheOk'
    BY <1>1, <1>2 DEF CacheOk, hot
  <2>2. ASSUME NEW s \in hot
        PROVE  cache[s] \in Nat \X Nat /\ cache[s] \in Believed'[s]
    <3>1. s \in Slots /\ cache[s] \in Nat \X Nat
      BY <1>1 DEF CacheOk
    <3>2. CASE cache[s] = chain[s]
      BY <1>2, <3>1, <3>2, BelievedIs
    <3>3. CASE cache[s] # chain[s]
      <4>1. s \in misread' /\ cache'[s] = cache[s]
        BY <1>2, <3>3
      <4> QED
        BY <3>1, <4>1, BelievedIs
    <3> QED
      BY <3>1, <3>2, <3>3
  <2> QED
    BY <2>1, <2>2
<1>4. \A u : /\ read(u) \in Int
             /\ read(u) >= 0 => \E s \in StorageSlot(u.token, u.source) : \E w \in Believed'[s] :
                                 read(u) = Decoded(u.source, w)
  <2> SUFFICES ASSUME NEW u
               PROVE  /\ read(u) \in Int
                      /\ read(u) >= 0 => \E s \in StorageSlot(u.token, u.source) : \E w \in Believed'[s] :
                                          read(u) = Decoded(u.source, w)
    OBVIOUS
  <2>1. CASE known(u) = {}
    <3>1. read(u) = Unknown
      BY <2>1
    <3> HIDE DEF read
    <3> QED
      BY <3>1 DEF Unknown
  <2>2. CASE known(u) # {}
    <3> DEFINE s == CHOOSE s \in known(u) : TRUE
    <3>1. s \in known(u) /\ read(u) = Decoded(u.source, cache[s])
      BY <2>2
    <3>2. s \in hot /\ s \in StorageSlot(u.token, u.source)
      BY <3>1
    <3> HIDE DEF s, read
    <3>3. cache[s] \in Nat \X Nat /\ cache[s] \in Believed'[s]
      BY <1>c, <3>2
    <3>4. read(u) \in Int
      BY <3>1, <3>3, DecodedType
    <3> QED
      BY <3>1, <3>2, <3>3, <3>4
  <2> QED
    BY <2>1, <2>2
<1> HIDE DEF read
<1>5. ASSUME NEW i \in DOMAIN ix.targets
      PROVE  /\ b[i] \in Int
             /\ \/ T[i] = [ix.targets[i] EXCEPT !.balance = b[i]]
                \/ T[i] = ix.targets[i] /\ b[i] = ix.targets[i].balance
  <2>1. ix.targets[i].balance \in Int
    BY <1>1, TargetsTyped DEF Good
  <2> QED
    BY <1>4, <2>1
<1>6. ASSUME NEW i \in Active(ix), b[i] >= 0
      PROVE  \E s \in StorageSlot(ix.targets[i].token, ix.targets[i].source) :
               \E w \in Believed'[s] : b[i] = Decoded(ix.targets[i].source, w)
  <2>1. b[i] = read(ix.targets[i])
    BY DEF Active
  <2> HIDE DEF b
  <2> QED
    BY <1>4, <1>6, <2>1
<1> HIDE DEF T, b
<1>7. Good([ix EXCEPT !.targets = T], registry, Believed')
  <2>1. ReadAs(ix, b, T, Believed')
    BY <1>3, <1>5, <1>6 DEF ReadAs
  <2> QED
    BY <1>1, <2>1, ReadKeeps
<1> QED
  BY <1>1, <1>2, <1>7, <1>c DEF IndexInv

\* discover_erc20_slots
LEMMA DiscoverKeeps ==
  ASSUME NEW x, NEW R, NEW c, Good(x, R, c), NEW mode, NEW probe
  PROVE  Good(DiscoverErc20Slots(x, mode, probe), R, c)
<1> DEFINE want == {<<x.targets[i].token, x.targets[i].source.holder>> :
                      i \in {j \in Included(x, mode) : /\ x.targets[j].source.kind = "erc20"
                                                       /\ ~x.targets[j].source.known}}
           probed(outcome) == {w \in want : probe[w[1]] = outcome}
           holding(outcome) == UNION {TokenHolder(x, w[1], w[2]) : w \in probed(outcome)}
           y == SetAll(x, holding("none"), Unknown)
           z == SetAll(y, holding("error"), Stale)
<1>1. DiscoverErc20Slots(x, mode, probe) = SetErc20Slots(z, probed("found"))
  BY DEF DiscoverErc20Slots
<1>2. probed("found") \subseteq ERC20Slots
  <2> SUFFICES ASSUME NEW i \in Active(x), x.targets[i].source.kind = "erc20"
               PROVE  <<x.targets[i].token, x.targets[i].source.holder>> \in ERC20Slots
    BY DEF Included, Active
  <2>1. x.targets[i] \in Target /\ GoodSource(x.targets[i].token, x.targets[i].source)
    BY FoundBy
  <2>2. x.targets[i].token \in Tokens /\ <<x.targets[i].token, x.targets[i].source.holder>> \in Slots
    BY <2>1 DEF GoodSource, Target
  <2> QED
    BY <2>2, LiquidityAssumption DEF Slots, Vault
<1> HIDE DEF holding, probed
<1>3. Good(y, R, c)
  <2>1. \A i \in Active(x) : TrueBalance(x.targets[i], c)
    BY FoundBy
  <2> QED
    BY <2>1, LostKeeps
<1> HIDE DEF y
<1>4. Good(z, R, c)
  <2>1. \A i \in Active(y) : TrueBalance(y.targets[i], c)
    BY <1>3, FoundBy
  <2> QED
    BY <1>3, <2>1, LostKeeps
<1> HIDE DEF z
<1> QED
  BY <1>1, <1>2, <1>4, SlotsKeep

\* The reads of refresh.
LEMMA ReadSlotsKeeps ==
  ASSUME NEW x, NEW R, NEW c, Good(x, R, c), chain \in Words, NEW slots, slots \subseteq Slots,
         NEW failing, NEW c2, \A s \in Slots : s \notin slots => c[s] \subseteq c2[s],
         \A s \in slots : s[1] \notin failing => chain[s] \in c2[s]
  PROVE  Good(ReadSlots(x, slots, failing), R, c2)
<1> DEFINE at(i) == {s \in slots : i \in AtSlot(x, s)}
           read(i) == LET s == CHOOSE s \in at(i) : TRUE
                      IN IF s[1] \in failing THEN Stale ELSE Decoded(x.targets[i].source, chain[s])
           b == [i \in DOMAIN x.targets |-> IF at(i) = {} THEN x.targets[i].balance ELSE read(i)]
           T == [i \in DOMAIN x.targets |->
                   IF at(i) = {} THEN x.targets[i] ELSE [x.targets[i] EXCEPT !.balance = read(i)]]
<1>1. ReadSlots(x, slots, failing) = [x EXCEPT !.targets = T]
  BY DEF ReadSlots
<1>2. T = [i \in DOMAIN x.targets |-> T[i]]
  OBVIOUS
<1>3. \A i : at(i) # {} =>
        /\ read(i) \in Int
        /\ read(i) >= 0 => \E s \in at(i) : \E w \in c2[s] : read(i) = Decoded(x.targets[i].source, w)
  <2> SUFFICES ASSUME NEW i, at(i) # {}
               PROVE  /\ read(i) \in Int
                      /\ read(i) >= 0 =>
                           \E s \in at(i) : \E w \in c2[s] : read(i) = Decoded(x.targets[i].source, w)
    OBVIOUS
  <2> DEFINE s == CHOOSE s \in at(i) : TRUE
  <2>1. s \in at(i) /\ s \in Slots /\ s \in slots
    OBVIOUS
  <2>2. read(i) = IF s[1] \in failing THEN Stale ELSE Decoded(x.targets[i].source, chain[s])
    OBVIOUS
  <2> HIDE DEF s, read, at
  <2>3. chain[s] \in Nat \X Nat
    BY <2>1 DEF Words
  <2>4. Decoded(x.targets[i].source, chain[s]) \in Int
    BY <2>3, DecodedType
  <2>5. CASE s[1] \in failing
    BY <2>2, <2>5 DEF Stale
  <2>6. CASE s[1] \notin failing
    <3>1. chain[s] \in c2[s] /\ read(i) = Decoded(x.targets[i].source, chain[s])
      BY <2>1, <2>2, <2>6
    <3> QED
      BY <2>1, <2>4, <3>1
  <2> QED
    BY <2>5, <2>6
<1>4. ASSUME NEW i \in DOMAIN x.targets
      PROVE  /\ b[i] \in Int
             /\ \/ T[i] = [x.targets[i] EXCEPT !.balance = b[i]]
                \/ T[i] = x.targets[i] /\ b[i] = x.targets[i].balance
  <2>1. x.targets[i].balance \in Int
    BY TargetsTyped DEF Good
  <2> HIDE DEF read, at
  <2> QED
    BY <1>3, <2>1
<1>5. ASSUME NEW i \in Active(x), b[i] >= 0
      PROVE  \E s \in StorageSlot(x.targets[i].token, x.targets[i].source) :
               \E w \in c2[s] : b[i] = Decoded(x.targets[i].source, w)
  <2>1. /\ i \in DOMAIN x.targets /\ TrueBalance(x.targets[i], c)
        /\ \A s \in Slots : i \in AtSlot(x, s) <=> s \in StorageSlot(x.targets[i].token, x.targets[i].source)
    BY FoundBy
  <2>2. \A s \in at(i) : s \in StorageSlot(x.targets[i].token, x.targets[i].source)
    BY <2>1
  <2>3. b[i] = IF at(i) = {} THEN x.targets[i].balance ELSE read(i)
    BY <2>1
  <2> HIDE DEF at, read, b
  <2>4. CASE at(i) = {}
    <3>p. PICK s \in StorageSlot(x.targets[i].token, x.targets[i].source) :
            \E w \in c[s] : b[i] = Decoded(x.targets[i].source, w)
      BY <1>5, <2>1, <2>3, <2>4 DEF TrueBalance
    <3>1. PICK w \in c[s] : b[i] = Decoded(x.targets[i].source, w)
      BY <3>p
    <3>2. s \in Slots
      BY SlotsOfActive
    <3>3. s \notin slots
      BY <2>1, <2>4, <3>2 DEF at
    <3> QED
      BY <3>1, <3>2, <3>3
  <2>5. CASE at(i) # {}
    BY <1>3, <1>5, <2>2, <2>3, <2>5
  <2> QED
    BY <2>4, <2>5
<1> HIDE DEF T, b
<1>6. Good([x EXCEPT !.targets = T], R, c2)
  <2>1. ReadAs(x, b, T, c2)
    BY <1>2, <1>4, <1>5 DEF ReadAs
  <2> QED
    BY <2>1, ReadKeeps
<1> QED
  BY <1>1, <1>6

\* refresh: discovery and then the reads.
LEMMA RefreshKeeps ==
  ASSUME IndexInv, NEW mode, NEW probe, NEW failing, Refresh(mode, probe, failing)
  PROVE  IndexInv'
<1> DEFINE found == DiscoverErc20Slots(ix, mode, probe)
           slots == UNION {StorageSlot(found.targets[i].token, found.targets[i].source) :
                             i \in Included(found, mode)}
<1>1. registry \in Registries /\ chain \in Words /\ CacheOk /\ Good(ix, registry, Believed)
  BY DEF IndexInv
<1> DEFINE got == {s \in slots : s[1] \notin failing}
<1>2. /\ ix' = ReadSlots(found, slots, failing) /\ cache' = Cached(got, chain)
      /\ misread' = misread \ got /\ chain' = chain /\ registry' = registry
  BY DEF Refresh
<1>3. Good(found, registry, Believed)
  BY <1>1, DiscoverKeeps
<1> HIDE DEF found
<1>4. slots \subseteq Slots
  <2>1. \A i \in Included(found, mode) : i \in Active(found)
    BY DEF Included, Active
  <2>2. \A i \in Included(found, mode) : StorageSlot(found.targets[i].token, found.targets[i].source) \subseteq Slots
    BY <1>3, <2>1, SlotsOfActive
  <2> QED
    BY <2>2
<1> HIDE DEF slots
<1>5. CacheOk' /\ \A s \in hot : s \notin got => cache'[s] = cache[s]
  <2>1. got \subseteq Slots /\ \A s \in got : chain[s] \in Nat \X Nat
    BY <1>1, <1>4 DEF Words
  <2>2. misread' \subseteq misread
    BY <1>2
  <2> HIDE DEF got
  <2> QED
    BY <1>1, <1>2, <2>1, <2>2, CachedKeeps
<1>6. ASSUME NEW s \in Slots, s \notin slots
      PROVE  Believed[s] \subseteq Believed'[s]
  <2>1. s \notin got
    BY <1>6
  <2> HIDE DEF got
  <2>2. s \in misread => s \in misread' /\ cache'[s] = cache[s]
    BY <1>1, <1>2, <1>5, <2>1 DEF CacheOk
  <2> QED
    BY <1>2, <2>2, BelievedIs
<1>7. \A s \in slots : chain[s] \in Believed'[s]
  BY <1>2, <1>4, BelievedIs
<1>8. Good(ReadSlots(found, slots, failing), registry, Believed')
  <2> DEFINE c2 == Believed'
  <2>1. /\ \A s \in Slots : s \notin slots => Believed[s] \subseteq c2[s]
        /\ \A s \in slots : s[1] \notin failing => chain[s] \in c2[s]
    BY <1>6, <1>7
  <2> HIDE DEF c2
  <2>2. Good(ReadSlots(found, slots, failing), registry, c2)
    BY <1>1, <1>3, <1>4, <2>1, ReadSlotsKeeps
  <2> QED
    BY <2>2 DEF c2
<1> QED
  BY <1>1, <1>2, <1>5, <1>8 DEF IndexInv

\* reconcile_pools
LEMMA ReconcilePoolsKeeps ==
  ASSUME IndexInv, NEW reg \in Registries, ReconcilePools(reg)
  PROVE  IndexInv'
<1>1. registry \in Registries /\ chain \in Words /\ CacheOk /\ Good(ix, registry, Believed)
  BY DEF IndexInv
<1>2. /\ registry' = reg /\ UNCHANGED <<chain, cache, misread>>
      /\ ix' = ReconcileAll(ix, reg, {p \in Pools : reg[p] # registry[p]})
  BY DEF ReconcilePools
<1>3. Good(ReconcileAll(ix, reg, {p \in Pools : reg[p] # registry[p]}), reg, Believed)
  BY <1>1, ReconcileAllKeeps
<1> QED
  BY <1>1, <1>2, <1>3, WordsSame DEF IndexInv

------------------------------------------------------------------------------
(* The theorem *)

\* The invariant holds of the index as it is built.
LEMMA IndexInit == Init => IndexInv
<1> SUFFICES ASSUME Init
             PROVE  IndexInv
  OBVIOUS
<1>1. registry \in Registries /\ CacheOk
  <2>1. cache = <<>> /\ misread = {} /\ registry \in Registries
    BY DEF Init
  <2>2. hot = {}
    BY <2>1 DEF hot
  <2>3. cache \in [{} -> Nat \X Nat]
    BY <2>1
  <2> QED
    BY <2>1, <2>2, <2>3 DEF CacheOk
<1>2. chain \in Words
  <2>1. chain \in [Slots -> {<<a, a>> : a \in Amounts}] /\ Amounts \subseteq Nat
    BY LiquidityAssumption DEF Init
  <2>2. \A w \in {<<a, a>> : a \in Amounts} : w \in Nat \X Nat
    <3> SUFFICES ASSUME NEW w \in {<<a, a>> : a \in Amounts}
                 PROVE  w \in Nat \X Nat
      OBVIOUS
    <3>1. PICK a \in Amounts : w = <<a, a>>
      OBVIOUS
    <3>2. a \in Nat
      BY <2>1
    <3> QED
      BY <3>1, <3>2
  <2> QED
    BY <2>1, <2>2 DEF Words
<1>3. Good(ix, registry, Believed)
  <2> DEFINE c == Believed
  <2> HIDE DEF c
  <2>1. Good(FromRegistry(registry), registry, c)
    BY <1>1, FromRegistryGood
  <2> QED
    BY <2>1 DEF Init, c
<1> QED
  BY <1>1, <1>2, <1>3 DEF IndexInv

\* Every call keeps the invariant.
LEMMA IndexStep == IndexInv /\ [Next]_vars => IndexInv'
<1> SUFFICES ASSUME IndexInv, [Next]_vars
             PROVE  IndexInv'
  OBVIOUS
<1>1. \A h \in {Nobody} \cup {Holder[p] : p \in Pools} : h \in Nat
  BY LiquidityAssumption DEF Nobody
<1>2. ASSUME NEW t \in Tokens, NEW from \in {Nobody} \cup {Holder[p] : p \in Pools},
             NEW to \in {Nobody} \cup {Holder[p] : p \in Pools}, NEW v \in Amounts \ {0},
             TransferLog(t, from, to, v) \/ RemovedLog(t, from, to, v)
      PROVE  IndexInv'
  <2>1. from \in Nat /\ to \in Nat /\ v \in Amounts
    BY <1>1
  <2>2. CASE TransferLog(t, from, to, v)
    BY <2>1, <2>2, TransferKeeps
  <2>3. CASE RemovedLog(t, from, to, v)
    BY <2>1, <2>3, RemovedKeeps
  <2> QED
    BY <1>2, <2>2, <2>3
<1>3. ASSUME NEW s \in Slots, NEW low \in Amounts, NEW high \in Amounts, StorageUpdate(s, low, high)
      PROVE  IndexInv'
  BY <1>3, UpdateKeeps
<1>4. ASSUME NEW t \in Tokens, NEW p \in Pools, SeedSlot(t, Holder[p]) \/ SetBalance(p, t) \/ MarkStale(p, t)
      PROVE  IndexInv'
  <2>1. CASE SeedSlot(t, Holder[p])
    BY <2>1, SeedKeeps
  <2>2. CASE SetBalance(p, t)
    BY <2>2, SetBalanceKeeps
  <2>3. CASE MarkStale(p, t)
    BY <2>3, MarkStaleKeeps
  <2> QED
    BY <1>4, <2>1, <2>2, <2>3
<1>5. CASE RefreshFromSnapshot
  BY <1>5, SnapshotKeeps
<1>6. ASSUME NEW mode, NEW probe, NEW failing, Refresh(mode, probe, failing)
      PROVE  IndexInv'
  BY <1>6, RefreshKeeps
<1>7. ASSUME NEW reg \in Registries, ReconcilePools(reg)
      PROVE  IndexInv'
  BY <1>7, ReconcilePoolsKeeps
<1>8. CASE UNCHANGED vars
  <2>1. UNCHANGED <<chain, cache, misread>> /\ registry' = registry /\ ix' = ix
    BY <1>8 DEF vars
  <2> QED
    BY <2>1, WordsSame DEF IndexInv
<1> QED
  BY <1>2, <1>3, <1>4, <1>5, <1>6, <1>7, <1>8 DEF Next

\* What balance_state answers is one of the pool's own targets, read from the source its
\* registration has now: what is fresh is what may be there.
LEMMA IndexGivesFresh == IndexInv => FreshIsCurrent
<1> SUFFICES ASSUME IndexInv, NEW p \in Pools, NEW t \in Tokens, BalanceState(p, t) >= 0
             PROVE  \/ /\ registry[p].kind = "erc20"
                       /\ \E word \in Believed[<<t, Holder[p]>>] : BalanceState(p, t) = word[1]
                    \/ /\ registry[p].kind = "balancer" /\ t \in DOMAIN registry[p].cash
                       /\ \E word \in Believed[<<Vault, registry[p].cash[t].slot>>] :
                            BalanceState(p, t) = Decoded(Cash(registry[p].cash[t]), word)
  BY DEF FreshIsCurrent
<1>1. TargetIndex(p, t) # {}
  BY DEF BalanceState, Unknown
<1> DEFINE i == CHOOSE i \in TargetIndex(p, t) : TRUE
           u == ix.targets[i]
<1>2. i \in TargetIndex(p, t) /\ BalanceState(p, t) = u.balance
  BY <1>1 DEF BalanceState
<1> HIDE DEF i
<1>3. i \in Active(ix) /\ u.token = t /\ Fits(u.source, p, registry[p], t)
  BY <1>2, TargetFound
<1>4. TrueBalance(u, Believed)
  BY <1>3, FoundBy DEF IndexInv
<1>p. PICK s \in StorageSlot(t, u.source) : \E w \in Believed[s] : u.balance = Decoded(u.source, w)
  BY <1>2, <1>3, <1>4 DEF TrueBalance
<1>5. PICK word \in Believed[s] : u.balance = Decoded(u.source, word)
  BY <1>p
<1> HIDE DEF u
<1>6. CASE u.source.kind = "unknown"
  BY <1>5, <1>6 DEF StorageSlot
<1>7. CASE u.source.kind = "erc20" /\ registry[p].kind = "erc20" /\ u.source.holder = Holder[p]
  <2>1. s = <<t, Holder[p]>>
    BY <1>5, <1>7 DEF StorageSlot
  <2>2. u.balance = word[1]
    BY <1>5, <1>7 DEF Decoded
  <2> QED
    BY <1>2, <1>5, <1>7, <2>1, <2>2
<1>8. CASE registry[p].kind = "balancer" /\ t \in DOMAIN registry[p].cash /\ u.source = Cash(registry[p].cash[t])
  <2>1. u.source.kind = "cash" /\ u.source.slot = registry[p].cash[t].slot
    BY <1>8 DEF Cash
  <2>2. s = <<Vault, registry[p].cash[t].slot>>
    BY <1>5, <2>1 DEF StorageSlot
  <2> QED
    BY <1>2, <1>5, <1>8, <2>2
<1> QED
  BY <1>3, <1>6, <1>7, <1>8 DEF Fits

\* A balance the search may prune by is what the pool can pay out (balance_state), for any
\* pools, tokens, registrations and amounts, after any transfers, reorganisations, partial
\* refreshes and reuse of targets; or, of a slot whose word was behind the chain when the last
\* snapshot was read, what the cache has of it.
THEOREM FreshIsCurrentAlways == Spec => []FreshIsCurrent
<1>1. Init => IndexInv
  BY IndexInit
<1>2. IndexInv /\ [Next]_vars => IndexInv'
  BY IndexStep
<1>3. IndexInv => FreshIsCurrent
  BY IndexGivesFresh
<1> QED
  BY <1>1, <1>2, <1>3, PTL DEF Spec

\* The four reverse indexes never disagree with the targets: by_pool gives each place to one
\* pool, free_targets holds each free place once and no active one, and by_token_holder and
\* by_storage_slot lead to exactly the active targets of a token and holder and of a slot.
THEOREM IndexesAgreeAlways == Spec => [](Places(ix) /\ Indexed(ix))
<1>1. Init => IndexInv
  BY IndexInit
<1>2. IndexInv /\ [Next]_vars => IndexInv'
  BY IndexStep
<1>3. IndexInv => Places(ix) /\ Indexed(ix)
  BY DEF IndexInv, Good
<1> QED
  BY <1>1, <1>2, <1>3, PTL DEF Spec
================================================================================
