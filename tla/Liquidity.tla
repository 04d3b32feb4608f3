------------------------------- MODULE Liquidity -------------------------------
(***************************************************************************)
(* PoolLiquidityIndex of src/liquidity.rs: the balances that pools hold, by *)
(* which the heuristic search orders and prunes its hops. AmmGraph and      *)
(* LiveGraph model which balances are tracked; here their values are kept   *)
(* fresh by transfer logs, storage updates and refreshes, while pools come, *)
(* go and change the source their balance is read from. A target's place in *)
(* the vector is reused, and four reverse indexes lead to it.               *)
(*                                                                         *)
(* A storage slot is <<contract, key>>: of a token, with its holder as key, *)
(* or of the vault. A word is a pair; the vault packs two balances in one.  *)
(* A balance is a number, or Unknown or Stale. The cache has words of its   *)
(* own, which fall behind the chain: no removed log changes them, nor a     *)
(* transfer no target is known for.                                         *)
(* A definition whose name says what it gets wrong is a mutation of the one *)
(* that follows it, never used.                                             *)
(***************************************************************************)
EXTENDS Integers, Sequences, FiniteSets, SequencesExt

CONSTANTS
  Pools, Tokens,  \* numbers, in the order of their keys; no token is 0
  Holder,         \* the address in each pool's key, 0 for a key without one
  VaultSlots,
  Registries,     \* pool -> [kind, tokens, needed, cash]: its registration, the tokens the
                  \* graph wants tracked, and token -> [slot, high] of a Balancer pool
  Amounts,        \* what a word's field may hold
  MaxSteps        \* bound: changes and calls

Vault == 0
Nobody == 0      \* Address::ZERO
Unknown == -2
Stale == -1
ERC20Slots == Tokens \X ({Holder[p] : p \in Pools} \ {0})
Slots == ERC20Slots \cup ({Vault} \X VaultSlots)

ASSUME LiquidityAssumption ==
  /\ Pools \subseteq Nat \ {0} /\ Tokens \subseteq Nat \ {0} /\ Amounts \subseteq Nat
  /\ IsFiniteSet(Pools) /\ IsFiniteSet(Tokens) /\ \A p \in Pools : Holder[p] \in Nat
  /\ \A r \in Registries, p \in Pools :
       /\ r[p].kind \in {"erc20", "balancer", "custom", "none"}
       /\ r[p].needed \subseteq r[p].tokens /\ r[p].tokens \subseteq Tokens
       /\ \A t \in DOMAIN r[p].cash :
            r[p].cash[t].slot \in VaultSlots /\ r[p].cash[t].high \in BOOLEAN
  /\ MaxSteps \in Nat

VARIABLES
  chain,     \* the word in each slot
  cache,     \* the cache's word of each slot it has one of
  misread,   \* history: the slots whose word was behind the chain when the last snapshot was
             \* read, and that were not read from the chain since
  registry,  \* the registrations and tracked tokens in force
  ix,        \* the index: targets, by_pool, by_pool_token, by_token_holder, by_storage_slot,
             \* free_targets and pool_token_counts
  steps

vars == <<chain, cache, misread, registry, ix, steps>>

------------------------------------------------------------------------------
(* Targets *)

\* LiquiditySource: a token's balance at a holder, whose slot may not be known yet, a field
\* of a vault slot, or nothing that can be read.
Erc20(holder, known) == [kind |-> "erc20", holder |-> holder, known |-> known, slot |-> 0, high |-> FALSE]
Cash(c) == [kind |-> "cash", holder |-> 0, known |-> TRUE, slot |-> c.slot, high |-> c.high]
NoSource == [kind |-> "unknown", holder |-> 0, known |-> FALSE, slot |-> 0, high |-> FALSE]

\* storage_slot: a set of none or one.
StorageSlot(token, source) ==
  CASE source.kind = "erc20" /\ source.known -> {<<token, source.holder>>}
    [] source.kind = "cash" -> {<<Vault, source.slot>>}
    [] OTHER -> {}

\* decode_balancer_cash, and the plain word of a token.
Decoded(source, word) == IF source.kind = "cash" /\ source.high THEN word[2] ELSE word[1]

\* normalize_tokens, and the order in which pools are taken.
Ascending(S) ==
  CHOOSE s \in [1 .. Cardinality(S) -> S] : \A i, j \in 1 .. Cardinality(S) : i < j => s[i] < s[j]

\* desired_targets: what to track of a pool.
SourceOf(reg, p, t) ==
  CASE reg[p].kind = "erc20" -> IF Holder[p] = 0 THEN NoSource ELSE Erc20(Holder[p], FALSE)
    [] reg[p].kind = "balancer" /\ t \in DOMAIN reg[p].cash -> Cash(reg[p].cash[t])
    [] OTHER -> NoSource
DesiredTargets(reg, p) ==
  IF reg[p].kind \notin {"erc20", "balancer"} THEN <<>>
  ELSE LET tokens == Ascending(reg[p].needed)
       IN [i \in DOMAIN tokens |-> [token |-> tokens[i], source |-> SourceOf(reg, p, tokens[i])]]

\* push_target_with_balance: into a freed place, or a new one.
Push(x, p, token, source, balance) ==
  LET i == IF x.free = <<>> THEN Len(x.targets) + 1 ELSE Last(x.free)
      target == [token |-> token, source |-> source, balance |-> balance, active |-> TRUE]
  IN [x EXCEPT
        !.free = IF @ = <<>> THEN @ ELSE Front(@),
        !.targets = [j \in (1 .. Len(@)) \cup {i} |-> IF j = i THEN target ELSE x.targets[j]],
        !.by_pool[p] = Append(@, i),
        !.by_pool_token = {e \in @ : e[1] # <<p, token>>} \cup {<<<<p, token>>, i>>},
        !.by_token_holder =
          @ \cup IF source.kind = "erc20" THEN {<<<<token, source.holder>>, i>>} ELSE {},
        !.by_storage_slot = @ \cup (StorageSlot(token, source) \X {i})]

\* A target for each of a list of tokens, sources and balances.
PushAll(x, p, list) ==
  LET pushed[i \in 0 .. Len(list)] ==
        IF i = 0 THEN x
        ELSE Push(pushed[i - 1], p, list[i].token, list[i].source, list[i].balance)
  IN pushed[Len(list)]

\* remove_pool_targets: the pool's targets, which are all active, leave their places and
\* every index that leads to them.
RemovePoolTargetsKeepsSlots(x, p) ==
  LET gone == ToSet(x.by_pool[p])
  IN [x EXCEPT
        !.targets = [i \in DOMAIN x.targets |-> [x.targets[i] EXCEPT !.active = @ /\ i \notin gone]],
        !.free = @ \o x.by_pool[p], !.by_pool[p] = <<>>, !.counts[p] = 0,
        !.by_pool_token = {e \in @ : e[1] \notin {<<p, x.targets[i].token>> : i \in gone}},
        !.by_token_holder = {e \in @ : e[2] \notin gone}]
RemovePoolTargets(x, p) ==
  LET gone == ToSet(x.by_pool[p])
      target(e) == x.targets[e[2]]
  IN [x EXCEPT
        !.targets = [i \in DOMAIN x.targets |-> [x.targets[i] EXCEPT !.active = @ /\ i \notin gone]],
        !.free = @ \o x.by_pool[p], !.by_pool[p] = <<>>, !.counts[p] = 0,
        !.by_pool_token = {e \in @ : e[1] \notin {<<p, x.targets[i].token>> : i \in gone}},
        !.by_token_holder =
          {e \in @ : ~(e[2] \in gone /\ e[1] = <<target(e).token, target(e).source.holder>>)},
        !.by_storage_slot =
          {e \in @ : ~(e[2] \in gone /\ e[1] \in StorageSlot(target(e).token, target(e).source))}]

\* preserve_discovered_source: a slot once found is not lost.
PreserveDiscovered(previous, desired) ==
  IF /\ previous.kind = "erc20" /\ previous.known
     /\ desired.kind = "erc20" /\ desired.holder = previous.holder
  THEN previous ELSE desired

\* from_registry_with_scope
EmptyIndex ==
  [targets |-> <<>>, by_pool |-> [p \in Pools |-> <<>>], by_pool_token |-> {},
   by_token_holder |-> {}, by_storage_slot |-> {}, free |-> <<>>, counts |-> [p \in Pools |-> 0]]
AddPool(x, reg, p) ==
  LET desired == DesiredTargets(reg, p)
      counted == [x EXCEPT !.counts[p] = IF reg[p].needed = {} THEN 0 ELSE Cardinality(reg[p].tokens)]
  IN PushAll(counted, p,
             [i \in DOMAIN desired |-> [token |-> desired[i].token, source |-> desired[i].source,
                                        balance |-> Unknown]])
FromRegistry(reg) ==
  LET order == Ascending(Pools)
      added[i \in 0 .. Len(order)] ==
        IF i = 0 THEN EmptyIndex ELSE AddPool(added[i - 1], reg, order[i])
  IN added[Len(order)]

\* reconcile_pools for one pool: its targets are pushed again, with the balance of the
\* one before if that was read from the same source.
ReconcilePool(x, reg, p) ==
  LET before(t) == {x.targets[i] : i \in {j \in ToSet(x.by_pool[p]) :
                                           x.targets[j].active /\ x.targets[j].token = t}}
      desired == DesiredTargets(reg, p)
      source(d) == IF before(d.token) = {} THEN d.source
                   ELSE PreserveDiscovered((CHOOSE b \in before(d.token) : TRUE).source, d.source)
      balance(d) == LET same == {b \in before(d.token) : b.source = source(d)}
                    IN IF same = {} THEN Unknown ELSE (CHOOSE b \in same : TRUE).balance
      removed == RemovePoolTargets(x, p)
      counted == [removed EXCEPT !.counts[p] = IF desired = <<>> THEN 0 ELSE Cardinality(reg[p].tokens)]
  IN PushAll(counted, p,
             [i \in DOMAIN desired |-> [token |-> desired[i].token, source |-> source(desired[i]),
                                        balance |-> balance(desired[i])]])
ReconcileAll(x, reg, pools) ==
  LET order == Ascending(pools)
      reconciled[i \in 0 .. Len(order)] ==
        IF i = 0 THEN x ELSE ReconcilePool(reconciled[i - 1], reg, order[i])
  IN reconciled[Len(order)]

------------------------------------------------------------------------------
(* Reading and writing balances *)

\* balance_state
TargetIndex(p, t) == {e[2] : e \in {f \in ix.by_pool_token : f[1] = <<p, t>>}}
BalanceState(p, t) ==
  IF TargetIndex(p, t) = {} THEN Unknown ELSE ix.targets[CHOOSE i \in TargetIndex(p, t) : TRUE].balance

\* The balances of some targets change.
SetAll(x, S, balance) ==
  [x EXCEPT !.targets = [i \in DOMAIN x.targets |-> IF i \in S THEN [x.targets[i] EXCEPT !.balance = balance] ELSE x.targets[i]]]

TokenHolder(x, t, h) == {e[2] : e \in {f \in x.by_token_holder : f[1] = <<t, h>>}}
AtSlot(x, s) == {e[2] : e \in {f \in x.by_storage_slot : f[1] = s}}

\* update_slot_value: the word of a slot is known.
UpdateSlotValue(x, s, word) ==
  [x EXCEPT !.targets = [i \in DOMAIN x.targets |->
     IF i \in AtSlot(x, s) /\ x.targets[i].source.kind # "unknown"
     THEN [x.targets[i] EXCEPT !.balance = Decoded(x.targets[i].source, word)] ELSE x.targets[i]]]

\* set_erc20_slot, of some tokens and holders: the slot of each is known.
SetErc20Slots(x, found) ==
  LET holding(w) == TokenHolder(x, w[1], w[2])
      known == UNION {holding(w) : w \in found}
  IN [x EXCEPT
        !.targets = [i \in DOMAIN x.targets |-> IF i \in known THEN [x.targets[i] EXCEPT !.source.known = TRUE] ELSE x.targets[i]],
        !.by_storage_slot = @ \cup UNION {{w} \X holding(w) : w \in found}]

\* collect_transfer_updates: the targets a transfer touches at one of its ends.
Touched(t, h) ==
  IF h = Nobody THEN {}
  ELSE {i \in TokenHolder(ix, t, h) : ix.targets[i].source.known}

\* SlotDelta::apply, which the index and the cache share: an amount does not go below 0.
Applied(amount, delta) == IF amount + delta >= 0 THEN amount + delta ELSE 0

\* The change to one target: a slot the cache skipped, or a balance that was not fresh,
\* leaves it stale.
Moved(x, S, skipped, delta) ==
  [x EXCEPT !.targets = [i \in DOMAIN x.targets |->
     IF i \notin S THEN x.targets[i]
     ELSE [x.targets[i] EXCEPT !.balance = IF skipped \/ @ < 0 THEN Stale ELSE Applied(@, delta)]]]

------------------------------------------------------------------------------
(* The chain and the owner of the index *)

Step == steps < MaxSteps /\ steps' = steps + 1

\* The slots the cache has, and what it has once some were written.
hot == DOMAIN cache
Cached(slots, words) == [s \in hot \cup slots |-> IF s \in slots THEN words[s] ELSE cache[s]]

Word(s, low, high) == [chain EXCEPT ![s] = <<low, high>>]

Init ==
  /\ registry \in Registries /\ ix = FromRegistry(registry)
  /\ chain \in [Slots -> {<<a, a>> : a \in Amounts}] /\ cache = <<>> /\ misread = {}
  /\ steps = 0

\* What a transfer does to the balances; 0 is mint or burn, or somebody else.
Transferred(t, from, to, v) ==
  [s \in Slots |->
     IF s[1] # t THEN chain[s]
     ELSE <<chain[s][1] - (IF s[2] = from THEN v ELSE 0) + (IF s[2] = to THEN v ELSE 0), 0>>]
Possible(t, from, to, v) ==
  /\ {<<t, from>>, <<t, to>>} \cap Slots # {}
  /\ <<t, from>> \in Slots => v <= chain[<<t, from>>][1]
  /\ \A s \in Slots : Transferred(t, from, to, v)[s][1] \in Amounts

\* What collect_transfer_updates asks of the cache: one change of a slot for each end of
\* the transfer that has a target whose slot is known.
CacheAfter(t, from, to, v) ==
  LET sent(s) == IF s = <<t, from>> /\ Touched(t, from) # {} THEN Applied(cache[s][1], -v)
                 ELSE cache[s][1]
      got(s) == IF s = <<t, to>> /\ Touched(t, to) # {} THEN Applied(sent(s), v) ELSE sent(s)
  IN [s \in hot |-> <<got(s), cache[s][2]>>]

\* apply_transfer_log, of the log of a transfer that just happened. Slots the cache does
\* not have are skipped.
TransferLog(t, from, to, v) ==
  /\ Step /\ Possible(t, from, to, v)
  /\ chain' = Transferred(t, from, to, v) /\ cache' = CacheAfter(t, from, to, v)
  /\ LET sent == Moved(ix, Touched(t, from), <<t, from>> \notin hot, -v)
     IN ix' = Moved(sent, Touched(t, to), <<t, to>> \notin hot, v)
  /\ UNCHANGED <<misread, registry>>

\* mark_transfer_log_stale: a reorganisation took the transfer back. The cache keeps the
\* word it has.
RemovedLog(t, from, to, v) ==
  /\ Step /\ Possible(t, to, from, v)
  /\ chain' = Transferred(t, to, from, v)
  /\ ix' = SetAll(ix, UNION {TokenHolder(ix, t, h) : h \in {from, to} \ {Nobody}}, Stale)
  /\ UNCHANGED <<cache, misread, registry>>

\* apply_storage_updates: the sync of a Balancer pool wrote its vault slot.
StorageUpdate(s, low, high) ==
  /\ Step /\ s[1] = Vault /\ chain[s] # <<low, high>>
  /\ chain' = Word(s, low, high) /\ cache' = Cached({s}, chain') /\ misread' = misread \ {s}
  /\ ix' = UpdateSlotValue(ix, s, <<low, high>>)
  /\ UNCHANGED registry

\* set_erc20_balance_slot, set_balance (of a balance that is also kept up to date) and
\* mark_stale.
SeedSlot(t, h) ==
  /\ Step /\ <<t, h>> \in Slots /\ ix' = SetErc20Slots(ix, {<<t, h>>})
  /\ UNCHANGED <<chain, cache, misread, registry>>
SetBalance(p, t) ==
  /\ Step /\ \E i \in TargetIndex(p, t) : \E s \in StorageSlot(t, ix.targets[i].source) :
       ix' = SetAll(ix, {i}, Decoded(ix.targets[i].source, chain[s]))
  /\ UNCHANGED <<chain, cache, misread, registry>>
MarkStale(p, t) ==
  /\ Step /\ TargetIndex(p, t) # {} /\ ix' = SetAll(ix, TargetIndex(p, t), Stale)
  /\ UNCHANGED <<chain, cache, misread, registry>>

\* refresh_from_snapshot, of a snapshot of the cache: what it has, and nothing else, is fresh.
RefreshFromSnapshot ==
  /\ Step
  /\ LET known(t) == StorageSlot(t.token, t.source) \cap hot
         read(t) == IF known(t) = {} THEN Unknown
                    ELSE Decoded(t.source, cache[CHOOSE s \in known(t) : TRUE])
     IN ix' = [ix EXCEPT !.targets = [i \in DOMAIN ix.targets |->
                 IF ix.targets[i].active THEN [ix.targets[i] EXCEPT !.balance = read(ix.targets[i])] ELSE ix.targets[i]]]
  /\ misread' = {s \in hot : cache[s] # chain[s]}
  /\ UNCHANGED <<chain, cache, registry>>

\* RefreshMode::includes, of the active targets.
Included(x, mode) ==
  {i \in DOMAIN x.targets : x.targets[i].active /\ (mode = "all" \/ x.targets[i].balance = Stale)}

\* discover_erc20_slots: the probe of a token finds its slots, finds none or fails. Every
\* target has one token and one holder, so the order of the probes does not matter.
DiscoverErc20Slots(x, mode, probe) ==
  LET want == {<<x.targets[i].token, x.targets[i].source.holder>> :
                 i \in {j \in Included(x, mode) : /\ x.targets[j].source.kind = "erc20"
                                                  /\ ~x.targets[j].source.known}}
      probed(outcome) == {w \in want : probe[w[1]] = outcome}
      holding(outcome) == UNION {TokenHolder(x, w[1], w[2]) : w \in probed(outcome)}
  IN SetErc20Slots(SetAll(SetAll(x, holding("none"), Unknown), holding("error"), Stale),
                   probed("found"))

\* update_slot_value and mark_storage_spec_stale of slots that were asked for: those of the
\* contracts that fail are not read.
ReadSlots(x, slots, failing) ==
  LET at(i) == {s \in slots : i \in AtSlot(x, s)}
      read(i) == LET s == CHOOSE s \in at(i) : TRUE
                 IN IF s[1] \in failing THEN Stale ELSE Decoded(x.targets[i].source, chain[s])
  IN [x EXCEPT !.targets = [i \in DOMAIN x.targets |->
        IF at(i) = {} THEN x.targets[i] ELSE [x.targets[i] EXCEPT !.balance = read(i)]]]

\* refresh: then the slots are read from the chain, contract by contract, and put in the
\* cache. One contract may fail.
Refresh(mode, probe, failing) ==
  /\ Step
  /\ LET found == DiscoverErc20Slots(ix, mode, probe)
         slots == UNION {StorageSlot(found.targets[i].token, found.targets[i].source) :
                           i \in Included(found, mode)}
         read == {s \in slots : s[1] \notin failing}
     IN /\ ix' = ReadSlots(found, slots, failing)
        /\ cache' = Cached(read, chain) /\ misread' = misread \ read
  /\ UNCHANGED <<chain, registry>>

\* reconcile_pools, after the graph or the registrations of some pools changed.
ReconcilePools(reg) ==
  /\ Step /\ registry' = reg /\ reg # registry
  /\ ix' = ReconcileAll(ix, reg, {p \in Pools : reg[p] # registry[p]})
  /\ UNCHANGED <<chain, cache, misread>>

Next ==
  \/ \E t \in Tokens, from, to \in {Nobody} \cup {Holder[p] : p \in Pools}, v \in Amounts \ {0} :
       TransferLog(t, from, to, v) \/ RemovedLog(t, from, to, v)
  \/ \E s \in Slots, low, high \in Amounts : StorageUpdate(s, low, high)
  \/ \E t \in Tokens, p \in Pools : SeedSlot(t, Holder[p]) \/ SetBalance(p, t) \/ MarkStale(p, t)
  \/ RefreshFromSnapshot
  \/ \E mode \in {"all", "stale"}, outcome \in {"found", "none", "error"}, t \in Tokens,
        failing \in {{}, {Vault}} \cup {{u} : u \in Tokens} :
       Refresh(mode, [u \in Tokens |-> IF u = t THEN outcome ELSE "found"], failing)
  \/ \E reg \in Registries : ReconcilePools(reg)

Spec == Init /\ [][Next]_vars

------------------------------------------------------------------------------
(* Properties *)

\* What a slot may be taken to hold: what the chain has and, of a slot that was misread in a
\* snapshot, what the cache has.
Believed == [s \in Slots |-> {chain[s]} \cup {cache[r] : r \in {s} \cap misread}]

\* A fresh balance is the pool's, after any transfers, failed or partial refreshes,
\* reorganisations and reuse of targets, unless a snapshot was read whose word of it was
\* behind the chain; then, until the slot is read again, it may be the cache's, moved by the
\* transfers since. What the search prunes by is what the pool can pay out, or what the
\* simulations on that cache think it can (balance_state).
FreshIsCurrent ==
  \A p \in Pools, t \in Tokens :
    BalanceState(p, t) >= 0 =>
      \/ /\ registry[p].kind = "erc20"
         /\ \E word \in Believed[<<t, Holder[p]>>] : BalanceState(p, t) = word[1]
      \/ /\ registry[p].kind = "balancer" /\ t \in DOMAIN registry[p].cash
         /\ \E word \in Believed[<<Vault, registry[p].cash[t].slot>>] :
              BalanceState(p, t) = Decoded(Cash(registry[p].cash[t]), word)
==============================================================================
