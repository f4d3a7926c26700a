----------------------------- MODULE MarketCache -----------------------------
(***************************************************************************)
(* The caches in front of the market provider and of the chain             *)
(* (market-intelligence.mjs: tokens and discovery, wallet-portfolio.mjs:   *)
(* portfolios).  A request looks an entry up, and when it is too old       *)
(* fetches, while other requests of the same key do the same.  A value is  *)
(* the time at which its source read it.                                   *)
(***************************************************************************)
EXTENDS Integers, Sequences

CONSTANTS
  Keys,        \* of all caches
  Cache,       \* the cache of each key: "token", "discovery" or "portfolio"
  Askers,      \* requests in flight
  Fresh,       \* CACHE_TTL_MS, DISCOVERY_CACHE_TTL_MS, cacheTtlMs
  Stale,       \* STALE_FALLBACK_MS
  Latency,     \* longest fetch: the provider's timeouts
  Entries,     \* token entries kept
  MaxTime      \* bound: the last time

ASSUME KeysHaveCaches == Cache \in [Keys -> {"token", "discovery", "portfolio"}]
ASSUME TimesNat == Fresh \in Nat \ {0} /\ Stale \in Nat /\ Latency \in Nat /\ MaxTime \in Nat
ASSUME EntriesNat == Entries \in Nat \ {0}

VARIABLES
  time,
  entries,  \* of each key: the value and the time it was fetched for, or none
  order,    \* the token keys, in the order of their insertion
  asker,    \* each request
  answer    \* of this step, if it answers: its label and the age of its value

cacheVars == <<time, entries, order, asker, answer>>

Empty == [read |-> -1, since |-> -1]
NoRequest == [key |-> "none", start |-> 0, entry |-> Empty, read |-> -1]
NoAnswer == [label |-> "none", age |-> 0]

CacheInit ==
  /\ time = 0
  /\ entries = [k \in Keys |-> Empty]
  /\ order = <<>>
  /\ asker = [a \in Askers |-> NoRequest]
  /\ answer = NoAnswer

Asks(a) == asker[a] # NoRequest

(* A fetch that has not answered in time is aborted. *)
Clock ==
  /\ time < MaxTime
  /\ \A a \in Askers : Asks(a) => time < asker[a].start + Latency
  /\ time' = time + 1
  /\ answer' = NoAnswer
  /\ UNCHANGED <<entries, order, asker>>

Hit(entry) == entry # Empty /\ time < entry.since + Fresh

(* getToken, loadDiscoverySource, getPortfolio: the entry is looked up     *)
(* once; only a portfolio can be asked for past it.                        *)
Ask(a, k, force) ==
  /\ ~Asks(a)
  /\ force => Cache[k] = "portfolio"
  /\ IF Hit(entries[k]) /\ ~force
     THEN answer' = [label |-> Cache[k], age |-> time - entries[k].read] /\ UNCHANGED asker
     ELSE /\ asker' = [asker EXCEPT ![a] = [key |-> k, start |-> time, entry |-> entries[k], read |-> -1]]
          /\ answer' = NoAnswer
  /\ UNCHANGED <<time, entries, order>>

(* The provider reads its pools, or the node its accounts. *)
SourceReads(a) ==
  /\ Asks(a) /\ asker[a].read = -1
  /\ asker' = [asker EXCEPT ![a].read = time]
  /\ answer' = NoAnswer
  /\ UNCHANGED <<time, entries, order>>

(* Mutant: an entry is as young as its answer. *)
SinceAnswer(r) == time

(* Market entries age from the start of their request, portfolios from     *)
(* the answer (cachedAt).                                                  *)
Since(r) == IF Cache[r.key] = "portfolio" THEN time ELSE r.start

(* Map.set keeps the place of a key; past the limit the first goes.        *)
Contained(keys, k) == \E i \in DOMAIN keys : keys[i] = k
Inserted(k) == IF Cache[k] # "token" \/ Contained(order, k) THEN order ELSE Append(order, k)
Kept(keys) == IF Len(keys) > Entries THEN Tail(keys) ELSE keys

Deliver(a) ==
  /\ Asks(a) /\ asker[a].read # -1
  /\ LET r == asker[a]
         keys == Inserted(r.key) IN
     /\ order' = Kept(keys)
     /\ entries' = [k \in Keys |->
          IF k = r.key THEN [read |-> r.read, since |-> Since(r)]
          ELSE IF Cache[k] = "token" /\ ~Contained(Kept(keys), k) THEN Empty ELSE entries[k]]
     /\ answer' = [label |-> "fetched", age |-> time - r.read]
  /\ asker' = [asker EXCEPT ![a] = NoRequest]
  /\ UNCHANGED time

(* Which errors a stale entry answers for: a token's not when the token is *)
(* unknown or another one; a portfolio's never.                            *)
Excused(k, mismatch) == Cache[k] = "discovery" \/ (Cache[k] = "token" /\ ~mismatch)

(* The entry that was looked up at the start, if it was young enough then. *)
FailFetch(a, mismatch) ==
  /\ Asks(a)
  /\ LET r == asker[a] IN
     answer' = IF r.entry # Empty /\ r.start < r.entry.since + Fresh + Stale /\ Excused(r.key, mismatch)
               THEN [label |-> "stale", age |-> time - r.entry.read] ELSE NoAnswer
  /\ asker' = [asker EXCEPT ![a] = NoRequest]
  /\ UNCHANGED <<time, entries, order>>

CacheNext ==
  \/ Clock
  \/ \E a \in Askers :
       \/ \E k \in Keys, force \in BOOLEAN : Ask(a, k, force)
       \/ SourceReads(a)
       \/ Deliver(a)
       \/ \E mismatch \in BOOLEAN : FailFetch(a, mismatch)

CacheSpec == CacheInit /\ [][CacheNext]_cacheVars

-----------------------------------------------------------------------------
(* Whatever requests of a key overlap and in whatever order their fetches  *)
(* end, a market value answered from the cache is younger than the cache's *)
(* label says, a portfolio by no more than a fetch older, and a stale one  *)
(* within the fallback of a request that took no longer than a fetch; and  *)
(* the token cache keeps its size.                                         *)
AnswersAged ==
  /\ answer.label \in {"token", "discovery"} => answer.age < Fresh
  /\ answer.label = "portfolio" => answer.age < Fresh + Latency
  /\ answer.label = "fetched" => answer.age <= Latency
  /\ answer.label = "stale" => answer.age < Fresh + Stale + Latency
  /\ Len(order) <= Entries
=============================================================================
