---------------------------- MODULE NetEdgeProbe ----------------------------
(***************************************************************************)
(* One candidate of scripts/vm-cross-venue-net-edge-probe.mjs: it is       *)
(* screened, its pools are ranked by a report and mapped to venues, the    *)
(* venues are asked one by one, a pair is quoted, its two transactions are *)
(* built without a signature, priced and simulated, and the net edge is    *)
(* finalized.  Every request may fail.                                     *)
(***************************************************************************)
EXTENDS NetEdge, FiniteSetsExt

CONSTANTS
  Venue,       \* the venue of each pool, NoVenue when its program has no label
  NoVenue,
  Reports,     \* reports: what each of some pools would pay for the whole amount
  Initial,     \* the USDC that are spent
  Returned,    \* the USDC that may come back
  Fees,        \* what getFeeForMessage may answer, {} for null
  MaxRanked,   \* the pairs of pools that are looked up (12)
  MaxPairs,    \* AETHER_CROSS_VENUE_DEX_PAIR_ATTEMPTS
  MaxRetries,  \* of a transaction that Jupiter declines to build for now
  MinEdge      \* SIGNAL_MIN_EXPECTED_NET_EDGE_BPS, {} when unset

Pools == DOMAIN Venue

VARIABLES
  stage,    \* how far the candidate is, or the status of its result
  pairs,    \* the pairs of venues that are left to try
  asked,    \* the venues that quoted the token directly, by side
  gross,    \* the gross edge of the selected pair
  attempt,  \* retries of the transaction being built
  fee,      \* the answers of getFeeForMessage, in the order of the legs
  result

probeVars == <<stage, pairs, asked, gross, attempt, fee, result>>

ProbeInit ==
  /\ stage = "screen" /\ pairs = <<>> /\ asked = [buy |-> {}, sell |-> {}]
  /\ gross = {} /\ attempt = 0 /\ fee = <<>> /\ result = Incomplete

To(next) == stage' = next

(* Liquidity, volume, holders and the impact of the broad quote; a         *)
(* candidate that fails one, or cannot be read, has no result.             *)
Screen ==
  /\ stage = "screen"
  /\ To("rank") \/ To("SKIPPED")
  /\ UNCHANGED <<pairs, asked, gross, attempt, fee, result>>

(* The distinct pairs of labelled venues, best first. *)
DexPairs(ranked) ==
  LET add(found, p) ==
        LET pair == <<Venue[p[1]], Venue[p[2]]>> IN
        IF \/ NoVenue \in {pair[1], pair[2]} \/ pair[1] = pair[2]
           \/ Contains(found, pair) \/ Len(found) = MaxPairs
        THEN found ELSE Append(found, pair)
  IN FoldLeft(add, <<>>, ranked)

(* Every list that two reports and the routes they name may give. *)
RankedLists ==
  UNION {Rankings(buys, sells, Initial, Initial, seen) :
           buys, sells \in Reports, seen \in [buy : SUBSET Pools, sell : SUBSET Pools]}

Rank(ranked) ==
  /\ stage = "rank"
  /\ LET found == DexPairs(SubSeq(ranked, 1, Min({MaxRanked, Len(ranked)}))) IN
     /\ pairs' = found
     /\ To(IF ranked = <<>> THEN "NO_MULTI_AMM_REPORT"
           ELSE IF found = <<>> THEN "NO_DISTINCT_DEX_PAIR" ELSE "preflight")
  /\ UNCHANGED <<asked, gross, attempt, fee, result>>

(* Every venue is asked for a direct route; the pairs with both go on.     *)
Preflight(buys, sells) ==
  /\ stage = "preflight"
  /\ buys \subseteq {pairs[i][1] : i \in DOMAIN pairs}
  /\ sells \subseteq {pairs[i][2] : i \in DOMAIN pairs}
  /\ asked' = [buy |-> buys, sell |-> sells]
  /\ pairs' = SelectSeq(pairs, LAMBDA p : p[1] \in buys /\ p[2] \in sells)
  /\ To(IF pairs' = <<>> THEN "NO_ROUTABLE_DISTINCT_DEX_PAIR" ELSE "quote")
  /\ UNCHANGED <<gross, attempt, fee, result>>

(* The next pair is quoted for what its own purchase gives. *)
Quote(returned) ==
  /\ stage = "quote"
  /\ gross' = {RoundTripEdge(Initial, returned)}
  /\ To("build") \/ To("PRICE_IMPACT_REJECTED")
  /\ UNCHANGED <<pairs, asked, attempt, fee, result>>

QuoteFails ==
  /\ stage = "quote"
  /\ pairs' = Tail(pairs)
  /\ To(IF pairs' = <<>> THEN "DEX_RESTRICTED_QUOTE_UNAVAILABLE" ELSE "quote")
  /\ UNCHANGED <<asked, gross, attempt, fee, result>>

(* buildSwapWithBackoff *)
RateLimited ==
  /\ stage = "build" /\ attempt < MaxRetries
  /\ attempt' = attempt + 1
  /\ UNCHANGED <<stage, pairs, asked, gross, fee, result>>

(* The fee of a leg whose transaction was built and simulated. *)
BuildAndObserve(value) ==
  /\ stage = "build"
  /\ fee' = Append(fee, value)
  /\ attempt' = 0
  /\ To(IF Len(fee) = 1 THEN "finalize" ELSE "build")
  /\ UNCHANGED <<pairs, asked, gross, result>>

(* The build, the fee or the simulation of a leg throws: the round trip    *)
(* has no evidence at all.                                                 *)
ObserveFails ==
  /\ stage = "build"
  /\ fee' = <<>>
  /\ To("finalize")
  /\ UNCHANGED <<pairs, asked, gross, attempt, result>>

(* Each exact fee is Number(value): a null answer is an exact fee of zero. *)
ExactRoundTripFee == IF fee = <<>> THEN {} ELSE {Number(fee[1]) + Number(fee[2])}

Finalize ==
  /\ stage = "finalize"
  /\ result' = FinalizeExpectedNetEdge(gross, ExactRoundTripFee, MinEdge)
  /\ To(IF result'.included THEN "NET_EDGE_MEASURED" ELSE "NET_EDGE_INCOMPLETE")
  /\ UNCHANGED <<pairs, asked, gross, attempt, fee>>

ProbeNext ==
  \/ Screen
  \/ \E ranked \in RankedLists : Rank(ranked)
  \/ \E buys, sells \in SUBSET {Venue[p] : p \in Pools} : Preflight(buys, sells)
  \/ \E returned \in Returned : Quote(returned)
  \/ QuoteFails
  \/ RateLimited
  \/ \E value \in Fees : BuildAndObserve(value)
  \/ ObserveFails
  \/ Finalize

ProbeSpec == ProbeInit /\ [][ProbeNext]_probeVars

(* scripts/vm-real-market-shadow-probe.mjs: the expected net edge remains  *)
(* unavailable until all cost evidence is proven, so a candidate that      *)
(* passes the gate has a fee for each of its transactions.                 *)
CostsProven == result.passed => Len(fee) = 2 /\ {} \notin {fee[1], fee[2]}
=============================================================================
