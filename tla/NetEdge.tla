------------------------------ MODULE NetEdge ------------------------------
(***************************************************************************)
(* The arithmetic of a round trip USDC -> token -> USDC between venues     *)
(* (cross-venue-net-edge.mjs).  An optional number is a set with at most   *)
(* one element.  Edges are counted in 1/Precision of a basis point.        *)
(***************************************************************************)
EXTENDS Integers, FiniteSets, Sequences, SequencesExt

CONSTANTS
  Precision,  \* parts of a basis point (10_000)
  FeeRate     \* what one lamport costs of the notional, in such parts

HardMinExpectedNetEdgeBps == 20

The(known) == CHOOSE n \in known : TRUE

(* Number(value) of JavaScript: null is zero. *)
Number(known) == IF known = {} THEN 0 ELSE The(known)

(* BigInt's division truncates. *)
Trunc(n, d) == IF n >= 0 THEN n \div d ELSE -((-n) \div d)

RatioToBps(numerator, denominator) == Trunc((numerator - denominator) * 10000 * Precision, denominator)

RoundTripEdge(initial, returned) == RatioToBps(returned, initial)

(* A report gives what each pool would pay for the whole amount; a pair of *)
(* pools buys at one and sells at the other.                               *)
Pairs(buys, sells) == {p \in (DOMAIN buys) \X (DOMAIN sells) : p[1] # p[2]}

Spread(buys, sells, initial, sold, p) == RatioToBps(sells[p[2]] * buys[p[1]], initial * sold)

Routability(seen, p) == (IF p[1] \in seen.buy THEN 1 ELSE 0) + (IF p[2] \in seen.sell THEN 1 ELSE 0)

(* The orders in which rankCrossVenueReportPairs may list the pairs.       *)
Rankings(buys, sells, initial, sold, seen) ==
  LET spread(p) == Spread(buys, sells, initial, sold, p)
      ahead(p, q) == \/ Routability(seen, p) > Routability(seen, q)
                     \/ /\ Routability(seen, p) = Routability(seen, q)
                        /\ spread(p) >= spread(q)
  IN {s \in SetToSeqs(Pairs(buys, sells)) :
        \A i \in 1 .. Len(s) - 1 : ahead(s[i], s[i + 1])}

(* effectiveFloor, in parts: a configuration can raise it only. *)
Floor(requested) ==
  Precision * (IF requested # {} /\ The(requested) > HardMinExpectedNetEdgeBps
               THEN The(requested) ELSE HardMinExpectedNetEdgeBps)

(* computeExactNetworkFeeBps: a fee of null lamports is a fee of zero.     *)
NetworkFee(fee) == Number(fee) * FeeRate

Incomplete == [included |-> FALSE, edge |-> {}, passed |-> FALSE]

FinalizeExpectedNetEdge(gross, fee, requested) ==
  IF gross = {} THEN Incomplete
  ELSE LET edge == The(gross) - NetworkFee(fee) IN
       [included |-> TRUE, edge |-> {edge}, passed |-> edge >= Floor(requested)]
=============================================================================
