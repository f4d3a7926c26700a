------------------------- MODULE MCReconciledLedger -------------------------
(* One purchase and four sales; the last two are of one transaction.       *)
EXTENDS ReconciledLedger

CONSTANT MaxBuilds

MCTrade == [e \in EventIds |->
  [slot |-> IF e = 5 THEN 4 ELSE e, at |-> 0, tx |-> IF e = 5 THEN 4 ELSE e,
   tokenIn |-> IF e = 1 THEN "usdc" ELSE "bonk", tokenOut |-> IF e = 1 THEN "bonk" ELSE "usdc",
   quantity |-> IF e = 1 THEN 3 ELSE 1, usd |-> IF e = 1 THEN 10 ELSE e, valid |-> TRUE]]

MCHolding == [e \in EventIds |-> [sol |-> 0, usdc |-> 9 - e]]
MCPrice == [sol |-> 3, usdc |-> 1]

MCChain == [t \in 1 .. 4 |-> [slot |-> t, failed |-> FALSE, fee |-> 1, blockTime |-> 60 + t]]
MCCandles == {[at |-> m, close |-> 3] : m \in {0, 60, 120}}

MCOffers == {[scan |-> "complete", inventory |-> "complete", valued |-> {"usdc"}, fees |-> <<1>>]}

(* The drawdown is the worst fall from any worth to any later one, for the *)
(* short series of small worths.                                           *)
ASSUME DrawdownIsWorstFall == \A s \in UNION {[1 .. n -> 1 .. 4] : n \in 1 .. 4} :
  LET falls == {Rounded((s[p[1]] - s[p[2]]) * 10000, s[p[1]]) : p \in {q \in (DOMAIN s) \X (DOMAIN s) : q[1] <= q[2]}} IN
  Drawdown(s) \in falls /\ \A f \in falls : f <= Drawdown(s)

(* Of a history with the purchase of three units, the first three sales in *)
(* the order of the chain have a cost; a fourth sells units nobody bought. *)
ASSUME SoldAsBought ==
  LET sales(h) == IF 1 \in h THEN h \ {1} ELSE {}
      covered(h) == {e \in sales(h) : Cardinality({f \in sales(h) : f <= e}) <= 3} IN
  Books = [h \in Histories |-> [Books[h] EXCEPT !.cost = [e \in covered(h) |-> Books[h].cost[e]]]]

(* Bounds: no more than MaxBuilds builds are under way or have written     *)
(* their collection, no request begins while one is under way, and the     *)
(* clock moves only where there are none.  What a build races with is the  *)
(* commit of a request.                                                    *)
Building == {b \in Builders : build[b].pc # "idle"}
Opened == {r \in Requests : tx[r].pc # "idle"}
Started == Len(collections) + Cardinality(Building)

MCNext ==
  /\ Next
  /\ Building # {} => Opened' \subseteq Opened
  /\ Started > 0 => now' = now
  /\ Started' <= (IF now = 0 THEN MaxBuilds ELSE 0)

MCSpec == Init /\ [][MCNext]_vars

Symmetry == Permutations(Requests) \cup Permutations(Builders)
=============================================================================
