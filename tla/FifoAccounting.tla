-------------------------- MODULE FifoAccounting --------------------------
(***************************************************************************)
(* The FIFO cost basis of packages/reconciliation-accounting/fifo.mjs: the *)
(* trades of one wallet, in the order of the chain, are booked into lots   *)
(* of each token; a sale of a token against a quote token consumes the     *)
(* oldest lots, and what it consumed is its cost.                          *)
(*                                                                         *)
(* A trade is [slot, at, tx, tokenIn, tokenOut, quantity, usd, valid];     *)
(* quantity is the raw amount of its base token, usd its worth in micros,  *)
(* valid what validateEvent decides of it.                                 *)
(***************************************************************************)
EXTENDS Integers, SequencesExt

CONSTANTS
  EventIds,    \* event_id values, naturals: the last key of the order
  Trade,       \* the trade that each event reports
  QuoteMints   \* RECONCILIATION_QUOTE_MINTS

ASSUME EventIdsNat == EventIds \subseteq Nat

(* The amounts of a trade that is not valid do not matter. *)
ASSUME TradesNat == \A e \in EventIds :
  Trade[e].slot \in Nat /\ Trade[e].at \in Nat /\ Trade[e].quantity \in Nat /\ Trade[e].usd \in Nat

Tokens == {Trade[e].tokenIn : e \in EventIds} \cup {Trade[e].tokenOut : e \in EventIds}

(* Slot, then time, then event id. *)
Before(e, f) ==
  \/ Trade[e].slot < Trade[f].slot
  \/ Trade[e].slot = Trade[f].slot /\ Trade[e].at < Trade[f].at
  \/ Trade[e].slot = Trade[f].slot /\ Trade[e].at = Trade[f].at /\ e < f

History(events, e) == {f \in events : f = e \/ Before(f, e)}

Buys(e) == Trade[e].tokenIn \in QuoteMints
QuotePair(e) == Buys(e) = (Trade[e].tokenOut \in QuoteMints)
BaseMint(e) == IF Buys(e) THEN Trade[e].tokenOut ELSE Trade[e].tokenIn

(* Mutant: a lot that is sold in part keeps its whole cost. *)
TakeKeepsCost(acc, lot) ==
  LET take == IF lot.quantity <= acc.remaining THEN lot.quantity ELSE acc.remaining
      cost == IF take = lot.quantity THEN lot.cost ELSE (lot.cost * take) \div lot.quantity IN
  [remaining |-> acc.remaining - take,
   cost |-> acc.cost + cost,
   lots |-> IF take = lot.quantity THEN acc.lots
            ELSE Append(acc.lots, [quantity |-> lot.quantity - take, cost |-> lot.cost])]

(* What a sale takes from one lot; a lot taken whole gives all that is     *)
(* left of its cost, so that no micro is lost to rounding.                 *)
Take(acc, lot) ==
  LET take == IF lot.quantity <= acc.remaining THEN lot.quantity ELSE acc.remaining
      cost == IF take = lot.quantity THEN lot.cost ELSE (lot.cost * take) \div lot.quantity IN
  [remaining |-> acc.remaining - take,
   cost |-> acc.cost + cost,
   lots |-> IF take = lot.quantity THEN acc.lots
            ELSE Append(acc.lots, [quantity |-> lot.quantity - take, cost |-> lot.cost - cost])]

ConsumeFifo(lots, quantity) ==
  LET consumed[i \in 0 .. Len(lots)] ==
        IF i = 0 THEN [remaining |-> quantity, cost |-> 0, lots |-> <<>>]
        ELSE Take(consumed[i - 1], lots[i])
  IN consumed[Len(lots)]

Blocked(books, e) == BaseMint(e) \in books.blocked

(* candidates.push: the sale e has this cost. *)
Push(costs, e, cost) == [f \in DOMAIN costs \cup {e} |-> IF f = e THEN cost ELSE costs[f]]

(* A token whose sales exceed the purchases that were observed is blocked  *)
(* for the rest of the history.                                            *)
Book(books, e) ==
  LET mint == BaseMint(e)
      sold == ConsumeFifo(books.lots[mint], Trade[e].quantity) IN
  CASE QuotePair(e) \/ Blocked(books, e) -> [books EXCEPT !.skipped = @ \cup {e}]
    [] ~QuotePair(e) /\ ~Blocked(books, e) /\ Buys(e) ->
         [books EXCEPT !.lots[mint] = Append(@, [quantity |-> Trade[e].quantity, cost |-> Trade[e].usd])]
    [] OTHER ->
         IF sold.remaining > 0
         THEN [books EXCEPT !.blocked = @ \cup {mint}, !.issues = @ \cup {e}, !.lots[mint] = <<>>]
         ELSE [books EXCEPT !.lots[mint] = sold.lots, !.cost = Push(@, e, sold.cost)]

Empty == [lots |-> [m \in Tokens |-> <<>>], blocked |-> {}, issues |-> {}, skipped |-> {}, cost |-> [e \in {} |-> 0]]

(* buildFifoAccountingCandidates; one invalid event refuses the history.   *)
Acceptable(history) == \A e \in history : Trade[e].valid

Histories == {history \in SUBSET EventIds : IsFiniteSet(history)}

Latest(history) == CHOOSE e \in history : \A f \in history \ {e} : Before(f, e)

Books[history \in Histories] ==
  IF history = {} THEN Empty ELSE LET e == Latest(history) IN Book(Books[history \ {e}], e)

(* The worths of the events of a history, added up in their order. *)
Total(worth) ==
  LET total[history \in Histories] ==
        IF history = {} THEN 0 ELSE LET e == Latest(history) IN worth[e] + total[history \ {e}]
  IN total

(* deriveRuntimeAccountingCandidate: the sale e has a candidate. *)
HasCandidate(events, e) ==
  LET history == History(events, e) IN
  Acceptable(history) /\ e \in DOMAIN Books[history].cost

CostBasis(events, e) == Books[History(events, e)].cost[e]

=============================================================================
