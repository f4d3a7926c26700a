----------------------------- MODULE DemoLedger -----------------------------
(***************************************************************************)
(* The persistent demo wallet of a member (member-autotrade-demo.mjs,      *)
(* demo-autotrade-ledger.mjs, tables of migrations/021).  A step of the    *)
(* training strategy is one transaction: it creates the account if there   *)
(* is none, locks its row, settles the decision of the training fixture    *)
(* and writes the row and a trade.  Amounts are counted in tenths of USDC. *)
(***************************************************************************)
EXTENDS Integers, Sequences

CONSTANTS
  Users,
  Handlers,   \* HTTP requests served at the same time
  Initials,   \* starting balances a first request may ask for
  Amounts,    \* amounts a BUY decision may ask for
  Returns,    \* unrealized_pnl_bps of the fixtures that may decide SELL
  FeeRates,   \* platform_fee_config.performance_fee_bps
  MaxTrades,  \* bound: trades of one user
  None

Whole == 10000       \* basis points
LeastCapital == 100  \* Math.max(10, demoEquity(account))
FirstBalance == 1000 \* of an account that a view creates

ASSUME BalancesPositive == Initials \subseteq Nat \ {0} /\ Amounts \subseteq Nat
ASSUME LossesBounded == Returns \subseteq {b \in Int : -Whole <= b}
ASSUME RatesBounded == FeeRates \subseteq 0 .. Whole
ASSUME MaxTradesNat == MaxTrades \in Nat

VARIABLES
  accounts,  \* member_autotrade_demo_accounts
  trades,    \* member_autotrade_demo_trades, in the order of their commits
  feeBps,    \* the platform's performance fee
  tx         \* the transaction of each handler

vars == <<accounts, trades, feeBps, tx>>

Accounts == [initial : Nat, cash : Nat, open : Nat, realized : Int, fees : Nat,
             closed : Nat, wins : Nat, losses : Nat]

Trades == [closed : BOOLEAN, before : Nat, after : Nat, fee : Nat, net : Int]

Transactions == [pc : {"ensure", "lock", "fee", "settle"}, view : BOOLEAN, user : Users,
                 initial : Initials, row : Accounts \cup {None}, fee : FeeRates \cup {None}]

ASSUME NoneIsNoValue == None \notin Accounts \cup Transactions \cup FeeRates

Init ==
  /\ accounts = [u \in Users |-> None]
  /\ trades = [u \in Users |-> <<>>]
  /\ feeBps \in FeeRates
  /\ tx = [h \in Handlers |-> None]

NewAccount(initial) ==
  [initial |-> initial, cash |-> initial, open |-> 0, realized |-> 0, fees |-> 0,
   closed |-> 0, wins |-> 0, losses |-> 0]

Equity(row) == row.cash + row.open

At(h, pc) == tx[h] # None /\ tx[h].pc = pc

Continue(h, t) ==
  /\ tx' = [tx EXCEPT ![h] = t]
  /\ UNCHANGED <<accounts, trades, feeBps>>

-----------------------------------------------------------------------------
(* BEGIN of a step, or of a request for the wallet and its history.        *)
Begin(h, u, initial, view) ==
  /\ tx[h] = None
  /\ view => initial = FirstBalance
  /\ Continue(h, [pc |-> "ensure", view |-> view, user |-> u, initial |-> initial,
                  row |-> None, fee |-> None])

(* Mutant: the row is read without FOR UPDATE. *)
HoldsNothing(g, u) == FALSE

(* The row lock, or the uncommitted row itself. *)
Holds(g, u) == tx[g] # None /\ tx[g].user = u /\ tx[g].pc \in {"fee", "settle"}

Free(h) == \A g \in Handlers \ {h} : ~Holds(g, tx[h].user)

(* INSERT ... ON CONFLICT DO NOTHING waits for an uncommitted insertion.   *)
EnsureAccount(h) ==
  /\ At(h, "ensure")
  /\ IF accounts[tx[h].user] # None
     THEN Continue(h, [tx[h] EXCEPT !.pc = "lock"])
     ELSE Free(h) /\ Continue(h, [tx[h] EXCEPT !.pc = "fee", !.row = NewAccount(tx[h].initial)])

(* SELECT ... FOR UPDATE reads what the last holder has committed. *)
LockAccount(h) ==
  /\ At(h, "lock") /\ Free(h)
  /\ Continue(h, [tx[h] EXCEPT !.pc = "fee", !.row = accounts[tx[h].user]])

ReadFee(h) ==
  /\ At(h, "fee")
  /\ Continue(h, [tx[h] EXCEPT !.pc = "settle", !.fee = feeBps])

-----------------------------------------------------------------------------
(* Math.round(n * bps / 10000): to the nearest, halves upwards.            *)
Share(n, bps) == (2 * n * bps + Whole) \div (2 * Whole)

Notional(row, amount) == IF amount < row.cash THEN amount ELSE row.cash

(* BUY: a second position, or one of nothing, is not opened. *)
Bought(row, amount) ==
  IF row.open > 0 THEN row
  ELSE [row EXCEPT !.cash = row.cash - Notional(row, amount), !.open = Notional(row, amount)]

Gross(row, bps) == Share(row.open, bps)

Charge(row, bps, fee) == IF Gross(row, bps) > 0 THEN Share(Gross(row, bps), fee) ELSE 0

Net(row, bps, fee) == Gross(row, bps) - Charge(row, bps, fee)

(* Mutant: the fee is booked and not deducted from the cash. *)
SoldWithoutFee(row, bps, fee) ==
  LET net == Net(row, bps, fee) IN
  [row EXCEPT !.cash = row.cash + row.open + Gross(row, bps), !.open = 0,
              !.realized = row.realized + net, !.fees = row.fees + Charge(row, bps, fee),
              !.closed = row.closed + 1]

(* SELL of an open position. *)
Sold(row, bps, fee) ==
  LET net == Net(row, bps, fee) IN
  [row EXCEPT !.cash = row.cash + row.open + net, !.open = 0,
              !.realized = row.realized + net, !.fees = row.fees + Charge(row, bps, fee),
              !.closed = row.closed + 1,
              !.wins = row.wins + (IF net > 0 THEN 1 ELSE 0),
              !.losses = row.losses + (IF net < 0 THEN 1 ELSE 0)]

(* The UPDATE, the INSERT of the trade, and COMMIT. *)
Write(h, row, closed, fee, net) ==
  /\ At(h, "settle") /\ ~tx[h].view
  /\ Len(trades[tx[h].user]) < MaxTrades
  /\ accounts' = [accounts EXCEPT ![tx[h].user] = row]
  /\ trades' = [trades EXCEPT ![tx[h].user] =
       Append(trades[tx[h].user], [closed |-> closed, before |-> Equity(tx[h].row),
                                   after |-> Equity(row), fee |-> fee, net |-> net])]
  /\ tx' = [tx EXCEPT ![h] = None]
  /\ UNCHANGED feeBps

(* The fixture decides without looking at the wallet, except for its size. *)
Buy(h, amount) ==
  /\ At(h, "settle")
  /\ amount <= LeastCapital \/ amount <= Equity(tx[h].row)
  /\ Write(h, Bought(tx[h].row, amount), FALSE, 0, 0)

Sell(h, bps) ==
  /\ At(h, "settle") /\ tx[h].row.open > 0
  /\ Write(h, Sold(tx[h].row, bps, tx[h].fee), TRUE,
           Charge(tx[h].row, bps, tx[h].fee), Net(tx[h].row, bps, tx[h].fee))

(* HOLD, REJECT, or SELL of nothing. *)
Keep(h) == At(h, "settle") /\ Write(h, tx[h].row, FALSE, 0, 0)

(* COMMIT of a request that only reads. *)
View(h) ==
  /\ At(h, "settle") /\ tx[h].view
  /\ accounts' = [accounts EXCEPT ![tx[h].user] = tx[h].row]
  /\ tx' = [tx EXCEPT ![h] = None]
  /\ UNCHANGED <<trades, feeBps>>

(* ROLLBACK: an invalid scenario, a lost connection. *)
Fail(h) == tx[h] # None /\ Continue(h, None)

FeeChanges(bps) ==
  /\ feeBps' = bps
  /\ UNCHANGED <<accounts, trades, tx>>

-----------------------------------------------------------------------------
Handle(h) ==
  \/ \E u \in Users, initial \in Initials, view \in BOOLEAN : Begin(h, u, initial, view)
  \/ EnsureAccount(h)
  \/ LockAccount(h)
  \/ ReadFee(h)
  \/ \E amount \in Amounts : Buy(h, amount)
  \/ \E bps \in Returns : Sell(h, bps)
  \/ Keep(h)
  \/ View(h)
  \/ Fail(h)

Next == (\E bps \in FeeRates : FeeChanges(bps)) \/ (\E h \in Handlers : Handle(h))

Spec == Init /\ [][Next]_vars

-----------------------------------------------------------------------------
TypeOK ==
  /\ accounts \in [Users -> Accounts \cup {None}]
  /\ trades \in [Users -> Seq(Trades)]
  /\ feeBps \in FeeRates
  /\ tx \in [Handlers -> Transactions \cup {None}]

(* The wallet's worth is what it started with plus the realized net        *)
(* profit, although a step overwrites the cash and adds to the profit      *)
(* (settleDemoAction, runMemberAutoTradeDemoStep).                         *)
EquityAccounted == \A u \in Users : accounts[u] # None =>
  Equity(accounts[u]) = accounts[u].initial + accounts[u].realized

Last(s) == s[Len(s)]

(* The balances of a member's trades form a chain from the initial balance *)
(* to the present one: no step settles a wallet that another step has      *)
(* changed since (balance_before_usdc, balance_after_usdc).                *)
BalancesChain == \A u \in Users :
  /\ trades[u] # <<>> =>
       /\ accounts[u] # None
       /\ trades[u][1].before = accounts[u].initial
       /\ Last(trades[u]).after = Equity(accounts[u])
  /\ \A i \in 1 .. Len(trades[u]) - 1 : trades[u][i].after = trades[u][i + 1].before

=============================================================================
