--------------------------- MODULE ShadowPositions ---------------------------
(***************************************************************************)
(* The simulated positions of one follower and the cursor of their         *)
(* accounting (shadow-position-lifecycle.mjs, migrations/020, as           *)
(* shadow-autotrade-lifecycle-bridge.mjs calls them).  Each call is one    *)
(* READ COMMITTED transaction; what it has written stays in "tx" and       *)
(* locks its rows and index entries until COMMIT or ROLLBACK.              *)
(***************************************************************************)
EXTENDS Integers, FiniteSets

CONSTANTS
  Calls,       \* calls in flight at the same time
  Slots,       \* policy, token and quote mints
  Sources,     \* decisions a call may carry out; a retry names the same one
  Amounts,     \* USDC paid for a position
  Quantities,  \* tokens it buys
  Prices,      \* of a token, when the position is closed
  MaxTime,     \* bound: readings of the clock
  MaxPositions,\* bound: positions the follower opens
  MaxMarks,    \* bound: decisions that mark a position
  None

ASSUME AmountsPositive == Amounts \subseteq Nat \ {0} /\ Quantities \subseteq Nat \ {0} /\ Prices \subseteq Nat \ {0}
ASSUME BoundsNat == MaxTime \in Nat /\ MaxPositions \in Nat /\ MaxMarks \in Nat

VARIABLES
  positions,  \* follower_shadow_positions
  events,     \* follower_shadow_position_events, by idempotency_key
  cursor,     \* complete_through of follower_shadow_accounting_state
  clock,      \* what now() answers
  tx          \* the transaction of each call

vars == <<positions, events, cursor, clock, tx>>

Ids == 1 .. MaxPositions
Times == 0 .. MaxTime
Operations == {"OPEN", "MARK", "CLOSE"}

(* idempotency_key: a position is opened for a decision, and marked or     *)
(* closed for a position and a decision.                                   *)
Keys == {"OPEN"} \X {0} \X Sources \cup {"MARK", "CLOSE"} \X Ids \X Sources

Positions == [slot : Slots, status : {"OPEN", "CLOSED"}, quantity : Nat, basis : Nat,
              realized : Int, marked : Times]

Events == [type : Operations, position : Ids, realized : Int, at : Times]

Transactions == [op : Operations, pc : {"key", "slot", "row", "insert", "event", "now", "cursor", "commit"},
                 key : Keys, id : Ids \cup {None}, slot : Slots \cup {None},
                 amount : Amounts \cup {None}, quantity : Quantities \cup {None},
                 price : Prices \cup {None}, at : Times \cup {None},
                 row : Positions \cup {None}, ts : Times \cup {None},
                 wrote : SUBSET {"row", "event", "cursor"}]

ASSUME NoneIsNoValue ==
  None \notin Positions \cup Events \cup Transactions \cup Times \cup Ids \cup Slots

Init ==
  /\ positions = [i \in Ids |-> None]
  /\ events = [k \in Keys |-> None]
  /\ cursor = None
  /\ clock = 0
  /\ tx = [c \in Calls |-> None]

At(c, pc) == tx[c] # None /\ tx[c].pc = pc

Continue(c, t) ==
  /\ tx' = [tx EXCEPT ![c] = t]
  /\ UNCHANGED <<positions, events, cursor, clock>>

Rollback(c) == Continue(c, None)

(* What a transaction has written and not yet committed. *)
Wrote(c, what) == tx[c] # None /\ what \in tx[c].wrote

(* Mutant: a mark writes the accounting state first. *)
ReadyFirst(op, pc) ==
  CASE pc = "begin" -> IF op = "MARK" THEN "now" ELSE "key"
    [] pc \in {"row", "insert"} -> "event"
    [] pc = "event" -> IF op = "MARK" THEN "commit" ELSE "now"
    [] pc = "cursor" -> IF op = "MARK" THEN "row" ELSE "commit"

(* The order of the statements. *)
Then(op, pc) ==
  CASE pc = "begin" -> IF op = "MARK" THEN "row" ELSE "key"
    [] pc \in {"row", "insert"} -> "event"
    [] pc = "event" -> "now"
    [] pc = "cursor" -> "commit"

-----------------------------------------------------------------------------
Started(op, id, slot, amount, quantity, price, source) ==
  [op |-> op, pc |-> Then(op, "begin"),
   key |-> <<op, IF op = "OPEN" THEN 0 ELSE id, source>>,
   id |-> id, slot |-> slot, amount |-> amount, quantity |-> quantity, price |-> price,
   at |-> IF op = "MARK" THEN clock ELSE None,
   row |-> None, ts |-> None, wrote |-> {}]

(* bound: no more positions are asked for than there are identifiers. *)
StartOpen(c, slot, amount, quantity, source) ==
  /\ tx[c] = None
  /\ Cardinality({i \in Ids : positions[i] # None})
       + Cardinality({d \in Calls : tx[d] # None /\ tx[d].op = "OPEN"}) < MaxPositions
  /\ Continue(c, Started("OPEN", None, slot, amount, quantity, None, source))

Marks == {k \in Keys : events[k] # None /\ events[k].type = "MARK"}

(* The price of a mark does not matter here; it is dated when it starts.   *)
(* bound: MaxMarks, but for retries.                                       *)
StartMark(c, id, source) ==
  /\ tx[c] = None /\ positions[id] # None
  /\ Cardinality(Marks) < MaxMarks \/ <<"MARK", id, source>> \in Marks
  /\ Continue(c, Started("MARK", id, None, None, None, None, source))

StartClose(c, id, price, source) ==
  /\ tx[c] = None /\ positions[id] # None
  /\ Continue(c, Started("CLOSE", id, None, None, None, price, source))

(* A retry of what has been committed answers and changes nothing. *)
LookUpKey(c) ==
  /\ At(c, "key")
  /\ IF events[tx[c].key] # None THEN Rollback(c)
     ELSE Continue(c, [tx[c] EXCEPT !.pc = IF tx[c].op = "OPEN" THEN "slot" ELSE "row"])

OpenIn(slot) ==
  {i \in Ids : positions[i] # None /\ positions[i].slot = slot /\ positions[i].status = "OPEN"}

(* Mutant: the row is read without FOR UPDATE. *)
NobodyHolds(d, id) == FALSE

HoldsRow(d, id) == Wrote(d, "row") /\ tx[d].id = id

(* d holds what the next statement of c waits for: the open position it    *)
(* found, the index entry of its slot, its row, its key, or the state row. *)
Blocks(d, c) ==
  \/ At(c, "slot") /\ \E i \in OpenIn(tx[c].slot) : HoldsRow(d, i)
  \/ At(c, "insert") /\ Wrote(d, "row") /\ tx[d].slot = tx[c].slot
  \/ At(c, "row") /\ HoldsRow(d, tx[c].id)
  \/ At(c, "event") /\ Wrote(d, "event") /\ tx[d].key = tx[c].key
  \/ At(c, "cursor") /\ Wrote(d, "cursor")

Free(c) == \A d \in Calls \ {c} : ~Blocks(d, c)

NewPosition(t) == [slot |-> t.slot, status |-> "OPEN", quantity |-> t.quantity,
                   basis |-> t.amount, realized |-> 0, marked |-> clock]

(* randomUUID(): the identifiers are taken in order. *)
FreshIds == {i \in Ids : positions[i] = None /\ \A d \in Calls : tx[d] # None => tx[d].id # i}

(* SELECT of an open position FOR UPDATE, and the clock. *)
LookUpSlot(c) ==
  /\ At(c, "slot") /\ Free(c)
  /\ IF OpenIn(tx[c].slot) # {} THEN Rollback(c)
     ELSE \E i \in FreshIds :
            /\ \A j \in FreshIds : i <= j
            /\ Continue(c, [tx[c] EXCEPT !.pc = "insert", !.at = clock, !.id = i,
                                         !.row = NewPosition(tx[c])])

(* Mutant: no unique index on the open positions. *)
InsertUnchecked(c) ==
  At(c, "insert") /\ Continue(c, [tx[c] EXCEPT !.pc = Then("OPEN", "insert"), !.wrote = @ \cup {"row"}])

(* The unique index on open positions makes the INSERT wait for whoever    *)
(* writes a position of the slot.                                          *)
InsertPosition(c) ==
  /\ At(c, "insert") /\ Free(c)
  /\ IF OpenIn(tx[c].slot) # {} THEN Rollback(c)
     ELSE Continue(c, [tx[c] EXCEPT !.pc = Then("OPEN", "insert"), !.wrote = @ \cup {"row"}])

Realized(row, price) == row.quantity * price - row.basis

Closed(row, price) ==
  [row EXCEPT !.status = "CLOSED", !.quantity = 0, !.basis = 0, !.marked = clock,
              !.realized = row.realized + Realized(row, price)]

Marked(row, at) == [row EXCEPT !.marked = at]

(* Mutant: a closed position can be marked. *)
RefusedIfClosing(row, op) == row.status = "CLOSED" /\ op = "CLOSE"

Refused(row, op) == row.status = "CLOSED"

(* SELECT FOR UPDATE and the UPDATE of a position that is not closed. *)
UpdatePosition(c) ==
  /\ At(c, "row") /\ Free(c)
  /\ LET row == positions[tx[c].id] IN
     IF Refused(row, tx[c].op) THEN Rollback(c)
     ELSE Continue(c, [tx[c] EXCEPT
            !.pc = Then(tx[c].op, "row"), !.slot = row.slot, !.wrote = @ \cup {"row"},
            !.at = IF tx[c].op = "MARK" THEN @ ELSE clock,
            !.row = IF tx[c].op = "MARK" THEN Marked(row, tx[c].at) ELSE Closed(row, tx[c].price)])

(* The INSERT of the event waits for another one of its key; it fails if   *)
(* that one is committed, but for a mark, which then leaves no event.      *)
InsertEvent(c) ==
  /\ At(c, "event") /\ Free(c)
  /\ IF events[tx[c].key] = None
     THEN Continue(c, [tx[c] EXCEPT !.pc = Then(tx[c].op, "event"), !.wrote = @ \cup {"event"}])
     ELSE IF tx[c].op = "MARK" THEN Continue(c, [tx[c] EXCEPT !.pc = Then(tx[c].op, "event")])
     ELSE Rollback(c)

(* markReady: the clock, then the upsert, which waits for the row. *)
ReadNow(c) ==
  At(c, "now") /\ Continue(c, [tx[c] EXCEPT !.pc = "cursor", !.ts = clock])

MarkReady(c) ==
  /\ At(c, "cursor") /\ Free(c)
  /\ Continue(c, [tx[c] EXCEPT !.pc = Then(tx[c].op, "cursor"), !.wrote = @ \cup {"cursor"}])

NewEvent(t) ==
  [type |-> t.op, position |-> t.id, at |-> t.at,
   realized |-> IF t.op = "CLOSE" THEN Realized(positions[t.id], t.price) ELSE 0]

Commit(c) ==
  /\ At(c, "commit")
  /\ positions' = [positions EXCEPT ![tx[c].id] = tx[c].row]
  /\ events' = IF Wrote(c, "event") THEN [events EXCEPT ![tx[c].key] = NewEvent(tx[c])] ELSE events
  /\ cursor' = tx[c].ts
  /\ tx' = [tx EXCEPT ![c] = None]
  /\ UNCHANGED clock

(* A lost connection. *)
Fail(c) == tx[c] # None /\ Rollback(c)

Tick ==
  /\ clock < MaxTime
  /\ clock' = clock + 1
  /\ UNCHANGED <<positions, events, cursor, tx>>

-----------------------------------------------------------------------------
Start(c) == \E source \in Sources :
  \/ \E slot \in Slots, amount \in Amounts, quantity \in Quantities :
       StartOpen(c, slot, amount, quantity, source)
  \/ \E id \in Ids : StartMark(c, id, source)
  \/ \E id \in Ids, price \in Prices : StartClose(c, id, price, source)

Proceed(c) ==
  \/ LookUpKey(c)
  \/ LookUpSlot(c)
  \/ InsertPosition(c)
  \/ UpdatePosition(c)
  \/ InsertEvent(c)
  \/ ReadNow(c)
  \/ MarkReady(c)
  \/ Commit(c)

Next == Tick \/ \E c \in Calls : Start(c) \/ Proceed(c) \/ Fail(c)

Spec == Init /\ [][Next]_vars

-----------------------------------------------------------------------------
TypeOK ==
  /\ positions \in [Ids -> Positions \cup {None}]
  /\ events \in [Keys -> Events \cup {None}]
  /\ cursor \in Times \cup {None}
  /\ clock \in Times
  /\ tx \in [Calls -> Transactions \cup {None}]

(* A follower has at most one open position of a policy, token and quote,  *)
(* although two calls may both have found none (openPosition).             *)
OnePerSlot == \A slot \in Slots : \A i, j \in OpenIn(slot) : i = j

Of(id, type) == {k \in Keys : events[k] # None /\ events[k].position = id /\ events[k].type = type}

(* A position has one OPEN event, has one CLOSE event when it is closed    *)
(* and none before, and has realized what that event says: racing closes   *)
(* and retries settle it once (closePosition).                             *)
ClosedOnce == \A i \in Ids :
  IF positions[i] = None THEN \A type \in Operations : Of(i, type) = {}
  ELSE /\ Cardinality(Of(i, "OPEN")) = 1
       /\ IF positions[i].status = "OPEN" THEN Of(i, "CLOSE") = {} /\ positions[i].realized = 0
          ELSE \E k \in Keys : /\ Of(i, "CLOSE") = {k}
                               /\ events[k].realized = positions[i].realized
                               /\ events[k].at = positions[i].marked

(* No event of a position is dated before its opening or after its close,  *)
(* although a mark reads the clock before it has the position's row        *)
(* (markPosition, closePosition).                                          *)
EventsInOrder == \A k, l \in Keys :
  /\ events[k] # None /\ events[l] # None /\ events[k].position = events[l].position
  /\ events[k].type = "OPEN" \/ events[l].type = "CLOSE"
  => events[k].at <= events[l].at

(* Calls never wait for each other in a circle: the position, the key of   *)
(* the event and the accounting state are taken in this order              *)
(* (openPosition, markPosition, closePosition).                            *)
NoWaitingCircle == \A S \in (SUBSET Calls) \ {{}} :
  \E c \in S : \A d \in S \ {c} : ~Blocks(d, c)

(* "Accounting complete through" (public/account-wallet-portfolio.js): no  *)
(* event that appears later is older than that.                            *)
CompleteThrough ==
  [][\A k \in Keys : events[k] = None /\ events'[k] # None /\ cursor # None
       => cursor <= events'[k].at]_vars

=============================================================================
