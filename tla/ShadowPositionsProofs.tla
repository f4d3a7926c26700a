------------------------ MODULE ShadowPositionsProofs ------------------------
(***************************************************************************)
(* What the transactions of ShadowPositions keep for any number of calls,  *)
(* slots, positions and decisions.  The invariant says of each transaction *)
(* what it may have written where it stands (Legal), and of any two that   *)
(* they write different positions and, if one opens, different slots       *)
(* (Apart).                                                                *)
(***************************************************************************)
EXTENDS ShadowPositions, FiniteSetTheorems, TLAPS

Written == {"event", "now", "cursor", "commit"}

(* The locks a transaction holds are those of the statements behind it. *)
InOrder(t) ==
  /\ "row" \in t.wrote <=> t.pc \in Written
  /\ "event" \in t.wrote => t.pc \in {"now", "cursor", "commit"}
  /\ "cursor" \in t.wrote => t.pc = "commit"

(* The arguments of an operation, and the values it has read. *)
Supplied(t) ==
  /\ t.op = "OPEN" =>
       t.slot \in Slots /\ t.amount \in Amounts /\ t.quantity \in Quantities /\ t.pc # "row"
  /\ t.op # "OPEN" => t.id \in Ids /\ t.pc \notin {"slot", "insert"}
  /\ t.op = "MARK" => t.at \in Times
  /\ t.op = "CLOSE" => t.price \in Prices
  /\ t.pc \in Written \cup {"insert"} =>
       /\ t.id \in Ids /\ t.at \in Times /\ t.slot \in Slots
       /\ t.row \in Positions /\ t.row.slot = t.slot
  /\ t.pc \in {"cursor", "commit"} => t.ts \in Times

(* The position is new, or there and, once written, open in its slot. *)
Rightful(t) ==
  /\ t.op = "OPEN" /\ t.id # None => positions[t.id] = None
  /\ t.op # "OPEN" => positions[t.id] # None
  /\ t.pc \in Written =>
       IF t.op = "OPEN" THEN OpenIn(t.slot) = {} ELSE t.id \in OpenIn(t.slot)

Legal(t) == InOrder(t) /\ Supplied(t) /\ Rightful(t)

Apart(s, t) ==
  /\ s.op = "OPEN" \/ t.op = "OPEN" => s.id # t.id \/ s.id = None
  /\ s.pc \in Written /\ t.pc \in Written =>
       s.id # t.id /\ (s.op = "OPEN" \/ t.op = "OPEN" => s.slot # t.slot)

IInv ==
  /\ TypeOK
  /\ OnePerSlot
  /\ \A c \in Calls : tx[c] # None => Legal(tx[c])
  /\ \A c, d \in Calls : c # d /\ tx[c] # None /\ tx[d] # None => Apart(tx[c], tx[d])

-----------------------------------------------------------------------------
LEMMA ApartSymmetric == ASSUME NEW s, NEW t, Apart(s, t) PROVE Apart(t, s)
  BY DEF Apart

(* A step of one call that changes only its transaction. *)
LEMMA ContinueKeepsIInv ==
  ASSUME IInv, NEW c \in Calls, NEW t \in Transactions, Continue(c, t), Legal(t),
         \A d \in Calls \ {c} : tx[d] # None => Apart(tx[d], t)
  PROVE  IInv'
<1>1. tx \in [Calls -> Transactions \cup {None}]
  BY DEF IInv, TypeOK
<1>2. /\ tx' = [tx EXCEPT ![c] = t] /\ positions' = positions /\ events' = events
      /\ cursor' = cursor /\ clock' = clock
  BY DEF Continue
<1>3. TypeOK' /\ OnePerSlot'
  BY <1>1, <1>2 DEF IInv, TypeOK, OnePerSlot, OpenIn
<1>5. ASSUME NEW d \in Calls, tx'[d] # None
      PROVE  Legal(tx[d])'
  <2>1. CASE d = c
    BY <1>1, <1>2, <2>1 DEF Legal, InOrder, Supplied, Rightful, OpenIn
  <2>2. CASE d # c
    BY <1>1, <1>2, <1>5, <2>2 DEF IInv, Legal, InOrder, Supplied, Rightful, OpenIn
  <2> QED  BY <2>1, <2>2
<1>6. ASSUME NEW d \in Calls, NEW e \in Calls, d # e, tx'[d] # None, tx'[e] # None
      PROVE  Apart(tx'[d], tx'[e])
  BY <1>1, <1>2, <1>6, ApartSymmetric DEF IInv
<1> QED
  BY <1>3, <1>5, <1>6 DEF IInv, Apart

LEMMA RollbackKeepsIInv ==
  ASSUME IInv, NEW c \in Calls, Rollback(c)
  PROVE  IInv'
<1>1. tx \in [Calls -> Transactions \cup {None}]
  BY DEF IInv, TypeOK
<1>2. /\ tx' = [tx EXCEPT ![c] = None] /\ positions' = positions /\ events' = events
      /\ cursor' = cursor /\ clock' = clock
  BY DEF Rollback, Continue
<1>3. TypeOK' /\ OnePerSlot'
  BY <1>1, <1>2 DEF IInv, TypeOK, OnePerSlot, OpenIn
<1>4. \A d \in Calls : tx'[d] # None => d # c /\ tx'[d] = tx[d]
  BY <1>1, <1>2
<1>5. \A d \in Calls : tx'[d] # None => Legal(tx[d])'
  BY <1>2, <1>4 DEF IInv, Legal, InOrder, Supplied, Rightful, OpenIn
<1> QED
  BY <1>3, <1>4, <1>5 DEF IInv, Apart

(* A step that neither chooses nor writes a position. *)
LEMMA AdvanceKeepsIInv ==
  ASSUME IInv, NEW c \in Calls, NEW t \in Transactions, Continue(c, t), tx[c] # None,
         t.op = tx[c].op, t.id = tx[c].id, t.slot = tx[c].slot,
         t.pc \in Written => tx[c].pc \in Written, InOrder(t), Supplied(t)
  PROVE  IInv'
<1>1. Legal(tx[c])
  BY DEF IInv
<1>2. Legal(t)
  BY <1>1 DEF Legal, Rightful
<1>3. ASSUME NEW d \in Calls \ {c}, tx[d] # None
      PROVE  Apart(tx[d], t)
  <2>1. Apart(tx[d], tx[c])
    BY <1>3 DEF IInv
  <2> QED  BY <2>1 DEF Apart
<1> QED
  BY <1>2, <1>3, ContinueKeepsIInv

LEMMA StartKeepsIInv ==
  ASSUME IInv, NEW c \in Calls, Start(c)
  PROVE  IInv'
<1>1. clock \in Times /\ positions \in [Ids -> Positions \cup {None}]
  BY DEF IInv, TypeOK
<1>2. ASSUME NEW d \in Calls \ {c}, tx[d] # None
      PROVE  tx[d].op = "OPEN" /\ tx[d].id # None => positions[tx[d].id] = None
  BY <1>2 DEF IInv, Legal, Rightful
<1>3. PICK source \in Sources :
        \/ \E slot \in Slots, amount \in Amounts, quantity \in Quantities :
             StartOpen(c, slot, amount, quantity, source)
        \/ \E id \in Ids : StartMark(c, id, source)
        \/ \E id \in Ids, price \in Prices : StartClose(c, id, price, source)
  BY DEF Start
<1>4. ASSUME NEW slot \in Slots, NEW amount \in Amounts, NEW quantity \in Quantities,
             StartOpen(c, slot, amount, quantity, source)
      PROVE  IInv'
  <2> DEFINE t == Started("OPEN", None, slot, amount, quantity, None, source)
  <2>1. t \in Transactions
    BY DEF Started, Transactions, Then, Operations, Keys
  <2>2. /\ t.op = "OPEN" /\ t.id = None /\ t.pc = "key" /\ t.wrote = {}
        /\ t.slot = slot /\ t.amount = amount /\ t.quantity = quantity
    BY DEF Started, Then
  <2>3. Continue(c, t)
    BY <1>4 DEF StartOpen
  <2> HIDE DEF t
  <2>4. Legal(t)
    BY <2>2 DEF Legal, InOrder, Supplied, Rightful, Written
  <2>5. ASSUME NEW d \in Calls \ {c}, tx[d] # None
        PROVE  Apart(tx[d], t)
    BY <2>2 DEF Apart, Written
  <2> QED  BY <2>1, <2>3, <2>4, <2>5, ContinueKeepsIInv
<1>5. ASSUME NEW id \in Ids, StartMark(c, id, source)
      PROVE  IInv'
  <2> DEFINE t == Started("MARK", id, None, None, None, None, source)
  <2>1. t \in Transactions
    BY <1>1 DEF Started, Transactions, Then, Operations, Keys
  <2>2. /\ t.op = "MARK" /\ t.id = id /\ t.pc = "row" /\ t.wrote = {} /\ t.at = clock
    BY DEF Started, Then
  <2>3. Continue(c, t) /\ positions[id] # None
    BY <1>5 DEF StartMark
  <2> HIDE DEF t
  <2>4. Legal(t)
    BY <1>1, <2>2, <2>3 DEF Legal, InOrder, Supplied, Rightful, Written
  <2>5. ASSUME NEW d \in Calls \ {c}, tx[d] # None
        PROVE  Apart(tx[d], t)
    BY <1>2, <2>2, <2>3, <2>5 DEF Apart, Written
  <2> QED  BY <2>1, <2>3, <2>4, <2>5, ContinueKeepsIInv
<1>6. ASSUME NEW id \in Ids, NEW price \in Prices, StartClose(c, id, price, source)
      PROVE  IInv'
  <2> DEFINE t == Started("CLOSE", id, None, None, None, price, source)
  <2>1. t \in Transactions
    BY <1>1 DEF Started, Transactions, Then, Operations, Keys
  <2>2. /\ t.op = "CLOSE" /\ t.id = id /\ t.pc = "key" /\ t.wrote = {} /\ t.price = price
    BY DEF Started, Then
  <2>3. Continue(c, t) /\ positions[id] # None
    BY <1>6 DEF StartClose
  <2> HIDE DEF t
  <2>4. Legal(t)
    BY <1>1, <2>2, <2>3 DEF Legal, InOrder, Supplied, Rightful, Written
  <2>5. ASSUME NEW d \in Calls \ {c}, tx[d] # None
        PROVE  Apart(tx[d], t)
    BY <1>2, <2>2, <2>3, <2>5 DEF Apart, Written
  <2> QED  BY <2>1, <2>3, <2>4, <2>5, ContinueKeepsIInv
<1> QED
  BY <1>3, <1>4, <1>5, <1>6

LEMMA LookUpKeepsIInv ==
  ASSUME IInv, NEW c \in Calls, LookUpKey(c) \/ LookUpSlot(c)
  PROVE  IInv'
<1>1. /\ tx[c] # None /\ tx[c] \in Transactions /\ Legal(tx[c]) /\ clock \in Times
      /\ positions \in [Ids -> Positions \cup {None}]
  BY DEF LookUpKey, LookUpSlot, At, IInv, TypeOK
<1>2. CASE Rollback(c)
  BY <1>2, RollbackKeepsIInv
<1>3. CASE LookUpKey(c) /\ ~Rollback(c)
  <2> DEFINE t == [tx[c] EXCEPT !.pc = IF tx[c].op = "OPEN" THEN "slot" ELSE "row"]
  <2>1. Continue(c, t) /\ tx[c].pc = "key"
    BY <1>3 DEF LookUpKey, At
  <2>2. /\ t \in Transactions /\ t.op = tx[c].op /\ t.id = tx[c].id /\ t.slot = tx[c].slot
        /\ t.amount = tx[c].amount /\ t.quantity = tx[c].quantity /\ t.price = tx[c].price
        /\ t.at = tx[c].at /\ t.wrote = tx[c].wrote
        /\ t.pc = IF tx[c].op = "OPEN" THEN "slot" ELSE "row"
    BY <1>1 DEF Transactions
  <2> HIDE DEF t
  <2>3. InOrder(t) /\ Supplied(t) /\ t.pc \notin Written
    BY <1>1, <2>1, <2>2 DEF Legal, InOrder, Supplied, Written
  <2> QED  BY <1>1, <2>1, <2>2, <2>3, AdvanceKeepsIInv
<1>4. CASE LookUpSlot(c) /\ ~Rollback(c)
  <2>1. tx[c].pc = "slot"
    BY <1>4 DEF LookUpSlot, At
  <2>2. PICK i \in FreshIds :
          Continue(c, [tx[c] EXCEPT !.pc = "insert", !.at = clock, !.id = i, !.row = NewPosition(tx[c])])
    BY <1>4 DEF LookUpSlot
  <2> DEFINE t == [tx[c] EXCEPT !.pc = "insert", !.at = clock, !.id = i, !.row = NewPosition(tx[c])]
  <2>3. /\ tx[c].op = "OPEN" /\ tx[c].slot \in Slots /\ tx[c].amount \in Nat /\ tx[c].quantity \in Nat
        /\ tx[c].wrote \cap {"row", "event", "cursor"} = {}
    <3>1. tx[c].op \in Operations
      BY <1>1 DEF Transactions
    <3>2. tx[c].op = "OPEN"
      BY <1>1, <2>1, <3>1 DEF Legal, Supplied
    <3>3. tx[c].slot \in Slots /\ tx[c].amount \in Amounts /\ tx[c].quantity \in Quantities
      BY <1>1, <3>2 DEF Legal, Supplied
    <3>4. "row" \notin tx[c].wrote /\ "event" \notin tx[c].wrote /\ "cursor" \notin tx[c].wrote
      BY <1>1, <2>1 DEF Legal, InOrder, Written
    <3> QED  BY <3>2, <3>3, <3>4, AmountsPositive
  <2>4. NewPosition(tx[c]) \in Positions /\ NewPosition(tx[c]).slot = tx[c].slot
    BY <1>1, <2>3 DEF NewPosition, Positions
  <2>5. /\ t \in Transactions /\ t.op = "OPEN" /\ t.id = i /\ t.slot = tx[c].slot
        /\ t.amount = tx[c].amount /\ t.quantity = tx[c].quantity /\ t.row = NewPosition(tx[c])
        /\ t.at = clock /\ t.wrote = tx[c].wrote /\ t.pc = "insert"
    BY <1>1, <2>3, <2>4 DEF Transactions, FreshIds
  <2>6. Continue(c, t)
    BY <2>2
  <2> HIDE DEF t
  <2>7. i \in Ids /\ positions[i] = None /\ \A d \in Calls : tx[d] # None => tx[d].id # i
    BY DEF FreshIds
  <2>8. Legal(t)
    BY <1>1, <2>3, <2>4, <2>5, <2>7 DEF Legal, InOrder, Supplied, Rightful, Written
  <2>9. ASSUME NEW d \in Calls \ {c}, tx[d] # None
        PROVE  Apart(tx[d], t)
    BY <2>5, <2>7, <2>9 DEF Apart, Written
  <2> QED  BY <2>5, <2>6, <2>8, <2>9, ContinueKeepsIInv
<1> QED
  BY <1>2, <1>3, <1>4

(* Only one call has inserted into a slot, and none that has an open       *)
(* position.                                                               *)
LEMMA InsertKeepsIInv ==
  ASSUME IInv, NEW c \in Calls, InsertPosition(c), ~Rollback(c)
  PROVE  IInv'
<1> DEFINE t == [tx[c] EXCEPT !.pc = Then("OPEN", "insert"), !.wrote = tx[c].wrote \cup {"row"}]
<1>1. /\ tx[c] # None /\ tx[c] \in Transactions /\ Legal(tx[c]) /\ tx[c].pc = "insert"
      /\ Continue(c, t) /\ Free(c) /\ OpenIn(tx[c].slot) = {}
  BY DEF InsertPosition, At, IInv, TypeOK
<1>2. /\ t \in Transactions /\ t.op = tx[c].op /\ t.id = tx[c].id /\ t.slot = tx[c].slot
      /\ t.amount = tx[c].amount /\ t.quantity = tx[c].quantity /\ t.row = tx[c].row
      /\ t.at = tx[c].at /\ t.wrote = tx[c].wrote \cup {"row"} /\ t.pc = "event"
  <2>1. Then("OPEN", "insert") = "event"
    BY DEF Then
  <2>2. tx[c].wrote \cup {"row"} \in SUBSET {"row", "event", "cursor"}
    BY <1>1 DEF Transactions
  <2>3. t \in Transactions
    BY <1>1, <2>1, <2>2 DEF Transactions
  <2> QED  BY <1>1, <2>1, <2>3 DEF Transactions
<1> HIDE DEF t
<1>3. tx[c].op = "OPEN"
  BY <1>1 DEF Legal, Supplied
<1>4. Legal(t)
  BY <1>1, <1>2, <1>3 DEF Legal, InOrder, Supplied, Rightful, Written
<1>5. ASSUME NEW d \in Calls \ {c}, tx[d] # None
      PROVE  Apart(tx[d], t)
  <2>1. Apart(tx[d], tx[c]) /\ Legal(tx[d])
    BY <1>1, <1>5 DEF IInv
  <2>2. tx[d].pc \in Written => tx[d].slot # tx[c].slot /\ tx[d].id # None
    BY <1>1, <1>5, <2>1, NoneIsNoValue DEF Free, Blocks, Wrote, At, Legal, InOrder, Supplied
  <2> QED
    BY <1>2, <1>3, <2>1, <2>2 DEF Apart
<1> QED
  BY <1>1, <1>2, <1>4, <1>5, ContinueKeepsIInv

(* The row lock: a position is written by one call, and it is open.        *)
LEMMA UpdateKeepsIInv ==
  ASSUME IInv, NEW c \in Calls, UpdatePosition(c), ~Rollback(c)
  PROVE  IInv'
<1> DEFINE old == positions[tx[c].id]
           new == IF tx[c].op = "MARK" THEN Marked(old, tx[c].at) ELSE Closed(old, tx[c].price)
           at == IF tx[c].op = "MARK" THEN tx[c].at ELSE clock
           t == [tx[c] EXCEPT !.pc = Then(tx[c].op, "row"), !.slot = old.slot,
                              !.wrote = tx[c].wrote \cup {"row"}, !.at = at, !.row = new]
<1>1. /\ tx[c] # None /\ tx[c] \in Transactions /\ Legal(tx[c]) /\ tx[c].pc = "row"
      /\ Continue(c, t) /\ Free(c) /\ old.status # "CLOSED"
  BY DEF UpdatePosition, At, IInv, TypeOK, Refused
<1>2. /\ tx[c].op \in {"MARK", "CLOSE"} /\ tx[c].id \in Ids /\ old # None
      /\ (tx[c].op = "MARK" => tx[c].at \in Times) /\ (tx[c].op = "CLOSE" => tx[c].price \in Prices)
  BY <1>1 DEF Legal, Supplied, Rightful, Transactions, Operations
<1>3. old \in Positions /\ old.status = "OPEN" /\ tx[c].id \in OpenIn(old.slot) /\ clock \in Times
  BY <1>1, <1>2 DEF IInv, TypeOK, Positions, OpenIn
<1>4. at \in Times
  BY <1>2, <1>3
<1>5. new \in Positions /\ new.slot = old.slot
  <2>1. CASE tx[c].op = "MARK"
    BY <1>2, <1>3, <2>1 DEF Marked, Positions
  <2>2. CASE tx[c].op = "CLOSE"
    <3> DEFINE price == tx[c].price
    <3>1. price \in Nat
      BY <1>2, <2>2, AmountsPositive
    <3> HIDE DEF price
    <3>2. old.quantity * price \in Int /\ old.basis \in Int /\ old.realized \in Int
      BY <1>3, <3>1 DEF Positions
    <3>3. old.realized + Realized(old, price) \in Int
      BY <3>2 DEF Realized
    <3>4. Closed(old, price) \in Positions /\ Closed(old, price).slot = old.slot
      BY <1>3, <3>3 DEF Closed, Positions
    <3> QED  BY <2>2, <3>4 DEF price
  <2> QED  BY <1>2, <2>1, <2>2
<1> HIDE DEF new, at
<1>6. old.slot \in Slots
  BY <1>3 DEF Positions
<1>7. /\ t \in Transactions /\ t.op = tx[c].op /\ t.id = tx[c].id /\ t.slot = old.slot
      /\ t.price = tx[c].price /\ t.row = new /\ t.at = at
      /\ t.wrote = tx[c].wrote \cup {"row"} /\ t.pc = "event"
  <2>1. Then(tx[c].op, "row") = "event"
    BY DEF Then
  <2>2. tx[c].wrote \cup {"row"} \in SUBSET {"row", "event", "cursor"}
    BY <1>1 DEF Transactions
  <2>3. t \in Transactions
    BY <1>1, <1>4, <1>5, <1>6, <2>1, <2>2 DEF Transactions
  <2> QED  BY <1>1, <2>1, <2>3 DEF Transactions
<1> HIDE DEF t, old
<1>8. Legal(t)
  BY <1>1, <1>2, <1>3, <1>4, <1>5, <1>6, <1>7
     DEF Legal, InOrder, Supplied, Rightful, Written, old
<1>9. ASSUME NEW d \in Calls \ {c}, tx[d] # None
      PROVE  Apart(tx[d], t)
  <2>1. Apart(tx[d], tx[c]) /\ Legal(tx[d])
    BY <1>1, <1>9 DEF IInv
  <2>2. tx[d].pc \in Written => tx[d].id # tx[c].id
    BY <1>1, <1>9, <2>1 DEF Free, Blocks, HoldsRow, Wrote, At, Legal, InOrder
  <2>3. tx[d].pc \in Written /\ tx[d].op = "OPEN" => tx[d].slot # old.slot
    BY <1>3, <2>1 DEF Legal, Rightful
  <2> QED
    BY <1>2, <1>7, <2>1, <2>2, <2>3 DEF Apart
<1> QED
  BY <1>1, <1>7, <1>8, <1>9, ContinueKeepsIInv

LEMMA EventKeepsIInv ==
  ASSUME IInv, NEW c \in Calls, InsertEvent(c) \/ ReadNow(c) \/ MarkReady(c), ~Rollback(c)
  PROVE  IInv'
<1> DEFINE Same(t) ==
      /\ t \in Transactions /\ t.op = tx[c].op /\ t.id = tx[c].id /\ t.slot = tx[c].slot
      /\ t.amount = tx[c].amount /\ t.quantity = tx[c].quantity /\ t.price = tx[c].price
      /\ t.at = tx[c].at /\ t.row = tx[c].row
<1>1. tx[c] # None /\ tx[c] \in Transactions /\ Legal(tx[c]) /\ clock \in Times
  BY DEF InsertEvent, ReadNow, MarkReady, At, IInv, TypeOK
<1>2. ASSUME NEW t, Continue(c, t), Same(t), InOrder(t), {t.pc, tx[c].pc} \subseteq Written,
             t.pc \in {"cursor", "commit"} => t.ts \in Times
      PROVE  IInv'
  <2>1. Supplied(t)
    BY <1>1, <1>2 DEF Legal, Supplied, Written
  <2> QED  BY <1>1, <1>2, <2>1, AdvanceKeepsIInv
<1>3. ASSUME NEW wrote, wrote \in {tx[c].wrote, tx[c].wrote \cup {"event"}},
             tx[c].pc = "event", Continue(c, [tx[c] EXCEPT !.pc = "now", !.wrote = wrote])
      PROVE  IInv'
  <2> DEFINE t == [tx[c] EXCEPT !.pc = "now", !.wrote = wrote]
  <2>1. wrote \in SUBSET {"row", "event", "cursor"}
    BY <1>1, <1>3 DEF Transactions
  <2>2. Same(t) /\ t.pc = "now" /\ t.wrote = wrote
    <3>1. t \in Transactions
      BY <1>1, <2>1 DEF Transactions
    <3> QED  BY <1>1, <3>1 DEF Transactions
  <2>3. Continue(c, t)
    BY <1>3
  <2> HIDE DEF t
  <2>4. InOrder(t)
    BY <1>1, <1>3, <2>2 DEF Legal, InOrder, Written
  <2>5. {t.pc, tx[c].pc} \subseteq Written
    BY <1>3, <2>2 DEF Written
  <2> QED  BY <1>2, <2>2, <2>3, <2>4, <2>5
<1>4. CASE InsertEvent(c)
  <2>1. [tx[c] EXCEPT !.pc = "now"] = [tx[c] EXCEPT !.pc = "now", !.wrote = tx[c].wrote]
    BY <1>1 DEF Transactions
  <2> QED  BY <1>3, <1>4, <2>1 DEF InsertEvent, At, Then
<1>5. CASE ReadNow(c)
  <2> DEFINE t == [tx[c] EXCEPT !.pc = "cursor", !.ts = clock]
  <2>1. Continue(c, t) /\ tx[c].pc = "now"
    BY <1>5 DEF ReadNow, At
  <2>2. Same(t) /\ t.pc = "cursor" /\ t.wrote = tx[c].wrote /\ t.ts = clock
    <3>1. t \in Transactions
      BY <1>1 DEF Transactions
    <3> QED  BY <1>1, <3>1 DEF Transactions
  <2> HIDE DEF t
  <2>3. InOrder(t)
    BY <1>1, <2>1, <2>2 DEF Legal, InOrder, Written
  <2>4. {t.pc, tx[c].pc} \subseteq Written
    BY <2>1, <2>2 DEF Written
  <2> QED  BY <1>1, <1>2, <2>1, <2>2, <2>3, <2>4
<1>6. CASE MarkReady(c)
  <2> DEFINE wrote == tx[c].wrote \cup {"cursor"}
             t == [tx[c] EXCEPT !.pc = "commit", !.wrote = wrote]
  <2>1. Continue(c, t) /\ tx[c].pc = "cursor"
    BY <1>6 DEF MarkReady, At, Then
  <2>2. wrote \in SUBSET {"row", "event", "cursor"}
    BY <1>1 DEF Transactions
  <2> HIDE DEF wrote
  <2>3. Same(t) /\ t.pc = "commit" /\ t.wrote = wrote /\ t.ts = tx[c].ts
    <3>1. t \in Transactions
      BY <1>1, <2>2 DEF Transactions
    <3> QED  BY <1>1, <3>1 DEF Transactions
  <2> HIDE DEF t
  <2>4. InOrder(t)
    BY <1>1, <2>1, <2>3 DEF Legal, InOrder, Written, wrote
  <2>5. {t.pc, tx[c].pc} \subseteq Written /\ t.ts \in Times
    BY <1>1, <2>1, <2>3 DEF Written, Legal, Supplied
  <2> QED  BY <1>2, <2>1, <2>3, <2>4, <2>5
<1> QED
  BY <1>4, <1>5, <1>6

(* The event of a written position has a profit that is a number.          *)
LEMMA CommitWritesEvent ==
  ASSUME IInv, NEW c \in Calls, Commit(c)
  PROVE  NewEvent(tx[c]) \in Events
<1> DEFINE t == tx[c]
<1>1. t # None /\ t \in Transactions /\ Legal(t) /\ t.pc = "commit"
  BY DEF Commit, At, IInv, TypeOK
<1>2. positions \in [Ids -> Positions \cup {None}]
  BY DEF IInv, TypeOK
<1> HIDE DEF t
<1>3. /\ t.id \in Ids /\ t.at \in Times /\ t.op \in Operations
      /\ (t.op = "CLOSE" => t.price \in Prices) /\ (t.op # "OPEN" => t.id \in OpenIn(t.slot))
  BY <1>1, NoneIsNoValue DEF Legal, Supplied, Rightful, Written, Transactions
<1>4. NewEvent(t) \in Events
  <2>1. CASE t.op = "CLOSE"
    <3>1. positions[t.id] \in Positions
      BY <1>2, <1>3, <2>1 DEF OpenIn
    <3>2. positions[t.id].quantity \in Int /\ positions[t.id].basis \in Int
      BY <3>1 DEF Positions
    <3>3. t.price \in Int
      <4>1. t.price \in Prices
        BY <1>3, <2>1
      <4>2. \A p \in Prices : p \in Int
        BY AmountsPositive
      <4> QED  BY <4>1, <4>2
    <3>4. Realized(positions[t.id], t.price) \in Int
      BY <3>2, <3>3 DEF Realized
    <3> QED  BY <1>3, <2>1, <3>4 DEF NewEvent, Events
  <2>2. CASE t.op # "CLOSE"
    BY <1>3, <2>2 DEF NewEvent, Events
  <2> QED  BY <2>1, <2>2
<1> QED
  BY <1>4 DEF t

(* COMMIT of a written position, its event and the cursor. *)
LEMMA CommitKeepsIInv ==
  ASSUME IInv, NEW c \in Calls, Commit(c)
  PROVE  IInv'
<1> DEFINE t == tx[c]
<1>1. /\ t # None /\ t \in Transactions /\ Legal(t) /\ t.pc = "commit"
      /\ positions' = [positions EXCEPT ![t.id] = t.row]
      /\ events' = IF Wrote(c, "event") THEN [events EXCEPT ![t.key] = NewEvent(t)] ELSE events
      /\ cursor' = t.ts /\ tx' = [tx EXCEPT ![c] = None] /\ clock' = clock
  BY DEF Commit, At, IInv, TypeOK
<1>2. /\ positions \in [Ids -> Positions \cup {None}] /\ events \in [Keys -> Events \cup {None}]
      /\ clock \in Times /\ tx \in [Calls -> Transactions \cup {None}]
  BY DEF IInv, TypeOK
<1> HIDE DEF t
<1>3. /\ t.id \in Ids /\ t.row \in Positions /\ t.row.slot = t.slot /\ t.at \in Times /\ t.ts \in Times
      /\ t.op \in Operations /\ t.key \in Keys
      /\ (t.op = "CLOSE" => t.price \in Prices) /\ (t.op # "OPEN" => t.id \in OpenIn(t.slot))
      /\ (t.op = "OPEN" => OpenIn(t.slot) = {} /\ positions[t.id] = None)
  BY <1>1, NoneIsNoValue DEF Legal, Supplied, Rightful, Written, Transactions
<1>4. NewEvent(t) \in Events
  BY CommitWritesEvent DEF t
<1>5. TypeOK'
  BY <1>1, <1>2, <1>3, <1>4 DEF TypeOK
<1>6. \A i \in Ids : positions'[i] = IF i = t.id THEN t.row ELSE positions[i]
  BY <1>1, <1>2
<1>7. \A slot : OpenIn(slot)' \subseteq OpenIn(slot) \cup (IF slot = t.slot THEN {t.id} ELSE {})
  BY <1>3, <1>6 DEF OpenIn
<1>8. OnePerSlot'
  <2> SUFFICES ASSUME NEW slot \in Slots, NEW i \in OpenIn(slot)', NEW j \in OpenIn(slot)'
               PROVE  i = j
    BY DEF OnePerSlot
  <2>1. {i, j} \subseteq OpenIn(slot) \cup (IF slot = t.slot THEN {t.id} ELSE {})
    BY <1>7
  <2>2. \A k, l \in OpenIn(slot) : k = l
    BY DEF IInv, OnePerSlot
  <2> QED  BY <1>3, <2>1, <2>2
<1>9. ASSUME NEW d \in Calls, tx'[d] # None
      PROVE  Legal(tx[d])'
  <2>1. d # c /\ tx'[d] = tx[d] /\ tx[d] # None /\ Legal(tx[d]) /\ Apart(t, tx[d])
    BY <1>1, <1>2, <1>9 DEF IInv, t
  <2>2. Rightful(tx[d])'
    <3> DEFINE s == tx[d]
    <3>1. /\ s.op = "OPEN" /\ s.id # None => positions[s.id] = None /\ s.id # t.id
          /\ s.op # "OPEN" => s.id \in Ids /\ positions[s.id] # None
      BY <2>1 DEF Legal, Rightful, Supplied, Apart
    <3>2. s.op = "OPEN" /\ s.id # None => positions'[s.id] = None
      BY <1>1, <1>2, <3>1
    <3>3. s.op # "OPEN" => positions'[s.id] # None
      BY <1>3, <1>6, <3>1, NoneIsNoValue
    <3>4. CASE s.pc \in Written /\ s.op = "OPEN"
      <4>1. OpenIn(s.slot) = {} /\ s.slot # t.slot
        BY <1>1, <2>1, <3>4 DEF Legal, Rightful, Apart, Written
      <4>2. OpenIn(s.slot)' = {}
        BY <1>3, <1>6, <2>1, <4>1 DEF OpenIn
      <4> QED  BY <2>1, <3>2, <3>4, <4>2 DEF Rightful, OpenIn
    <3>5. CASE s.pc \in Written /\ s.op # "OPEN"
      <4>1. s.id \in OpenIn(s.slot) /\ s.id # t.id
        BY <1>1, <2>1, <3>5 DEF Legal, Rightful, Apart, Written
      <4>2. s.id \in Ids /\ positions'[s.id] = positions[s.id]
        BY <1>6, <4>1 DEF OpenIn
      <4> QED  BY <2>1, <3>3, <3>5, <4>1, <4>2 DEF Rightful, OpenIn
    <3>6. CASE s.pc \notin Written
      BY <2>1, <3>2, <3>3, <3>6 DEF Rightful
    <3> QED  BY <3>4, <3>5, <3>6
  <2> QED  BY <2>1, <2>2 DEF Legal, InOrder, Supplied
<1>10. ASSUME NEW d \in Calls, NEW e \in Calls, d # e, tx'[d] # None, tx'[e] # None
       PROVE  Apart(tx'[d], tx'[e])
  BY <1>1, <1>2, <1>10 DEF IInv
<1> QED
  BY <1>5, <1>8, <1>9, <1>10 DEF IInv, Apart

LEMMA InitImpliesIInv == Init => IInv
<1> SUFFICES ASSUME Init PROVE IInv
  OBVIOUS
<1>1. TypeOK
  BY BoundsNat DEF Init, TypeOK, Times
<1>2. OnePerSlot
  BY DEF Init, OnePerSlot, OpenIn
<1> QED
  BY <1>1, <1>2 DEF Init, IInv

(* Every step of every call keeps the invariant. *)
LEMMA NextKeepsIInv == IInv /\ [Next]_vars => IInv'
<1> SUFFICES ASSUME IInv, [Next]_vars PROVE IInv'
  OBVIOUS
<1>1. CASE UNCHANGED vars
  BY <1>1 DEF vars, IInv, TypeOK, OnePerSlot, OpenIn, Legal, InOrder, Supplied, Rightful, Apart
<1>2. CASE Tick
  <2>1. clock' \in Times
    BY <1>2, BoundsNat DEF Tick, IInv, TypeOK, Times
  <2> QED
    BY <1>2, <2>1 DEF Tick, IInv, TypeOK, OnePerSlot, OpenIn, Legal, InOrder, Supplied, Rightful, Apart
<1>3. ASSUME NEW c \in Calls, Start(c) PROVE IInv'
  BY <1>3, StartKeepsIInv
<1>4. ASSUME NEW c \in Calls, Proceed(c) PROVE IInv'
  <2>1. CASE Rollback(c)
    BY <2>1, RollbackKeepsIInv
  <2> QED
    BY <1>4, <2>1, LookUpKeepsIInv, InsertKeepsIInv, UpdateKeepsIInv, EventKeepsIInv,
       CommitKeepsIInv DEF Proceed
<1>5. ASSUME NEW c \in Calls, Fail(c) PROVE IInv'
  BY <1>5, RollbackKeepsIInv DEF Fail
<1> QED
  BY <1>1, <1>2, <1>3, <1>4, <1>5 DEF Next

LEMMA SpecKeepsIInv == Spec => []IInv
  BY InitImpliesIInv, NextKeepsIInv, PTL DEF Spec

-----------------------------------------------------------------------------
(* Positions, events and transactions keep their types; a quantity and a   *)
(* cost are never negative (migrations/020).                               *)
THEOREM TypeCorrect == Spec => []TypeOK
<1>1. IInv => TypeOK
  BY DEF IInv
<1> QED  BY <1>1, SpecKeepsIInv, PTL

(* At most one open position of a policy, token and quote, for any number  *)
(* of racing calls (openPosition).                                         *)
THEOREM SlotsHoldOne == Spec => []OnePerSlot
<1>1. IInv => OnePerSlot
  BY DEF IInv
<1> QED  BY <1>1, SpecKeepsIInv, PTL

(* No set of calls waits in a circle: of any, one that stands furthest in  *)
(* the order of the statements waits for none of the others.               *)
THEOREM NeverWaitInCircle == Spec => []NoWaitingCircle
<1>1. ASSUME IInv PROVE NoWaitingCircle
  <2> SUFFICES ASSUME NEW S \in SUBSET Calls, S # {}
               PROVE  \E c \in S : \A d \in S \ {c} : ~Blocks(d, c)
    BY DEF NoWaitingCircle
  <2> DEFINE Late(c, pcs) == tx[c] # None /\ tx[c].pc \in pcs
  <2>1. ASSUME NEW c \in Calls, NEW d \in Calls, Blocks(d, c)
        PROVE  \/ Late(c, {"slot", "insert", "row"}) /\ Late(d, Written)
               \/ Late(c, {"event"}) /\ Late(d, {"now", "cursor", "commit"})
               \/ Late(c, {"cursor"}) /\ Late(d, {"commit"})
    BY <1>1, <2>1 DEF Blocks, HoldsRow, Wrote, At, IInv, Legal, InOrder
  <2>2. CASE \E c \in S : Late(c, {"commit"})
    BY <2>1, <2>2
  <2>3. CASE ~(\E c \in S : Late(c, {"commit"})) /\ \E c \in S : Late(c, {"now", "cursor"})
    BY <2>1, <2>3
  <2>4. CASE ~(\E c \in S : Late(c, {"now", "cursor", "commit"})) /\ \E c \in S : Late(c, {"event"})
    BY <2>1, <2>4
  <2>5. CASE ~(\E c \in S : Late(c, Written))
    BY <2>1, <2>5 DEF Written
  <2> QED
    BY <2>2, <2>3, <2>4, <2>5 DEF Written
<1> QED  BY <1>1, SpecKeepsIInv, PTL

-----------------------------------------------------------------------------
(* What is settled.  An event tells what its position has become, a        *)
(* position has the events that made it, and a transaction that holds its  *)
(* row will add what follows from them.                                    *)
Tells(k) ==
  /\ positions[events[k].position] # None
  /\ events[k].at <= clock
  /\ events[k].type = "CLOSE" =>
       /\ positions[events[k].position].status = "CLOSED"
       /\ positions[events[k].position].realized = events[k].realized
       /\ positions[events[k].position].marked = events[k].at

Alike(k, l) ==
  /\ events[k] # None /\ events[l] # None
  /\ events[k].position = events[l].position /\ events[k].type = events[l].type
  /\ events[k].type # "MARK"

IsOf(k, id, type) == events[k] # None /\ events[k].position = id /\ events[k].type = type

Made(i) ==
  /\ \E k \in Keys : IsOf(k, i, "OPEN")
  /\ IF positions[i].status = "OPEN" THEN positions[i].realized = 0
     ELSE \E k \in Keys : IsOf(k, i, "CLOSE")

Holding(t) ==
  /\ t.at <= clock
  /\ t.op # "CLOSE" => t.row.status = "OPEN" /\ t.row.realized = 0
  /\ t.op = "CLOSE" =>
       /\ t.row.status = "CLOSED" /\ t.row.marked = t.at
       /\ t.row.realized = Realized(positions[t.id], t.price)
       /\ \A k \in Keys : events[k] # None /\ events[k].position = t.id => events[k].at <= t.at

Settling(t) ==
  /\ "event" \in t.wrote => events[t.key] = None
  /\ t.op # "MARK" /\ t.pc \in {"now", "cursor", "commit"} => "event" \in t.wrote
  /\ t.op = "MARK" => t.at <= clock /\ \A k \in Keys : IsOf(k, t.id, "OPEN") => events[k].at <= t.at
  /\ t.op = "OPEN" /\ t.pc = "insert" => t.at <= clock /\ t.row.status = "OPEN" /\ t.row.realized = 0
  /\ t.pc \in Written => Holding(t)

KeysApart == \A c, d \in Calls : c # d /\ Wrote(c, "event") /\ Wrote(d, "event") => tx[c].key # tx[d].key

History ==
  /\ \A k \in Keys : events[k] # None => Tells(k)
  /\ \A k, l \in Keys : Alike(k, l) => k = l
  /\ \A i \in Ids : positions[i] # None => Made(i)
  /\ EventsInOrder
  /\ \A c \in Calls : tx[c] # None => Settling(tx[c])
  /\ KeysApart

LEMMA ContinueKeepsHistory ==
  ASSUME IInv, History, NEW c \in Calls, NEW t \in Transactions \cup {None}, Continue(c, t),
         t # None => Settling(t),
         t # None /\ "event" \in t.wrote => \A d \in Calls \ {c} : Wrote(d, "event") => tx[d].key # t.key
  PROVE  History'
<1>1. /\ tx \in [Calls -> Transactions \cup {None}] /\ tx' = [tx EXCEPT ![c] = t]
      /\ positions' = positions /\ events' = events /\ clock' = clock
  BY DEF IInv, TypeOK, Continue
<1>2. \A d \in Calls : tx'[d] = IF d = c THEN t ELSE tx[d]
  BY <1>1
<1>3. ASSUME NEW d \in Calls, tx'[d] # None
      PROVE  Settling(tx[d])'
  <2>1. Settling(tx'[d])
    BY <1>2, <1>3 DEF History
  <2> QED  BY <1>1, <2>1 DEF Settling, Holding, IsOf
<1>4. KeysApart'
  BY <1>2 DEF History, KeysApart, Wrote
<1>5. /\ (\A k \in Keys : events[k] # None => Tells(k))'
      /\ (\A k, l \in Keys : Alike(k, l) => k = l)'
      /\ (\A i \in Ids : positions[i] # None => Made(i))'
      /\ EventsInOrder'
  BY <1>1 DEF History, Tells, Alike, Made, IsOf, EventsInOrder
<1> QED
  BY <1>3, <1>4, <1>5 DEF History

LEMMA RollbackKeepsHistory ==
  ASSUME IInv, History, NEW c \in Calls, Rollback(c)
  PROVE  History'
  BY ContinueKeepsHistory DEF Rollback

LEMMA StartKeepsHistory ==
  ASSUME IInv, History, NEW c \in Calls, Start(c)
  PROVE  History'
<1>1. clock \in Times /\ clock \in Int
  BY BoundsNat DEF IInv, TypeOK, Times
<1>2. ASSUME NEW op \in Operations, NEW id \in Ids \cup {None}, NEW slot \in Slots \cup {None},
             NEW amount \in Amounts \cup {None}, NEW quantity \in Quantities \cup {None},
             NEW price \in Prices \cup {None}, NEW source \in Sources, op # "OPEN" => id \in Ids,
             Continue(c, Started(op, id, slot, amount, quantity, price, source))
      PROVE  History'
  <2> DEFINE t == Started(op, id, slot, amount, quantity, price, source)
  <2>1. t \in Transactions
    BY <1>1, <1>2 DEF Started, Transactions, Then, Operations, Keys
  <2>2. t.op = op /\ t.pc \in {"key", "row"} /\ t.wrote = {} /\ (op = "MARK" => t.at = clock)
    BY DEF Started, Then
  <2>3. Continue(c, t)
    BY <1>2
  <2> HIDE DEF t
  <2>4. \A k \in Keys : events[k] # None => events[k].at <= clock
    BY DEF History, Tells
  <2>5. Settling(t)
    BY <1>1, <2>2, <2>4 DEF Settling, Written, IsOf
  <2> QED  BY <2>1, <2>2, <2>3, <2>5, ContinueKeepsHistory
<1>3. Operations = {"OPEN", "MARK", "CLOSE"}
  BY DEF Operations
<1> QED
  BY <1>2, <1>3 DEF Start, StartOpen, StartMark, StartClose

LEMMA LookUpKeepsHistory ==
  ASSUME IInv, History, NEW c \in Calls, LookUpKey(c) \/ LookUpSlot(c), ~Rollback(c)
  PROVE  History'
<1>1. /\ tx[c] # None /\ tx[c] \in Transactions /\ Legal(tx[c]) /\ Settling(tx[c]) /\ clock \in Times
      /\ clock \in Int
  <2>1. tx[c] # None /\ tx[c] \in Transactions /\ Legal(tx[c]) /\ Settling(tx[c]) /\ clock \in Times
    BY DEF LookUpKey, LookUpSlot, At, IInv, History, TypeOK
  <2> QED  BY <2>1, BoundsNat DEF Times
<1>2. CASE LookUpKey(c)
  <2> DEFINE t == [tx[c] EXCEPT !.pc = IF tx[c].op = "OPEN" THEN "slot" ELSE "row"]
  <2>1. Continue(c, t) /\ tx[c].pc = "key"
    BY <1>2 DEF LookUpKey, At
  <2>2. /\ t \in Transactions /\ t.op = tx[c].op /\ t.id = tx[c].id /\ t.key = tx[c].key
        /\ t.at = tx[c].at /\ t.wrote = tx[c].wrote /\ t.pc \in {"slot", "row"}
    BY <1>1 DEF Transactions
  <2> HIDE DEF t
  <2>3. "event" \notin t.wrote
    BY <1>1, <2>1, <2>2 DEF Legal, InOrder
  <2>4. Settling(t)
    BY <1>1, <2>1, <2>2, <2>3 DEF Settling, Written
  <2> QED  BY <2>1, <2>2, <2>3, <2>4, ContinueKeepsHistory
<1>3. CASE LookUpSlot(c)
  <2>1. tx[c].pc = "slot"
    BY <1>3 DEF LookUpSlot, At
  <2>2. PICK i \in FreshIds :
          Continue(c, [tx[c] EXCEPT !.pc = "insert", !.at = clock, !.id = i, !.row = NewPosition(tx[c])])
    BY <1>3 DEF LookUpSlot
  <2> DEFINE t == [tx[c] EXCEPT !.pc = "insert", !.at = clock, !.id = i, !.row = NewPosition(tx[c])]
  <2>3. tx[c].op = "OPEN" /\ tx[c].slot \in Slots /\ tx[c].amount \in Nat /\ tx[c].quantity \in Nat
    <3>1. tx[c].op = "OPEN"
      BY <1>1, <2>1 DEF Legal, Supplied
    <3> QED  BY <1>1, <3>1, AmountsPositive DEF Legal, Supplied
  <2>4. /\ NewPosition(tx[c]) \in Positions /\ NewPosition(tx[c]).status = "OPEN"
        /\ NewPosition(tx[c]).realized = 0
    BY <1>1, <2>3 DEF NewPosition, Positions
  <2>5. /\ t \in Transactions /\ t.op = "OPEN" /\ t.row = NewPosition(tx[c])
        /\ t.at = clock /\ t.wrote = tx[c].wrote /\ t.pc = "insert"
    BY <1>1, <2>3, <2>4 DEF Transactions, FreshIds
  <2>6. Continue(c, t)
    BY <2>2
  <2> HIDE DEF t
  <2>7. "event" \notin t.wrote
    BY <1>1, <2>1, <2>5 DEF Legal, InOrder
  <2>8. Settling(t)
    BY <1>1, <2>4, <2>5, <2>7 DEF Settling, Written
  <2> QED  BY <2>5, <2>6, <2>7, <2>8, ContinueKeepsHistory
<1> QED
  BY <1>2, <1>3

LEMMA InsertKeepsHistory ==
  ASSUME IInv, History, NEW c \in Calls, InsertPosition(c), ~Rollback(c)
  PROVE  History'
<1> DEFINE t == [tx[c] EXCEPT !.pc = Then("OPEN", "insert"), !.wrote = tx[c].wrote \cup {"row"}]
<1>1. /\ tx[c] # None /\ tx[c] \in Transactions /\ Legal(tx[c]) /\ Settling(tx[c]) /\ tx[c].pc = "insert"
      /\ Continue(c, t)
  BY DEF InsertPosition, At, IInv, History, TypeOK
<1>2. /\ t \in Transactions /\ t.op = tx[c].op /\ t.row = tx[c].row /\ t.key = tx[c].key
      /\ t.at = tx[c].at /\ t.wrote = tx[c].wrote \cup {"row"} /\ t.pc = "event"
  <2>1. Then("OPEN", "insert") = "event"
    BY DEF Then
  <2>2. tx[c].wrote \cup {"row"} \in SUBSET {"row", "event", "cursor"}
    BY <1>1 DEF Transactions
  <2>3. t \in Transactions
    BY <1>1, <2>1, <2>2 DEF Transactions
  <2> QED  BY <1>1, <2>1, <2>3 DEF Transactions
<1> HIDE DEF t
<1>3. tx[c].op = "OPEN" /\ "event" \notin t.wrote
  BY <1>1, <1>2 DEF Legal, InOrder, Supplied
<1>4. Settling(t)
  BY <1>1, <1>2, <1>3 DEF Settling, Holding, Written
<1> QED
  BY <1>1, <1>2, <1>3, <1>4, ContinueKeepsHistory

(* The position it locks is open and has realized nothing, and whatever is *)
(* known of it is not of later than now.                                   *)
LEMMA UpdateKeepsHistory ==
  ASSUME IInv, History, NEW c \in Calls, UpdatePosition(c), ~Rollback(c)
  PROVE  History'
<1> DEFINE old == positions[tx[c].id]
           new == IF tx[c].op = "MARK" THEN Marked(old, tx[c].at) ELSE Closed(old, tx[c].price)
           at == IF tx[c].op = "MARK" THEN tx[c].at ELSE clock
           t == [tx[c] EXCEPT !.pc = Then(tx[c].op, "row"), !.slot = old.slot,
                              !.wrote = tx[c].wrote \cup {"row"}, !.at = at, !.row = new]
<1>1. /\ tx[c] # None /\ tx[c] \in Transactions /\ Legal(tx[c]) /\ Settling(tx[c]) /\ tx[c].pc = "row"
      /\ Continue(c, t) /\ old.status # "CLOSED"
  BY DEF UpdatePosition, At, IInv, History, TypeOK, Refused
<1>2. /\ tx[c].op \in {"MARK", "CLOSE"} /\ tx[c].id \in Ids /\ old # None
      /\ (tx[c].op = "MARK" => tx[c].at \in Times) /\ (tx[c].op = "CLOSE" => tx[c].price \in Prices)
  BY <1>1 DEF Legal, Supplied, Rightful, Transactions, Operations
<1>3. old \in Positions /\ old.status = "OPEN" /\ old.realized = 0 /\ clock \in Times /\ clock \in Int
  BY <1>1, <1>2, BoundsNat DEF IInv, TypeOK, Positions, History, Made, Times
<1>4. at \in Times /\ at <= clock
  BY <1>1, <1>2, <1>3 DEF Settling
<1>5. /\ new \in Positions
      /\ tx[c].op = "MARK" => new.status = "OPEN" /\ new.realized = 0
      /\ tx[c].op = "CLOSE" =>
           new.status = "CLOSED" /\ new.marked = clock /\ new.realized = Realized(old, tx[c].price)
  <2>1. CASE tx[c].op = "MARK"
    BY <1>2, <1>3, <2>1 DEF Marked, Positions
  <2>2. CASE tx[c].op = "CLOSE"
    <3> DEFINE price == tx[c].price
    <3>1. price \in Nat
      BY <1>2, <2>2, AmountsPositive
    <3> HIDE DEF price
    <3>2. old.quantity * price \in Int /\ old.basis \in Int
      BY <1>3, <3>1 DEF Positions
    <3>3. Realized(old, price) \in Int /\ old.realized + Realized(old, price) = Realized(old, price)
      BY <1>3, <3>2 DEF Realized
    <3>4. /\ Closed(old, price) \in Positions /\ Closed(old, price).status = "CLOSED"
          /\ Closed(old, price).marked = clock /\ Closed(old, price).realized = Realized(old, price)
      BY <1>3, <3>3 DEF Closed, Positions
    <3> QED  BY <2>2, <3>4 DEF price
  <2> QED  BY <1>2, <2>1, <2>2
<1> HIDE DEF new, at
<1>6. /\ t \in Transactions /\ t.op = tx[c].op /\ t.id = tx[c].id /\ t.key = tx[c].key
      /\ t.price = tx[c].price /\ t.row = new /\ t.at = at
      /\ t.wrote = tx[c].wrote \cup {"row"} /\ t.pc = "event"
  <2>1. Then(tx[c].op, "row") = "event"
    BY DEF Then
  <2>2. tx[c].wrote \cup {"row"} \in SUBSET {"row", "event", "cursor"}
    BY <1>1 DEF Transactions
  <2>3. old.slot \in Slots
    BY <1>3 DEF Positions
  <2>4. t \in Transactions
    BY <1>1, <1>4, <1>5, <2>1, <2>2, <2>3 DEF Transactions
  <2> QED  BY <1>1, <2>1, <2>4 DEF Transactions
<1> HIDE DEF t
<1>7. "event" \notin t.wrote
  BY <1>1, <1>6 DEF Legal, InOrder
<1>8. \A k \in Keys : events[k] # None => events[k].at <= clock
  BY DEF History, Tells
<1>9. tx[c].op = "CLOSE" => at = clock
  BY DEF at
<1>10. tx[c].op = "MARK" => at = tx[c].at
  BY DEF at
<1>11. Settling(t)
  <2>1. Holding(t)
    BY <1>2, <1>4, <1>5, <1>6, <1>8, <1>9 DEF Holding
  <2> QED  BY <1>1, <1>2, <1>4, <1>6, <1>7, <1>10, <2>1 DEF Settling, Written
<1> QED
  BY <1>1, <1>6, <1>7, <1>11, ContinueKeepsHistory

(* Two calls with one key: the second waits until the first has committed. *)
LEMMA EventKeepsHistory ==
  ASSUME IInv, History, NEW c \in Calls, InsertEvent(c) \/ ReadNow(c) \/ MarkReady(c), ~Rollback(c)
  PROVE  History'
<1> DEFINE Same(t) ==
      /\ t \in Transactions /\ t.op = tx[c].op /\ t.id = tx[c].id /\ t.key = tx[c].key
      /\ t.price = tx[c].price /\ t.at = tx[c].at /\ t.row = tx[c].row
<1>1. tx[c] # None /\ tx[c] \in Transactions /\ Legal(tx[c]) /\ Settling(tx[c]) /\ clock \in Times
  BY DEF InsertEvent, ReadNow, MarkReady, At, IInv, TypeOK, History
<1>2. ASSUME NEW t, Continue(c, t), Same(t), {t.pc, tx[c].pc} \subseteq Written, t.pc # "event",
             "event" \in t.wrote => events[t.key] = None,
             t.op # "MARK" => "event" \in t.wrote,
             "event" \in t.wrote /\ "event" \notin tx[c].wrote =>
               \A d \in Calls \ {c} : Wrote(d, "event") => tx[d].key # t.key
      PROVE  History'
  <2>1. Holding(t)
    BY <1>1, <1>2 DEF Settling, Holding
  <2>2. Settling(t)
    BY <1>1, <1>2, <2>1 DEF Settling, Written
  <2>3. "event" \in t.wrote => \A d \in Calls \ {c} : Wrote(d, "event") => tx[d].key # t.key
    BY <1>1, <1>2 DEF History, KeysApart, Wrote
  <2> QED  BY <1>2, <2>2, <2>3, ContinueKeepsHistory
<1>3. ASSUME NEW wrote, tx[c].pc = "event", Continue(c, [tx[c] EXCEPT !.pc = "now", !.wrote = wrote]),
             \/ /\ wrote = tx[c].wrote \cup {"event"} /\ events[tx[c].key] = None
                /\ \A d \in Calls \ {c} : Wrote(d, "event") => tx[d].key # tx[c].key
             \/ wrote = tx[c].wrote /\ tx[c].op = "MARK"
      PROVE  History'
  <2> DEFINE t == [tx[c] EXCEPT !.pc = "now", !.wrote = wrote]
  <2>1. wrote \in SUBSET {"row", "event", "cursor"}
    BY <1>1, <1>3 DEF Transactions
  <2>2. Same(t) /\ t.pc = "now" /\ t.wrote = wrote
    <3>1. t \in Transactions
      BY <1>1, <2>1 DEF Transactions
    <3> QED  BY <1>1, <3>1 DEF Transactions
  <2>3. Continue(c, t)
    BY <1>3
  <2> HIDE DEF t
  <2>4. "event" \notin tx[c].wrote
    BY <1>1, <1>3 DEF Legal, InOrder
  <2>5. {t.pc, tx[c].pc} \subseteq Written
    BY <1>3, <2>2 DEF Written
  <2> QED  BY <1>2, <1>3, <2>2, <2>3, <2>4, <2>5
<1>4. CASE InsertEvent(c)
  <2>1. [tx[c] EXCEPT !.pc = "now"] = [tx[c] EXCEPT !.pc = "now", !.wrote = tx[c].wrote]
    BY <1>1 DEF Transactions
  <2>2. \A d \in Calls \ {c} : Wrote(d, "event") => tx[d].key # tx[c].key
    BY <1>4 DEF InsertEvent, Free, Blocks
  <2> QED  BY <1>3, <1>4, <2>1, <2>2 DEF InsertEvent, At, Then
<1>5. CASE ReadNow(c)
  <2> DEFINE t == [tx[c] EXCEPT !.pc = "cursor", !.ts = clock]
  <2>1. Continue(c, t) /\ tx[c].pc = "now"
    BY <1>5 DEF ReadNow, At
  <2>2. Same(t) /\ t.pc = "cursor" /\ t.wrote = tx[c].wrote
    <3>1. t \in Transactions
      BY <1>1 DEF Transactions
    <3> QED  BY <1>1, <3>1 DEF Transactions
  <2> HIDE DEF t
  <2>3. {t.pc, tx[c].pc} \subseteq Written
    BY <2>1, <2>2 DEF Written
  <2>4. t.op # "MARK" => "event" \in t.wrote
    BY <1>1, <2>1, <2>2 DEF Settling
  <2>5. "event" \in t.wrote => events[t.key] = None
    BY <1>1, <2>2 DEF Settling
  <2> QED  BY <1>2, <2>1, <2>2, <2>3, <2>4, <2>5
<1>6. CASE MarkReady(c)
  <2> DEFINE wrote == tx[c].wrote \cup {"cursor"}
             t == [tx[c] EXCEPT !.pc = "commit", !.wrote = wrote]
  <2>1. Continue(c, t) /\ tx[c].pc = "cursor"
    BY <1>6 DEF MarkReady, At, Then
  <2>2. wrote \in SUBSET {"row", "event", "cursor"} /\ ("event" \in wrote <=> "event" \in tx[c].wrote)
    BY <1>1 DEF Transactions
  <2> HIDE DEF wrote
  <2>3. Same(t) /\ t.pc = "commit" /\ t.wrote = wrote
    <3>1. t \in Transactions
      BY <1>1, <2>2 DEF Transactions
    <3> QED  BY <1>1, <3>1 DEF Transactions
  <2> HIDE DEF t
  <2>4. {t.pc, tx[c].pc} \subseteq Written
    BY <2>1, <2>3 DEF Written
  <2>5. t.op # "MARK" => "event" \in t.wrote
    BY <1>1, <2>1, <2>2, <2>3 DEF Settling
  <2>6. "event" \in t.wrote => events[t.key] = None
    BY <1>1, <2>2, <2>3 DEF Settling
  <2> QED  BY <1>2, <2>1, <2>2, <2>3, <2>4, <2>5, <2>6
<1> QED
  BY <1>4, <1>5, <1>6

(* The event a commit adds is the first of its kind, and the last but for  *)
(* marks; that of a close leaves the position as it says.                  *)
LEMMA CommitKeepsHistory ==
  ASSUME IInv, History, NEW c \in Calls, Commit(c)
  PROVE  History'
<1> DEFINE t == tx[c]
           e == NewEvent(t)
<1>1. /\ t # None /\ t \in Transactions /\ Legal(t) /\ Settling(t) /\ t.pc = "commit"
      /\ positions' = [positions EXCEPT ![t.id] = t.row]
      /\ events' = IF Wrote(c, "event") THEN [events EXCEPT ![t.key] = e] ELSE events
      /\ tx' = [tx EXCEPT ![c] = None] /\ clock' = clock
      /\ Wrote(c, "event") <=> "event" \in t.wrote
  BY DEF Commit, At, IInv, TypeOK, History, Wrote
<1>2. /\ positions \in [Ids -> Positions \cup {None}] /\ events \in [Keys -> Events \cup {None}]
      /\ tx \in [Calls -> Transactions \cup {None}]
      /\ \A k \in Keys : events[k] # None => events[k] \in Events
  BY DEF IInv, TypeOK
<1>3. \A d \in Calls \ {c} : tx[d] # None =>
        Apart(t, tx[d]) /\ Legal(tx[d]) /\ Settling(tx[d]) /\ (Wrote(d, "event") /\ Wrote(c, "event") => tx[d].key # t.key)
  BY <1>1 DEF IInv, History, KeysApart
<1>4. e.type = t.op /\ e.position = t.id /\ e.at = t.at
      /\ (t.op = "CLOSE" => e.realized = Realized(positions[t.id], t.price))
  BY DEF NewEvent
<1> HIDE DEF t, e
<1>5. /\ t.id \in Ids /\ t.row \in Positions /\ t.row # None /\ t.at \in Times /\ t.at <= clock
      /\ t.op \in Operations /\ t.key \in Keys /\ Holding(t)
      /\ (t.op # "OPEN" => t.id \in OpenIn(t.slot)) /\ (t.op = "OPEN" => positions[t.id] = None)
      /\ (t.op # "MARK" => "event" \in t.wrote) /\ ("event" \in t.wrote => events[t.key] = None)
      /\ (t.op = "MARK" => \A k \in Keys : IsOf(k, t.id, "OPEN") => events[k].at <= t.at)
  BY <1>1, NoneIsNoValue DEF Legal, Supplied, Rightful, Written, Transactions, Settling, Holding
<1>6. e # None
  BY CommitWritesEvent, NoneIsNoValue DEF t, e
<1>7. /\ \A k \in Keys : events'[k] = IF "event" \in t.wrote /\ k = t.key THEN e ELSE events[k]
      /\ \A i \in Ids : positions'[i] = IF i = t.id THEN t.row ELSE positions[i]
      /\ \A d \in Calls : tx'[d] = IF d = c THEN None ELSE tx[d]
  BY <1>1, <1>2, <1>5
(* Nothing is known of the position but its opening and its marks.         *)
<1>8. ASSUME NEW k \in Keys, events[k] # None, events[k].position = t.id
      PROVE  t.op # "OPEN" /\ events[k].type # "CLOSE"
  BY <1>5, <1>8 DEF History, Tells, OpenIn
<1>9. ASSUME NEW k \in Keys, events'[k] # None
      PROVE  Tells(k)'
  <2>1. CASE "event" \in t.wrote /\ k = t.key
    BY <1>1, <1>4, <1>5, <1>7, <2>1 DEF Tells, Holding
  <2>2. CASE ~("event" \in t.wrote /\ k = t.key)
    <3>1. events'[k] = events[k] /\ events[k] # None /\ Tells(k) /\ events[k].position \in Ids
      BY <1>2, <1>7, <1>9, <2>2 DEF History, Events
    <3>2. CASE events[k].position = t.id
      BY <1>1, <1>5, <1>7, <1>8, <3>1, <3>2 DEF Tells
    <3>3. CASE events[k].position # t.id
      BY <1>1, <1>7, <3>1, <3>3 DEF Tells
    <3> QED  BY <3>2, <3>3
  <2> QED  BY <2>1, <2>2
<1>10. ASSUME NEW k \in Keys, NEW l \in Keys, Alike(k, l)'
       PROVE  k = l
  <2>1. CASE ~("event" \in t.wrote /\ t.key \in {k, l})
    BY <1>7, <1>10, <2>1 DEF History, Alike
  <2>2. CASE "event" \in t.wrote /\ t.key \in {k, l}
    BY <1>4, <1>5, <1>7, <1>8, <1>10, <2>2 DEF Alike, Operations
  <2> QED  BY <2>1, <2>2
<1>11. ASSUME NEW i \in Ids, positions'[i] # None
       PROVE  Made(i)'
  <2>1. ASSUME NEW k \in Keys, NEW type, IsOf(k, i, type)
        PROVE  IsOf(k, i, type)'
    BY <1>5, <1>7, <2>1 DEF IsOf
  <2>2. CASE i # t.id
    <3>1. positions'[i] = positions[i] /\ Made(i)
      BY <1>7, <1>11, <2>2 DEF History
    <3> QED  BY <2>1, <3>1 DEF Made
  <2>3. CASE i = t.id /\ t.op = "OPEN"
    <3>1. events'[t.key] # None /\ events'[t.key].position = i /\ events'[t.key].type = "OPEN"
      BY <1>4, <1>5, <1>6, <1>7, <2>3
    <3> QED  BY <1>5, <1>7, <2>3, <3>1 DEF Made, Holding, IsOf
  <2>4. CASE i = t.id /\ t.op # "OPEN"
    <3>1. positions[i] # None
      BY <1>1, <2>4 DEF Legal, Rightful
    <3>2. \E k \in Keys : IsOf(k, i, "OPEN")'
      BY <2>1, <3>1 DEF History, Made
    <3>3. CASE t.op = "MARK"
      BY <1>5, <1>7, <2>4, <3>2, <3>3 DEF Made, Holding
    <3>4. CASE t.op = "CLOSE"
      <4>1. events'[t.key] # None /\ events'[t.key].position = i /\ events'[t.key].type = "CLOSE"
        BY <1>4, <1>5, <1>6, <1>7, <2>4, <3>4
      <4> QED  BY <1>5, <1>7, <2>4, <3>2, <3>4, <4>1 DEF Made, Holding, IsOf
    <3> QED  BY <1>5, <2>4, <3>3, <3>4 DEF Operations
  <2> QED  BY <2>2, <2>3, <2>4
<1>12. EventsInOrder'
  <2> SUFFICES ASSUME NEW k \in Keys, NEW l \in Keys, events'[k] # None, events'[l] # None,
                      events'[k].position = events'[l].position,
                      events'[k].type = "OPEN" \/ events'[l].type = "CLOSE"
               PROVE  events'[k].at <= events'[l].at
    BY DEF EventsInOrder
  <2> DEFINE New(x) == "event" \in t.wrote /\ x = t.key
  <2>1. CASE ~New(k) /\ ~New(l)
    BY <1>7, <2>1 DEF History, EventsInOrder
  <2>2. CASE New(k) /\ New(l)
    BY <1>4, <1>5, <1>7, <2>2 DEF Times
  <2>3. CASE New(k) /\ ~New(l)
    BY <1>4, <1>7, <1>8, <2>3
  <2>4. CASE ~New(k) /\ New(l)
    <3>1. events'[k] = events[k] /\ events[k] # None /\ events[k].position = t.id /\ events'[l] = e
      BY <1>4, <1>7, <2>4
    <3>2. CASE t.op = "CLOSE"
      BY <1>4, <1>5, <3>1, <3>2 DEF Holding
    <3>3. CASE t.op = "MARK"
      BY <1>4, <1>5, <3>1, <3>3 DEF IsOf
    <3> QED  BY <1>5, <1>8, <3>1, <3>2, <3>3 DEF Operations
  <2> QED  BY <2>1, <2>2, <2>3, <2>4
<1>13. ASSUME NEW d \in Calls, tx'[d] # None
       PROVE  Settling(tx[d])'
  <2> DEFINE s == tx[d]
  <2>1. d # c /\ tx'[d] = s /\ s # None /\ Apart(t, s) /\ Legal(s) /\ Settling(s)
        /\ ("event" \in s.wrote /\ "event" \in t.wrote => s.key # t.key)
        /\ s \in Transactions
    BY <1>1, <1>2, <1>3, <1>7, <1>13 DEF Wrote
  <2> HIDE DEF s
  <2>2. "event" \in s.wrote => events'[s.key] = None
    BY <1>7, <2>1 DEF Settling, Transactions
  <2>3. s.op = "MARK" => \A k \in Keys :
        events'[k] # None /\ events'[k].position = s.id /\ events'[k].type = "OPEN" => events'[k].at <= s.at
    <3> SUFFICES ASSUME s.op = "MARK", NEW k \in Keys, events'[k] # None, events'[k].position = s.id,
                        events'[k].type = "OPEN"
                 PROVE  events'[k].at <= s.at
      OBVIOUS
    <3>1. ~("event" \in t.wrote /\ k = t.key)
      BY <1>4, <1>5, <1>7, <2>1, NoneIsNoValue DEF Apart
    <3> QED  BY <1>7, <2>1, <3>1 DEF Settling, IsOf
  <2>4. s.pc \in Written => Holding(tx[d])'
    <3> SUFFICES ASSUME s.pc \in Written PROVE Holding(tx[d])'
      OBVIOUS
    <3>1. s.id # t.id /\ Holding(s) /\ s.id \in Ids
      BY <1>1, <2>1 DEF Apart, Settling, Written, Legal, Supplied
    <3>2. positions'[s.id] = positions[s.id]
      BY <1>7, <3>1
    <3>3. \A k \in Keys : events'[k] # None /\ events'[k].position = s.id => events'[k] = events[k]
      BY <1>4, <1>7, <3>1
    <3> QED  BY <1>1, <2>1, <3>1, <3>2, <3>3 DEF Holding
  <2> QED  BY <1>1, <2>1, <2>2, <2>3, <2>4 DEF Settling, IsOf
<1>14. KeysApart'
  BY <1>7 DEF History, KeysApart, Wrote
<1> QED
  BY <1>9, <1>10, <1>11, <1>12, <1>13, <1>14 DEF History

LEMMA InitImpliesHistory == Init => History
  BY DEF Init, History, Alike, EventsInOrder, KeysApart, Wrote

LEMMA NextKeepsHistory == IInv /\ History /\ [Next]_vars => History'
<1> SUFFICES ASSUME IInv, History, [Next]_vars PROVE History'
  OBVIOUS
<1>1. CASE UNCHANGED vars
  BY <1>1 DEF vars, History, Tells, Alike, Made, IsOf, EventsInOrder, Settling, Holding, KeysApart, Wrote
<1>2. CASE Tick
  <2>1. /\ clock' = clock + 1 /\ positions' = positions /\ events' = events /\ tx' = tx
        /\ clock \in Int /\ events \in [Keys -> Events \cup {None}] /\ tx \in [Calls -> Transactions \cup {None}]
    BY <1>2, BoundsNat DEF Tick, IInv, TypeOK, Times
  <2>2. /\ \A k \in Keys : events[k] # None => events[k].at \in Int
        /\ \A d \in Calls : tx[d] # None => tx[d].at = None \/ tx[d].at \in Int
    BY <2>1, BoundsNat DEF Events, Transactions, Times
  <2>3. ASSUME NEW k \in Keys, events'[k] # None PROVE Tells(k)'
    BY <2>1, <2>2, <2>3 DEF History, Tells
  <2>4. ASSUME NEW d \in Calls, tx'[d] # None PROVE Settling(tx[d])'
    <3>1. Settling(tx[d]) /\ Legal(tx[d]) /\ tx'[d] = tx[d] /\ tx[d] # None
      BY <2>1, <2>4 DEF History, IInv
    <3>2. /\ tx[d].op = "MARK" => tx[d].at \in Times
          /\ tx[d].pc \in Written \cup {"insert"} => tx[d].at \in Times
      BY <3>1 DEF Legal, Supplied
    <3>3. \A at \in Times : at <= clock => at <= clock'
      BY <2>1, BoundsNat DEF Times
    <3>4. tx[d].pc \in Written => Holding(tx[d])'
      BY <2>1, <3>1, <3>2, <3>3 DEF Settling, Holding
    <3> QED  BY <2>1, <3>1, <3>2, <3>3, <3>4 DEF Settling, IsOf
  <2> QED  BY <2>1, <2>3, <2>4 DEF History, Alike, Made, IsOf, EventsInOrder, KeysApart, Wrote
<1>3. ASSUME NEW c \in Calls, Start(c) PROVE History'
  BY <1>3, StartKeepsHistory
<1>4. ASSUME NEW c \in Calls, Proceed(c) PROVE History'
  <2>1. CASE Rollback(c)
    BY <2>1, RollbackKeepsHistory
  <2> QED
    BY <1>4, <2>1, LookUpKeepsHistory, InsertKeepsHistory, UpdateKeepsHistory, EventKeepsHistory,
       CommitKeepsHistory DEF Proceed
<1>5. ASSUME NEW c \in Calls, Fail(c) PROVE History'
  BY <1>5, RollbackKeepsHistory DEF Fail
<1> QED
  BY <1>1, <1>2, <1>3, <1>4, <1>5 DEF Next

LEMMA SpecKeepsHistory == Spec => [](IInv /\ History)
<1>1. Init => IInv /\ History
  BY InitImpliesIInv, InitImpliesHistory
<1>2. IInv /\ History /\ [Next]_vars => (IInv /\ History)'
  BY NextKeepsIInv, NextKeepsHistory
<1> QED  BY <1>1, <1>2, PTL DEF Spec

(* A position has one opening, one close when it is closed, and what that  *)
(* close realized, however closes race and are retried (closePosition).    *)
THEOREM SettledOnce == Spec => []ClosedOnce
<1>1. ASSUME IInv, History PROVE ClosedOnce
  <2> SUFFICES ASSUME NEW i \in Ids
               PROVE  IF positions[i] = None THEN \A type \in Operations : Of(i, type) = {}
                      ELSE /\ Cardinality(Of(i, "OPEN")) = 1
                           /\ IF positions[i].status = "OPEN" THEN Of(i, "CLOSE") = {} /\ positions[i].realized = 0
                              ELSE \E k \in Keys : /\ Of(i, "CLOSE") = {k}
                                                   /\ events[k].realized = positions[i].realized
                                                   /\ events[k].at = positions[i].marked
    BY DEF ClosedOnce
  <2>1. ASSUME NEW k \in Keys, NEW type, IsOf(k, i, type) PROVE Tells(k) /\ k \in Of(i, type)
    BY <1>1, <2>1 DEF History, IsOf, Of
  <2>2. ASSUME NEW type, type # "MARK", NEW k \in Keys, IsOf(k, i, type) PROVE Of(i, type) = {k}
    BY <1>1, <2>2 DEF History, IsOf, Of, Alike
  <2>3. CASE positions[i] = None
    BY <1>1, <2>3 DEF History, Tells, Of
  <2>4. CASE positions[i] # None
    <3>1. Made(i)
      BY <1>1, <2>4 DEF History
    <3>2. PICK k \in Keys : Of(i, "OPEN") = {k}
      BY <2>2, <3>1 DEF Made
    <3>3. Cardinality(Of(i, "OPEN")) = 1
      BY <3>2, FS_Singleton
    <3>4. CASE positions[i].status = "OPEN"
      BY <1>1, <2>4, <3>1, <3>3, <3>4 DEF Made, History, Tells, Of
    <3>5. CASE positions[i].status # "OPEN"
      <4>1. PICK l \in Keys : IsOf(l, i, "CLOSE")
        BY <3>1, <3>5 DEF Made
      <4>2. Of(i, "CLOSE") = {l} /\ events[l].realized = positions[i].realized /\ events[l].at = positions[i].marked
        BY <2>1, <2>2, <4>1 DEF Tells, IsOf
      <4> QED  BY <2>4, <3>3, <3>5, <4>2
    <3> QED  BY <3>4, <3>5
  <2> QED  BY <2>3, <2>4
<1> QED  BY <1>1, SpecKeepsHistory, PTL

(* A position's events are not dated before its opening or after its       *)
(* close, whatever call waits for its row (markPosition).                  *)
THEOREM DatesInOrder == Spec => []EventsInOrder
<1>1. History => EventsInOrder
  BY DEF History
<1> QED  BY <1>1, SpecKeepsHistory, PTL

=============================================================================
