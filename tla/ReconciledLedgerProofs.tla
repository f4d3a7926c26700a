------------------------ MODULE ReconciledLedgerProofs ------------------------
(***************************************************************************)
(* What the ledger and the evidence keep for any number of requests,       *)
(* builds, trades and rows: the limit and the copies of a snapshot are     *)
(* passed by what is in flight only, evidence is whole, the ledger         *)
(* implements TradeLedger, and rows of one past use no purchase of it      *)
(* twice.                                                                  *)
(***************************************************************************)
EXTENDS ReconciledLedger, SequenceTheorems, FiniteSetTheorems, WellFoundedInduction, TLAPS

(* What a caller may have computed. *)
Costs == UNION {{CostBasis(known, e) : e \in EventIds} : known \in SUBSET EventIds}

Offers == {NoOffer} \cup
  [scan : {"none", "partial", "complete"}, inventory : {"none", "partial", "complete"},
   trade : EventIds, basis : Costs, valued : SUBSET Assets, fees : Seq(Nat), at : Nat]

Transactions == [pc : {"idle", "lock", "collect", "record"}, event : Nat, offer : Offers,
                 seen : SUBSET EventIds, rows : Nat, feeAt : Nat]

Builds == [pc : {"idle", "read", "lookup", "write"}, rows : SUBSET EventIds, read : Nat]

Typed ==
  /\ now \in Nat /\ events \subseteq EventIds
  /\ ledger \in Seq(Range(ledger))
  /\ collections \in Seq(Range(collections))
  /\ tx \in [Requests -> Transactions]
  /\ build \in [Builders -> Builds]
  /\ \A r \in Requests : tx[r].pc # "idle" => tx[r].event \in EventIds

Distinct ==
  /\ \A i \in DOMAIN ledger : ledger[i].event \in EventIds /\ ledger[i].at \in Nat
  /\ \A i, j \in DOMAIN ledger : i # j => ledger[i].event # ledger[j].event /\ ledger[i].tx # ledger[j].tx

(* Once the limit is reached, whoever may still pass it has begun before.  *)
Pending == {r \in Requests : tx[r].pc # "idle" /\ tx[r].rows < RowLimit}

Room == Len(ledger) < RowLimit \/ Len(ledger) + Cardinality(Pending) <= RowLimit + Cardinality(Requests) - 1

Committed(n) == {ledger[j].event : j \in 1 .. n}

Whole(rows, n) ==
  /\ n \in 0 .. Len(ledger)
  /\ rows \subseteq Committed(n)
  /\ rows = Committed(n) \/ Cardinality(rows) = EvidenceRows

AllWhole ==
  /\ \A b \in Builders : build[b].pc \in {"lookup", "write"} => Whole(build[b].rows, build[b].read)
  /\ \A i \in DOMAIN collections : Whole(collections[i].rows, collections[i].read)

Copies(rows) == {j \in DOMAIN collections : collections[j].rows = rows}
Writers(rows) == {b \in Builders : build[b].pc = "write" /\ build[b].rows = rows}

Once == \A rows \in SUBSET EventIds :
  Cardinality(Copies(rows)) + Cardinality(Writers(rows)) <= Cardinality(Builders)

LedgerInv == Typed /\ Distinct /\ Room /\ AllWhole /\ Once

-----------------------------------------------------------------------------
LEMMA Appended ==
  ASSUME NEW s, s \in Seq(Range(s)), NEW x
  PROVE  /\ Append(s, x) \in Seq(Range(Append(s, x)))
         /\ Len(s) \in Nat /\ Len(Append(s, x)) = Len(s) + 1
         /\ DOMAIN s = 1 .. Len(s) /\ DOMAIN Append(s, x) = 1 .. (Len(s) + 1)
         /\ \A i \in 1 .. Len(s) : Append(s, x)[i] = s[i]
         /\ Append(s, x)[Len(s) + 1] = x
         /\ Range(Append(s, x)) = Range(s) \cup {x}
<1> DEFINE S == Range(s) \cup {x}
           a == Append(s, x)
<1>1. s \in Seq(S) /\ x \in S
  BY SeqMonotonic
<1>2. /\ Len(s) \in Nat /\ Len(a) = Len(s) + 1 /\ a \in Seq(S)
      /\ \A i \in 1 .. Len(s) : a[i] = s[i]
      /\ a[Len(s) + 1] = x
  BY <1>1, AppendProperties, LenProperties
<1>3. DOMAIN s = 1 .. Len(s) /\ DOMAIN a = 1 .. (Len(s) + 1)
  BY <1>1, <1>2, LenProperties
<1> HIDE DEF a
<1>4. Range(a) = S
  BY <1>2, <1>3 DEF Range
<1> QED
  BY <1>2, <1>3, <1>4 DEF a

(* The k least of finitely many rows, in an order that no two of them      *)
(* share, are k or all.                                                    *)
LEMMA LeastOnes ==
  ASSUME NEW S, IsFiniteSet(S), NEW k \in Nat,
         \A x \in S : x.at \in Nat /\ x.event \in Nat,
         \A x, y \in S : x.event = y.event => x = y
  PROVE  LET L == {x \in S : Cardinality({y \in S : Sooner(y, x)}) < k} IN
         IsFiniteSet(L) /\ (L = S \/ Cardinality(L) = k)
<1> DEFINE Pred(x) == {y \in S : Sooner(y, x)}
           rank == [x \in S |-> Cardinality(Pred(x))]
           L == {x \in S : rank[x] < k}
           n == Cardinality(S)
<1>1. n \in Nat
  BY FS_CardinalityType
<1>2. \A x \in S : Pred(x) \in SUBSET S /\ x \notin Pred(x)
  BY DEF Sooner
<1>3. \A x \in S : IsFiniteSet(Pred(x)) /\ Cardinality(Pred(x)) \in Nat
  BY <1>2, FS_Subset, FS_CardinalityType
<1>4. ASSUME NEW x \in S, NEW y \in S, Sooner(x, y)
      PROVE  Cardinality(Pred(x)) < Cardinality(Pred(y))
  <2>1. Pred(x) \in SUBSET Pred(y) /\ x \in Pred(y) /\ x \notin Pred(x)
    BY <1>2, <1>4 DEF Sooner
  <2>2. Cardinality(Pred(x)) <= Cardinality(Pred(y)) /\ Cardinality(Pred(x)) # Cardinality(Pred(y))
    BY <1>3, <2>1, FS_Subset
  <2> QED  BY <1>3, <2>2
<1>5. \A x, y \in S : x # y => Sooner(x, y) \/ Sooner(y, x)
  BY DEF Sooner
<1>6. \A x \in S : Cardinality(Pred(x)) < n
  <2> SUFFICES ASSUME NEW x \in S PROVE Cardinality(Pred(x)) < n
    OBVIOUS
  <2>1. Cardinality(Pred(x)) <= n /\ Cardinality(Pred(x)) # n
    BY <1>2, FS_Subset
  <2> QED  BY <1>1, <1>3, <2>1
<1>7. L = {x \in S : Cardinality({y \in S : Sooner(y, x)}) < k}
  OBVIOUS
<1>8. \A x \in S : rank[x] = Cardinality(Pred(x))
  OBVIOUS
<1>9. DOMAIN rank = S /\ rank = [x \in S |-> rank[x]]
  OBVIOUS
<1> HIDE DEF Pred, rank, n
<1>10. \A x \in S : rank[x] \in Nat /\ rank[x] < n
  BY <1>3, <1>6, <1>8
<1>11. rank \in [S -> 0 .. n - 1]
  BY <1>1, <1>9, <1>10
<1>12. \A x, y \in S : Sooner(x, y) => rank[x] < rank[y]
  BY <1>4, <1>8
<1>13. \A x, y \in S : rank[x] = rank[y] => x = y
  BY <1>5, <1>10, <1>12
<1>14. rank \in Injection(S, 0 .. n - 1)
  BY <1>9, <1>11, <1>13 DEF Injection, IsInjective
<1>15. IsFiniteSet(0 .. n - 1) /\ Cardinality(0 .. n - 1) = n
  <2>1. 0 \in Int /\ n - 1 \in Int
    BY <1>1
  <2>2. IsFiniteSet(0 .. n - 1) /\ Cardinality(0 .. n - 1) = IF 0 > n - 1 THEN 0 ELSE (n - 1) - 0 + 1
    BY <2>1, FS_Interval, ZenonT(20)
  <2> QED  BY <1>1, <2>2
<1>16. rank \in Surjection(S, 0 .. n - 1)
  BY <1>14, <1>15, FS_Injection DEF n
<1>17. L \in SUBSET S /\ IsFiniteSet(L)
  BY FS_Subset
<1>18. CASE n <= k
  <2>1. L = S
    BY <1>1, <1>10, <1>18
  <2> QED  BY <1>7, <1>17, <2>1
<1>19. CASE k < n
  <2> DEFINE g == [x \in L |-> rank[x]]
  <2>1. g \in [L -> 0 .. k - 1] /\ DOMAIN g = L /\ \A x \in L : g[x] = rank[x]
    BY <1>10
  <2> HIDE DEF g
  <2>2. ASSUME NEW m \in 0 .. k - 1 PROVE \E x \in L : g[x] = m
    <3>1. m \in 0 .. n - 1
      BY <1>1, <1>19
    <3>2. PICK x \in S : rank[x] = m
      BY <1>16, <3>1 DEF Surjection
    <3> QED  BY <2>1, <3>2
  <2>3. g \in Surjection(L, 0 .. k - 1)
    BY <2>1, <2>2 DEF Surjection
  <2>4. \A x, y \in L : g[x] = g[y] => x = y
    BY <1>13, <2>1
  <2>5. g \in Injection(L, 0 .. k - 1)
    BY <2>1, <2>4 DEF Injection, IsInjective
  <2>6. Cardinality(L) = Cardinality(0 .. k - 1)
    BY <1>17, <2>3, <2>5, FS_Surjection
  <2>7. Cardinality(0 .. k - 1) = IF 0 > k - 1 THEN 0 ELSE (k - 1) - 0 + 1
    BY FS_Interval
  <2>8. Cardinality(0 .. k - 1) = k
    BY <2>7
  <2> QED  BY <1>7, <1>17, <2>6, <2>8
<1> QED
  BY <1>1, <1>18, <1>19

LEMMA LedgerIsSequence ==
  ASSUME Typed
  PROVE  /\ Len(ledger) \in Nat /\ DOMAIN ledger = 1 .. Len(ledger)
         /\ Len(collections) \in Nat /\ DOMAIN collections = 1 .. Len(collections)
         /\ SubSeq(ledger, 1, Len(ledger)) = ledger
<1>1. ledger \in Seq(Range(ledger)) /\ collections \in Seq(Range(collections))
  BY DEF Typed
<1>2. /\ Len(ledger) \in Nat /\ DOMAIN ledger = 1 .. Len(ledger)
      /\ Len(collections) \in Nat /\ DOMAIN collections = 1 .. Len(collections)
      /\ ledger \in [1 .. Len(ledger) -> Range(ledger)]
  BY <1>1, LenProperties
<1> DEFINE sub == SubSeq(ledger, 1, Len(ledger))
           R == Range(ledger)
           n == Len(ledger)
<1> HIDE DEF R, n
<1>3. \A i \in 1 .. n : ledger[i] \in R
  BY <1>2 DEF R, n
<1>4. 1 \in Int /\ n \in Int /\ n \in Nat
  BY <1>2 DEF n
<1>5. /\ SubSeq(ledger, 1, n) \in Seq(R)
      /\ Len(SubSeq(ledger, 1, n)) = IF 1 <= n THEN n - 1 + 1 ELSE 0
      /\ \A i \in 1 .. n - 1 + 1 : SubSeq(ledger, 1, n)[i] = ledger[1 + i - 1]
  BY <1>3, <1>4, SubSeqProperties
<1>6. sub \in Seq(R) /\ Len(sub) = n /\ \A i \in 1 .. n : sub[i] = ledger[i]
  BY <1>4, <1>5 DEF n
<1>7. sub = ledger
  <2> HIDE DEF sub
  <2> QED  BY <1>1, <1>6, SeqEqual DEF R, n
<1> QED
  BY <1>2, <1>7

(* The SELECT of a build: all rows, or as many as its LIMIT.               *)
LEMMA OldestIsWhole ==
  ASSUME Typed, Distinct
  PROVE  Oldest(Len(ledger)) \in SUBSET EventIds /\ Whole(Oldest(Len(ledger)), Len(ledger))
<1> DEFINE n == Len(ledger)
           S == Range(ledger)
           k == EvidenceRows
           L == {x \in S : Cardinality({y \in S : Sooner(y, x)}) < k}
<1>1. n \in Nat /\ DOMAIN ledger = 1 .. n /\ SubSeq(ledger, 1, n) = ledger
  BY LedgerIsSequence
<1>2. S = {ledger[i] : i \in 1 .. n}
  BY <1>1 DEF Range
<1>3. Oldest(n) = {r.event : r \in L}
  BY <1>1 DEF Oldest, First
<1>4. IsFiniteSet(S)
  <2>1. ledger \in [1 .. n -> S]
    BY <1>1, <1>2, LenProperties DEF Typed
  <2>2. ledger \in Surjection(1 .. n, S)
    BY <1>2, <2>1 DEF Surjection
  <2>3. IsFiniteSet(1 .. n)
    BY <1>1, FS_Interval
  <2> QED  BY <2>2, <2>3, FS_Surjection
<1>5. \A x \in S : x.at \in Nat /\ x.event \in EventIds /\ x.event \in Nat
  BY <1>1, <1>2, EventIdsNat DEF Distinct
<1>6. \A x, y \in S : x.event = y.event => x = y
  BY <1>1, <1>2 DEF Distinct
<1>7. k \in Nat
  BY LimitsNat
<1> HIDE DEF S, n, k
<1>8. IsFiniteSet(L) /\ (L = S \/ Cardinality(L) = k)
  BY <1>4, <1>5, <1>6, <1>7, LeastOnes
<1>9. L \in SUBSET S
  OBVIOUS
<1> HIDE DEF L
<1> DEFINE E == {r.event : r \in L}
           f == [x \in L |-> x.event]
<1>10. E \in SUBSET EventIds
  BY <1>5, <1>9
<1>11. E \subseteq Committed(n)
  BY <1>2, <1>9 DEF Committed
<1>12. L = S => E = Committed(n)
  BY <1>2 DEF Committed
<1>13. Cardinality(E) = Cardinality(L)
  <2>1. f \in [L -> E] /\ DOMAIN f = L /\ \A x \in L : f[x] = x.event
    OBVIOUS
  <2>2. \A x, y \in L : f[x] = f[y] => x = y
    BY <1>6, <1>9, <2>1
  <2>3. \A v \in E : \E x \in L : f[x] = v
    BY <2>1
  <2> HIDE DEF f, E
  <2>4. f \in Surjection(L, E) /\ f \in Injection(L, E)
    BY <2>1, <2>2, <2>3 DEF Surjection, Injection, IsInjective
  <2> QED  BY <1>8, <2>4, FS_Surjection
<1>14. n \in 0 .. Len(ledger)
  BY <1>1 DEF n
<1> QED
  BY <1>3, <1>8, <1>10, <1>11, <1>12, <1>13, <1>14 DEF Whole, n, k

-----------------------------------------------------------------------------
LEMMA PendingFinite ==
  ASSUME Typed
  PROVE  /\ IsFiniteSet(Pending) /\ Cardinality(Pending) \in Nat
         /\ Cardinality(Pending) <= Cardinality(Requests) /\ Cardinality(Requests) \in Nat
  BY FiniteRequests, FS_Subset, FS_CardinalityType DEF Pending

LEMMA RequestStep ==
  ASSUME LedgerInv, NEW r \in Requests, NEW t \in Transactions, Become(r, t),
         t.pc # "idle" => t.event \in EventIds,
         t.pc # "idle" /\ t.rows < RowLimit => r \in Pending \/ Len(ledger) < RowLimit
  PROVE  LedgerInv'
<1>1. /\ tx' = [tx EXCEPT ![r] = t] /\ tx \in [Requests -> Transactions]
      /\ now' = now /\ events' = events /\ ledger' = ledger /\ collections' = collections /\ build' = build
  BY DEF LedgerInv, Typed, Become
<1>2. Typed' /\ Distinct' /\ AllWhole' /\ Once'
  <2>1. Typed'
    BY <1>1 DEF LedgerInv, Typed
  <2>2. Distinct' /\ AllWhole'
    BY <1>1 DEF LedgerInv, Distinct, AllWhole, Whole, Committed
  <2>3. Once'
    BY <1>1 DEF LedgerInv, Once, Copies, Writers
  <2> QED  BY <2>1, <2>2, <2>3
<1>3. Room'
  <2>1. CASE Len(ledger) < RowLimit
    BY <1>1, <2>1 DEF Room
  <2>2. CASE ~(Len(ledger) < RowLimit)
    <3>1. Pending' \in SUBSET Pending
      BY <1>1, <2>2 DEF Pending
    <3>2. Cardinality(Pending') <= Cardinality(Pending)
      BY <3>1, PendingFinite, FS_Subset DEF LedgerInv
    <3>3. Cardinality(Pending') \in Nat
      BY <3>1, PendingFinite, FS_Subset, FS_CardinalityType DEF LedgerInv
    <3>4. Len(ledger) + Cardinality(Pending) <= RowLimit + Cardinality(Requests) - 1
      BY <2>2 DEF LedgerInv, Room
    <3>5. Len(ledger) \in Nat /\ Cardinality(Pending) \in Nat /\ Cardinality(Requests) \in Nat /\ RowLimit \in Nat
      BY LedgerIsSequence, PendingFinite, LimitsNat DEF LedgerInv
    <3> HIDE DEF Pending
    <3>6. Len(ledger) + Cardinality(Pending') <= RowLimit + Cardinality(Requests) - 1
      BY <3>2, <3>3, <3>4, <3>5
    <3> QED  BY <1>1, <3>6 DEF Room
  <2> QED  BY <2>1, <2>2
<1> QED
  BY <1>2, <1>3 DEF LedgerInv

LEMMA BuildStep ==
  ASSUME LedgerInv, NEW b \in Builders, NEW x \in Builds, Remember(b, x),
         x.pc \in {"lookup", "write"} => Whole(x.rows, x.read),
         x.pc = "write" => Copies(x.rows) = {}
  PROVE  LedgerInv'
<1>1. /\ build' = [build EXCEPT ![b] = x] /\ build \in [Builders -> Builds]
      /\ now' = now /\ events' = events /\ ledger' = ledger /\ collections' = collections /\ tx' = tx
  BY DEF LedgerInv, Typed, Remember
<1>2. Typed' /\ Distinct' /\ Room'
  BY <1>1 DEF LedgerInv, Typed, Distinct, Room, Pending
<1>3. AllWhole'
  BY <1>1 DEF LedgerInv, AllWhole, Whole, Committed
<1>4. ASSUME NEW rows \in SUBSET EventIds
      PROVE  (Cardinality(Copies(rows)) + Cardinality(Writers(rows)) <= Cardinality(Builders))'
  <2>1. Copies(rows)' = Copies(rows) /\ Cardinality(Copies(rows)) + Cardinality(Writers(rows)) <= Cardinality(Builders)
    BY <1>1 DEF LedgerInv, Once, Copies
  <2>2. Writers(rows)' = {c \in Builders : build'[c].pc = "write" /\ build'[c].rows = rows}
    BY DEF Writers
  <2> DEFINE new == {c \in Builders : build'[c].pc = "write" /\ build'[c].rows = rows}
  <2>3. new \in SUBSET Builders /\ Writers(rows) \in SUBSET Builders
    BY DEF Writers
  <2>4. /\ IsFiniteSet(new) /\ Cardinality(new) \in Nat /\ Cardinality(new) <= Cardinality(Builders)
        /\ IsFiniteSet(Writers(rows)) /\ Cardinality(Writers(rows)) \in Nat /\ Cardinality(Builders) \in Nat
    BY <2>3, FiniteRequests, FS_Subset, FS_CardinalityType
  <2>5. CASE x.pc = "write" /\ x.rows = rows
    <3>1. Copies(rows) = {} /\ Cardinality(Copies(rows)) = 0
      BY <2>5, FS_EmptySet
    <3> QED  BY <2>1, <2>2, <2>4, <3>1
  <2>6. CASE ~(x.pc = "write" /\ x.rows = rows)
    <3>1. new \in SUBSET Writers(rows)
      BY <1>1, <2>6 DEF Writers
    <3>2. Cardinality(new) <= Cardinality(Writers(rows))
      BY <2>4, <3>1, FS_Subset
    <3>3. Cardinality(Copies(rows)) \in Nat
      <4>1. Copies(rows) \in SUBSET (1 .. Len(collections)) /\ Len(collections) \in Nat
        BY LedgerIsSequence DEF Copies, LedgerInv
      <4>2. IsFiniteSet(1 .. Len(collections))
        BY <4>1, FS_Interval
      <4> QED  BY <4>1, <4>2, FS_Subset, FS_CardinalityType
    <3> QED  BY <2>1, <2>2, <2>4, <3>2, <3>3
  <2> QED  BY <2>5, <2>6
<1> QED
  BY <1>2, <1>3, <1>4 DEF LedgerInv, Once

LEMMA CopiesFinite ==
  ASSUME Typed, NEW rows
  PROVE  IsFiniteSet(Copies(rows)) /\ Cardinality(Copies(rows)) \in Nat
<1>1. Copies(rows) \in SUBSET (1 .. Len(collections)) /\ Len(collections) \in Nat
  BY LedgerIsSequence DEF Copies
<1>2. IsFiniteSet(1 .. Len(collections))
  BY <1>1, FS_Interval
<1> QED
  BY <1>1, <1>2, FS_Subset, FS_CardinalityType

(* A row more: its request was pending, and no longer is.                  *)
LEMMA InsertStep ==
  ASSUME LedgerInv, NEW r \in Requests, Insert(r)
  PROVE  LedgerInv'
<1> DEFINE row == Row(tx[r])
           n == Len(ledger)
<1>1. /\ ledger' = Append(ledger, row) /\ tx' = [tx EXCEPT ![r] = Idle]
      /\ now' = now /\ events' = events /\ collections' = collections /\ build' = build
      /\ tx[r].pc = "record" /\ tx[r].event \in EventIds /\ tx[r].rows < RowLimit
      /\ \A i \in DOMAIN ledger : ledger[i].event # tx[r].event /\ ledger[i].tx # Trade[tx[r].event].tx
      /\ tx \in [Requests -> Transactions]
  BY DEF Insert, At, BelowLimit, Unique, LedgerInv, Typed
<1>2. row.event = tx[r].event /\ row.tx = Trade[tx[r].event].tx /\ row.at \in Nat
  BY <1>1, TradesNat DEF Row
<1> HIDE DEF row
<1>3. /\ ledger' \in Seq(Range(ledger'))
      /\ n \in Nat /\ Len(ledger') = n + 1
      /\ DOMAIN ledger = 1 .. n /\ DOMAIN ledger' = 1 .. (n + 1)
      /\ \A i \in 1 .. n : ledger'[i] = ledger[i]
      /\ ledger'[n + 1] = row
  BY <1>1, Appended DEF LedgerInv, Typed
<1>4. Idle \in Transactions /\ Idle.pc = "idle"
  BY DEF Idle, Transactions, Offers
<1>5. Typed'
  BY <1>1, <1>3, <1>4 DEF LedgerInv, Typed
<1>6. Distinct'
  BY <1>1, <1>2, <1>3 DEF LedgerInv, Distinct
<1>7. ASSUME NEW rows, NEW m, Whole(rows, m)
      PROVE  Whole(rows, m)'
  <2>1. m \in 0 .. n /\ m \in 0 .. Len(ledger')
    BY <1>3, <1>7 DEF Whole
  <2>2. Committed(m)' = Committed(m)
    BY <1>3, <2>1 DEF Committed
  <2> QED  BY <1>7, <2>1, <2>2 DEF Whole
<1>8. AllWhole'
  BY <1>1, <1>7 DEF LedgerInv, AllWhole
<1>9. Once'
  BY <1>1 DEF LedgerInv, Once, Copies, Writers
<1>10. Room'
  <2> DEFINE old == Cardinality(Pending)
             new == Cardinality(Pending')
             all == Cardinality(Requests)
  <2>1. r \in Pending /\ Pending' = Pending \ {r}
    BY <1>1, <1>4 DEF Pending
  <2>2. old \in Nat /\ old <= all /\ all \in Nat /\ new = old - 1 /\ RowLimit \in Nat \ {0}
    BY <2>1, PendingFinite, FS_RemoveElement, LimitsNat DEF LedgerInv
  <2>3. n < RowLimit \/ n + old <= RowLimit + all - 1
    BY DEF LedgerInv, Room
  <2> HIDE DEF n, old, new, all
  <2>4. n + 1 < RowLimit \/ n + 1 + new <= RowLimit + all - 1
    BY <1>3, <2>2, <2>3 DEF n
  <2> QED  BY <1>3, <2>4 DEF Room, n, new, all
<1> QED
  BY <1>5, <1>6, <1>8, <1>9, <1>10 DEF LedgerInv

(* A collection more: its build was a writer of its rows, and no longer is. *)
LEMMA WriteStep ==
  ASSUME LedgerInv, NEW b \in Builders, WriteCollection(b)
  PROVE  LedgerInv'
<1> DEFINE n == Len(collections)
           mine == build[b].rows
           c == [rows |-> build[b].rows, read |-> build[b].read,
                 recorded |-> Cardinality(build[b].rows) >= MinTrades,
                 figures |-> IF build[b].rows = {} THEN NoMetrics ELSE Metrics(build[b].rows)]
<1>1. /\ collections' = Append(collections, c) /\ build' = [build EXCEPT ![b] = NoBuild]
      /\ now' = now /\ events' = events /\ ledger' = ledger /\ tx' = tx
      /\ build[b].pc = "write" /\ build \in [Builders -> Builds] /\ mine \in SUBSET EventIds
      /\ Whole(mine, build[b].read)
  BY DEF WriteCollection, LedgerInv, Typed, Builds, AllWhole
<1>2. c.rows = mine /\ c.read = build[b].read
  OBVIOUS
<1> HIDE DEF c
<1>3. /\ collections' \in Seq(Range(collections'))
      /\ n \in Nat /\ Len(collections') = n + 1
      /\ DOMAIN collections = 1 .. n /\ DOMAIN collections' = 1 .. (n + 1)
      /\ \A i \in 1 .. n : collections'[i] = collections[i]
      /\ collections'[n + 1] = c
  BY <1>1, Appended DEF LedgerInv, Typed
<1>4. NoBuild \in Builds /\ NoBuild.pc = "idle"
  BY DEF NoBuild, Builds
<1>5. Typed'
  BY <1>1, <1>3, <1>4 DEF LedgerInv, Typed
<1>6. Distinct' /\ Room'
  BY <1>1 DEF LedgerInv, Distinct, Room, Pending
<1>7. \A rows, m : Whole(rows, m)' <=> Whole(rows, m)
  BY <1>1 DEF Whole, Committed
<1>8. AllWhole'
  <2>1. ASSUME NEW i \in DOMAIN collections' PROVE Whole(collections'[i].rows, collections'[i].read)
    BY <1>1, <1>2, <1>3 DEF LedgerInv, AllWhole
  <2>2. ASSUME NEW d \in Builders, build'[d].pc \in {"lookup", "write"} PROVE Whole(build'[d].rows, build'[d].read)
    BY <1>1, <1>4, <2>2 DEF LedgerInv, AllWhole
  <2> QED  BY <1>1, <2>1, <2>2 DEF AllWhole, Whole, Committed
<1>9. ASSUME NEW rows \in SUBSET EventIds
      PROVE  (Cardinality(Copies(rows)) + Cardinality(Writers(rows)) <= Cardinality(Builders))'
  <2> DEFINE copies == {j \in DOMAIN collections' : collections'[j].rows = rows}
             writers == {d \in Builders : build'[d].pc = "write" /\ build'[d].rows = rows}
  <2>1. Copies(rows)' = copies /\ Writers(rows)' = writers
    BY DEF Copies, Writers
  <2>2. /\ IsFiniteSet(Copies(rows)) /\ Cardinality(Copies(rows)) \in Nat
        /\ IsFiniteSet(Writers(rows)) /\ Cardinality(Writers(rows)) \in Nat
        /\ Cardinality(Copies(rows)) + Cardinality(Writers(rows)) <= Cardinality(Builders)
    <3>1. Writers(rows) \in SUBSET Builders
      BY DEF Writers
    <3> QED  BY <3>1, CopiesFinite, FiniteRequests, FS_Subset, FS_CardinalityType DEF LedgerInv, Once
  <2>3. CASE rows = mine
    <3>1. copies = Copies(rows) \cup {n + 1} /\ n + 1 \notin Copies(rows)
      BY <1>2, <1>3, <2>3 DEF Copies
    <3>2. writers = Writers(rows) \ {b} /\ b \in Writers(rows)
      BY <1>1, <1>4, <2>3 DEF Writers
    <3> HIDE DEF copies, writers
    <3>3. Cardinality(copies) = Cardinality(Copies(rows)) + 1
      BY <2>2, <3>1, FS_AddElement
    <3>4. Cardinality(writers) = Cardinality(Writers(rows)) - 1
      BY <2>2, <3>2, FS_RemoveElement
    <3> QED  BY <2>1, <2>2, <3>3, <3>4
  <2>4. CASE rows # mine
    <3>1. copies = Copies(rows)
      BY <1>2, <1>3, <2>4 DEF Copies
    <3>2. writers = Writers(rows)
      BY <1>1, <1>4, <2>4 DEF Writers
    <3> QED  BY <2>1, <2>2, <3>1, <3>2
  <2> QED  BY <2>3, <2>4
<1> QED
  BY <1>5, <1>6, <1>8, <1>9 DEF LedgerInv, Once

LEMMA LedgerInit == Init => LedgerInv
<1> SUFFICES ASSUME Init PROVE LedgerInv
  OBVIOUS
<1>1. /\ now = 0 /\ events \in SUBSET EventIds /\ ledger = <<>> /\ collections = <<>>
      /\ \A r \in Requests : tx[r] = Idle
      /\ \A b \in Builders : build[b] = NoBuild
      /\ tx = [r \in Requests |-> Idle] /\ build = [b \in Builders |-> NoBuild]
  BY EarlierEvents DEF Init
<1>2. Idle \in Transactions /\ Idle.pc = "idle" /\ NoBuild \in Builds /\ NoBuild.pc = "idle"
  BY DEF Idle, Transactions, Offers, NoBuild, Builds
<1>3. Typed
  BY <1>1, <1>2 DEF Typed
<1>4. Len(ledger) = 0 /\ DOMAIN ledger = {} /\ DOMAIN collections = {}
  BY <1>1
<1>5. Distinct /\ Room
  BY <1>4, LimitsNat DEF Distinct, Room
<1>6. AllWhole
  BY <1>1, <1>2, <1>4 DEF AllWhole
<1>7. ASSUME NEW rows \in SUBSET EventIds
      PROVE  Cardinality(Copies(rows)) + Cardinality(Writers(rows)) <= Cardinality(Builders)
  <2>1. Copies(rows) = {} /\ Writers(rows) = {}
    BY <1>1, <1>2, <1>4 DEF Copies, Writers
  <2>2. Cardinality(Builders) \in Nat /\ Cardinality({}) = 0
    BY FiniteRequests, FS_CardinalityType, FS_EmptySet
  <2> QED  BY <2>1, <2>2
<1> QED
  BY <1>3, <1>5, <1>6, <1>7 DEF LedgerInv, Once

LEMMA ReconcileKeeps ==
  ASSUME LedgerInv, NEW r \in Requests, Reconcile(r)
  PROVE  LedgerInv'
<1>1. /\ tx[r] \in Transactions /\ Idle \in Transactions /\ Idle.pc = "idle" /\ now \in Nat
      /\ tx[r].pc # "idle" => tx[r].event \in EventIds
      /\ tx[r].pc # "idle" /\ tx[r].rows < RowLimit => r \in Pending
  BY DEF LedgerInv, Typed, Pending, Idle, Transactions, Offers
<1>2. ASSUME NEW e \in EventIds, NEW kind \in OfferKinds, Begin(r, e, kind)
      PROVE  LedgerInv'
  <2> DEFINE offer == [scan |-> kind.scan, inventory |-> kind.inventory, trade |-> e,
                       basis |-> CostBasis(events, e), valued |-> kind.valued, fees |-> kind.fees, at |-> now]
             t == [pc |-> "lock", event |-> e, offer |-> offer, seen |-> events, rows |-> Len(ledger), feeAt |-> 0]
  <2>1. CostBasis(events, e) \in Costs /\ events \in SUBSET EventIds
    <3>1. events \in SUBSET EventIds
      BY DEF LedgerInv, Typed
    <3>2. CostBasis(events, e) \in {CostBasis(events, g) : g \in EventIds}
      OBVIOUS
    <3> QED  BY <3>1, <3>2 DEF Costs
  <2>2. offer \in Offers
    BY <1>1, <2>1, KindsOfOffers DEF Offers
  <2>3. e \in Nat /\ Len(ledger) \in Nat
    BY EventIdsNat, LedgerIsSequence DEF LedgerInv
  <2>4. t \in Transactions
    <3> HIDE DEF offer
    <3> QED  BY <2>1, <2>2, <2>3 DEF Transactions
  <2>5. Become(r, t) /\ t.event = e /\ t.rows = Len(ledger)
    BY <1>2 DEF Begin
  <2> HIDE DEF t
  <2> QED  BY <2>4, <2>5, RequestStep
<1>3. ASSUME Lock(r) PROVE LedgerInv'
  <2> DEFINE t == [tx[r] EXCEPT !.pc = "collect"]
  <2>1. /\ t \in Transactions /\ t.event = tx[r].event /\ t.rows = tx[r].rows
        /\ tx[r].pc # "idle" /\ Become(r, t)
    BY <1>1, <1>3 DEF Lock, At, Transactions
  <2> HIDE DEF t
  <2> QED  BY <1>1, <2>1, RequestStep
<1>4. ASSUME CollectFee(r) PROVE LedgerInv'
  <2> DEFINE t == [tx[r] EXCEPT !.pc = "record", !.feeAt = now]
  <2>1. /\ t \in Transactions /\ t.event = tx[r].event /\ t.rows = tx[r].rows
        /\ tx[r].pc # "idle" /\ Become(r, t)
    BY <1>1, <1>4 DEF CollectFee, At, Transactions
  <2> HIDE DEF t
  <2> QED  BY <1>1, <2>1, RequestStep
<1>5. ASSUME End(r) PROVE LedgerInv'
  BY <1>1, <1>5, RequestStep DEF End
<1> QED
  BY <1>2, <1>3, <1>4, <1>5, InsertStep DEF Reconcile

LEMMA BuildKeeps ==
  ASSUME LedgerInv, NEW b \in Builders, Build(b)
  PROVE  LedgerInv'
<1>1. build[b] \in Builds /\ NoBuild \in Builds /\ NoBuild.pc = "idle"
  BY DEF LedgerInv, Typed, NoBuild, Builds
<1>2. ASSUME LoadTrader(b) PROVE LedgerInv'
  <2> DEFINE x == [NoBuild EXCEPT !.pc = "read"]
  <2>1. x \in Builds /\ x.pc = "read" /\ Remember(b, x)
    BY <1>2 DEF LoadTrader, NoBuild, Builds
  <2> HIDE DEF x
  <2> QED  BY <2>1, BuildStep
<1>3. ASSUME ReadLedger(b) PROVE LedgerInv'
  <2> DEFINE x == [pc |-> "lookup", rows |-> Oldest(Len(ledger)), read |-> Len(ledger)]
  <2>1. Oldest(Len(ledger)) \in SUBSET EventIds /\ Whole(Oldest(Len(ledger)), Len(ledger)) /\ Len(ledger) \in Nat
    BY OldestIsWhole, LedgerIsSequence DEF LedgerInv
  <2>2. x \in Builds /\ x.pc = "lookup" /\ Whole(x.rows, x.read) /\ Remember(b, x)
    BY <1>3, <2>1 DEF ReadLedger, Builds
  <2> HIDE DEF x
  <2> QED  BY <2>2, BuildStep
<1>4. ASSUME LookUp(b) PROVE LedgerInv'
  <2>1. CASE Collected(build[b].rows)
    BY <1>1, <1>4, <2>1, BuildStep DEF LookUp
  <2>2. CASE ~Collected(build[b].rows)
    <3> DEFINE x == [build[b] EXCEPT !.pc = "write"]
    <3>1. x \in Builds /\ x.pc = "write" /\ x.rows = build[b].rows /\ x.read = build[b].read /\ Remember(b, x)
      BY <1>1, <1>4, <2>2 DEF LookUp, Builds
    <3>2. Whole(x.rows, x.read)
      BY <1>4, <3>1 DEF LookUp, LedgerInv, AllWhole
    <3>3. Copies(x.rows) = {}
      BY <2>2, <3>1 DEF Collected, Copies
    <3> HIDE DEF x
    <3> QED  BY <3>1, <3>2, <3>3, BuildStep
  <2> QED  BY <2>1, <2>2
<1>5. ASSUME FailBuild(b) PROVE LedgerInv'
  BY <1>1, <1>5, BuildStep DEF FailBuild
<1> QED
  BY <1>2, <1>3, <1>4, <1>5, WriteStep DEF Build

LEMMA LedgerNext == LedgerInv /\ [Next]_vars => LedgerInv'
<1> SUFFICES ASSUME LedgerInv, [Next]_vars PROVE LedgerInv'
  OBVIOUS
<1>1. ASSUME UNCHANGED <<ledger, collections, tx, build>>, now' \in Nat, events' \in SUBSET EventIds
      PROVE  LedgerInv'
  <2>1. Typed' /\ Distinct' /\ Room'
    BY <1>1 DEF LedgerInv, Typed, Distinct, Room, Pending
  <2>2. AllWhole'
    BY <1>1 DEF LedgerInv, AllWhole, Whole, Committed
  <2>3. Once'
    BY <1>1 DEF LedgerInv, Once, Copies, Writers
  <2> QED  BY <2>1, <2>2, <2>3 DEF LedgerInv
<1>2. now \in Nat /\ events \in SUBSET EventIds
  BY DEF LedgerInv, Typed
<1>3. CASE Tick
  BY <1>1, <1>2, <1>3 DEF Tick
<1>4. CASE Suspend
  BY <1>1, <1>2, <1>4 DEF Suspend
<1>5. ASSUME NEW e \in EventIds, Ingest(e) PROVE LedgerInv'
  BY <1>1, <1>2, <1>5 DEF Ingest
<1>6. CASE UNCHANGED vars
  BY <1>1, <1>2, <1>6 DEF vars
<1> QED
  BY <1>3, <1>4, <1>5, <1>6, ReconcileKeeps, BuildKeeps DEF Next

(* The strengthening is an invariant of the specification.                 *)
LEMMA LedgerKept == Spec => []LedgerInv
  BY LedgerInit, LedgerNext, PTL DEF Spec

-----------------------------------------------------------------------------
(* The limit of the trigger is passed by the requests in flight at most.   *)
THEOREM LimitPassedByFlightOnly == Spec => []LedgerBounded
<1>1. ASSUME LedgerInv PROVE LedgerBounded
  <2> DEFINE n == Len(ledger)
             all == Cardinality(Requests)
             waiting == Cardinality(Pending)
  <2>1. n \in Nat /\ all \in Nat /\ waiting \in Nat /\ RowLimit \in Nat
    BY <1>1, LedgerIsSequence, PendingFinite, LimitsNat DEF LedgerInv
  <2>2. n < RowLimit \/ n + waiting <= RowLimit + all - 1
    BY <1>1 DEF LedgerInv, Room
  <2> HIDE DEF n, all, waiting
  <2>3. n <= RowLimit + all - 1
    BY <2>1, <2>2
  <2> QED  BY <2>3 DEF LedgerBounded, n, all
<1> QED
  BY <1>1, LedgerKept, PTL

(* A collection misses no row of the ledger it has read, unless it is full. *)
THEOREM EvidenceIsWhole == Spec => []EvidenceComplete
<1>1. ASSUME LedgerInv PROVE EvidenceComplete
  BY <1>1 DEF LedgerInv, AllWhole, Whole, Committed, EvidenceComplete
<1> QED
  BY <1>1, LedgerKept, PTL

(* There are no more collections of a snapshot than builds that race.      *)
THEOREM SnapshotPerBuild == Spec => []SnapshotOnce
<1>1. ASSUME LedgerInv PROVE SnapshotOnce
  <2> SUFFICES ASSUME NEW i \in DOMAIN collections
               PROVE  Cardinality(Copies(collections[i].rows)) <= Cardinality(Builders)
    BY DEF SnapshotOnce, Copies
  <2> DEFINE rows == collections[i].rows
             copies == Cardinality(Copies(rows))
             writers == Cardinality(Writers(rows))
             all == Cardinality(Builders)
  <2>1. rows \in SUBSET EventIds
    BY <1>1, LedgerIsSequence DEF LedgerInv, AllWhole, Whole, Committed, Distinct
  <2>2. copies + writers <= all
    BY <1>1, <2>1 DEF LedgerInv, Once
  <2>3. copies \in Nat
    BY <1>1, CopiesFinite DEF LedgerInv
  <2>4. writers \in Nat /\ all \in Nat
    <3>1. Writers(rows) \in SUBSET Builders
      BY DEF Writers
    <3> QED  BY <3>1, FiniteRequests, FS_Subset, FS_CardinalityType
  <2> HIDE DEF copies, writers, all
  <2>5. copies <= all
    BY <2>2, <2>3, <2>4
  <2> QED  BY <2>5 DEF copies, all
<1> QED
  BY <1>1, LedgerKept, PTL
-----------------------------------------------------------------------------
LEMMA ChosenRow ==
  ASSUME NEW S, NEW e, NEW r \in S, r.event = e, \A x, y \in S : x.event = y.event => x = y
  PROVE  (CHOOSE x \in S : x.event = e) = r
  OBVIOUS

LEMMA RowsOf ==
  ASSUME LedgerInv
  PROVE  /\ Rows = {ledger[i] : i \in 1 .. Len(ledger)}
         /\ \A x, y \in Rows : x.event = y.event => x = y
         /\ \A n \in 0 .. Len(ledger) : \A e \in Committed(n) : \E r \in Rows : r.event = e
         /\ \A i \in DOMAIN collections : \A e \in collections[i].rows : \E r \in Rows : r.event = e
<1>1. Len(ledger) \in Nat /\ DOMAIN ledger = 1 .. Len(ledger)
  BY LedgerIsSequence DEF LedgerInv
<1>2. Rows = {ledger[i] : i \in 1 .. Len(ledger)}
  BY <1>1 DEF Rows, Range
<1>3. \A x, y \in Rows : x.event = y.event => x = y
  BY <1>1, <1>2 DEF LedgerInv, Distinct
<1>4. ASSUME NEW n \in 0 .. Len(ledger), NEW e \in Committed(n)
      PROVE  \E r \in Rows : r.event = e
  <2>1. PICK j \in 1 .. n : e = ledger[j].event
    BY DEF Committed
  <2>2. j \in 1 .. Len(ledger)
    BY <1>1
  <2> QED  BY <1>2, <2>1, <2>2
<1>5. ASSUME NEW i \in DOMAIN collections, NEW e \in collections[i].rows
      PROVE  \E r \in Rows : r.event = e
  <2>1. collections[i].read \in 0 .. Len(ledger) /\ e \in Committed(collections[i].read)
    BY DEF LedgerInv, AllWhole, Whole
  <2> QED  BY <1>4, <2>1
<1> QED
  BY <1>2, <1>3, <1>4, <1>5

LEMMA InsertRecords ==
  ASSUME LedgerInv, NEW r \in Requests, Insert(r)
  PROVE  Abstract!Next
<1> DEFINE row == Row(tx[r])
           n == Len(ledger)
<1>1. /\ ledger' = Append(ledger, row) /\ collections' = collections
      /\ row.event = tx[r].event /\ row.tx = Trade[tx[r].event].tx
      /\ \A i \in DOMAIN ledger : ledger[i].event # tx[r].event /\ ledger[i].tx # Trade[tx[r].event].tx
  BY DEF Insert, Unique, Row
<1> HIDE DEF row
<1>2. /\ n \in Nat /\ Len(ledger') = n + 1
      /\ DOMAIN ledger = 1 .. n /\ DOMAIN ledger' = 1 .. (n + 1)
      /\ \A i \in 1 .. n : ledger'[i] = ledger[i]
      /\ ledger'[n + 1] = row
  BY <1>1, Appended DEF LedgerInv, Typed
<1>3. Range(ledger') = Rows \cup {row}
  <2>1. Range(ledger') = {ledger'[i] : i \in 1 .. (n + 1)}
    BY <1>2 DEF Range
  <2>2. 1 .. (n + 1) = (1 .. n) \cup {n + 1}
    BY <1>2
  <2> QED  BY <1>2, <2>1, <2>2, RowsOf
<1>4. \A x \in Rows : x.event # row.event /\ x.tx # row.tx
  BY <1>1, <1>2, RowsOf
<1>5. \A x, y \in Range(ledger') : x.event = y.event => x = y
  BY <1>3, <1>4, RowsOf
<1>6. ASSUME NEW i \in DOMAIN collections, NEW e \in collections[i].rows
      PROVE  RowOf(e)' = RowOf(e)
  <2>1. PICK x \in Rows : x.event = e
    BY RowsOf
  <2>2. RowOf(e) = x
    BY <2>1, ChosenRow, RowsOf DEF RowOf, Rows
  <2>3. (CHOOSE y \in Range(ledger') : y.event = e) = x
    BY <1>3, <1>5, <2>1, ChosenRow
  <2> QED  BY <2>2, <2>3 DEF RowOf
<1>7. Sums' = Sums
  <2>1. Sums' = {{RowOf(e)' : e \in collections[i].rows} : i \in DOMAIN collections}
    BY <1>1 DEF Sums
  <2>2. \A i \in DOMAIN collections : {RowOf(e)' : e \in collections[i].rows} = {RowOf(e) : e \in collections[i].rows}
    BY <1>6
  <2> QED  BY <2>1, <2>2 DEF Sums
<1>8. Rows' = Rows \cup {row}
  BY <1>3 DEF Rows
<1>9. Abstract!Record(row)
  BY <1>4, <1>7, <1>8 DEF Abstract!Record
<1> QED
  BY <1>8, <1>9 DEF Abstract!Next

LEMMA WriteCollects ==
  ASSUME LedgerInv, NEW b \in Builders, WriteCollection(b)
  PROVE  Abstract!Next
<1> DEFINE n == Len(collections)
           mine == build[b].rows
           some == {RowOf(e) : e \in mine}
           c == [rows |-> build[b].rows, read |-> build[b].read,
                 recorded |-> Cardinality(build[b].rows) >= MinTrades,
                 figures |-> IF build[b].rows = {} THEN NoMetrics ELSE Metrics(build[b].rows)]
<1>1. /\ collections' = Append(collections, c) /\ ledger' = ledger
      /\ Whole(mine, build[b].read)
  BY DEF WriteCollection, LedgerInv, AllWhole
<1>2. c.rows = mine
  OBVIOUS
<1> HIDE DEF c
<1>3. /\ n \in Nat /\ DOMAIN collections = 1 .. n /\ DOMAIN collections' = 1 .. (n + 1)
      /\ \A i \in 1 .. n : collections'[i] = collections[i]
      /\ collections'[n + 1] = c
  BY <1>1, Appended DEF LedgerInv, Typed
<1>4. some \in SUBSET Rows
  <2>1. ASSUME NEW e \in mine PROVE RowOf(e) \in Rows
    <3>1. PICK x \in Rows : x.event = e
      BY <1>1, RowsOf DEF Whole
    <3> QED  BY <3>1, ChosenRow, RowsOf DEF RowOf, Rows
  <2> QED  BY <2>1
<1>5. Rows' = Rows /\ \A e : RowOf(e)' = RowOf(e)
  BY <1>1 DEF Rows, RowOf
<1>6. Sums' = Sums \cup {some}
  <2>1. Sums' = {{RowOf(e) : e \in collections'[i].rows} : i \in 1 .. (n + 1)}
    BY <1>3, <1>5 DEF Sums
  <2>2. Sums = {{RowOf(e) : e \in collections[i].rows} : i \in 1 .. n}
    BY <1>3 DEF Sums
  <2>3. 1 .. (n + 1) = (1 .. n) \cup {n + 1}
    BY <1>3
  <2>4. Sums' = {{RowOf(e) : e \in collections'[i].rows} : i \in 1 .. n} \cup {{RowOf(e) : e \in collections'[n + 1].rows}}
    BY <2>1, <2>3
  <2>5. \A i \in 1 .. n : collections'[i].rows = collections[i].rows
    BY <1>3
  <2>6. collections'[n + 1].rows = mine
    BY <1>2, <1>3
  <2> QED  BY <2>2, <2>4, <2>5, <2>6
<1> HIDE DEF some
<1>7. Abstract!Collect(some)
  BY <1>4, <1>5, <1>6 DEF Abstract!Collect
<1>8. some \in Sums'
  BY <1>6
<1> QED
  BY <1>7, <1>8 DEF Abstract!Next

LEMMA StepLedger == LedgerInv /\ [Next]_vars => [Abstract!Next]_<<Rows, Sums>>
<1> SUFFICES ASSUME LedgerInv, [Next]_vars PROVE [Abstract!Next]_<<Rows, Sums>>
  OBVIOUS
<1>1. ASSUME UNCHANGED <<ledger, collections>> PROVE UNCHANGED <<Rows, Sums>>
  BY <1>1 DEF Rows, Sums, RowOf
<1>2. ASSUME NEW r \in Requests, Reconcile(r) PROVE [Abstract!Next]_<<Rows, Sums>>
  <2>1. CASE (\E e \in EventIds, kind \in OfferKinds : Begin(r, e, kind)) \/ Lock(r) \/ CollectFee(r) \/ End(r)
    BY <1>1, <2>1 DEF Begin, Lock, CollectFee, End, Become
  <2> QED  BY <1>2, <2>1, InsertRecords DEF Reconcile
<1>3. ASSUME NEW b \in Builders, Build(b) PROVE [Abstract!Next]_<<Rows, Sums>>
  <2>1. CASE LoadTrader(b) \/ ReadLedger(b) \/ LookUp(b) \/ FailBuild(b)
    BY <1>1, <2>1 DEF LoadTrader, ReadLedger, LookUp, FailBuild, Remember
  <2> QED  BY <1>3, <2>1, WriteCollects DEF Build
<1>4. CASE Tick \/ Suspend \/ (\E e \in EventIds : Ingest(e)) \/ UNCHANGED vars
  BY <1>1, <1>4 DEF Tick, Suspend, Ingest, vars
<1> QED
  BY <1>2, <1>3, <1>4 DEF Next

LEMMA InitLedger == Init => Abstract!Init
<1> SUFFICES ASSUME Init PROVE Abstract!Init
  OBVIOUS
<1>1. ledger = <<>> /\ collections = <<>> /\ DOMAIN ledger = {} /\ DOMAIN collections = {}
  BY DEF Init
<1> QED
  BY <1>1 DEF Abstract!Init, Rows, Sums, Range

(* The ledger and its evidence implement what TradeLedger promises.        *)
THEOREM LedgerImplementsTradeLedger == Spec => LedgerImplemented
  BY InitLedger, StepLedger, LedgerKept, PTL DEF Spec, Abstract!Spec, LedgerImplemented
-----------------------------------------------------------------------------
(* Recursion: what a function defined along a descending chain computes.   *)
(* The least of some numbers. *)
LEMMA Least ==
  ASSUME NEW T, T \subseteq Nat, T # {}
  PROVE  \E m \in T : \A k \in T : m <= k
<1> DEFINE below == {ss \in Nat \X Nat : ss[1] < ss[2]}
<1>1. IsWellFoundedOn(below, Nat)
  BY NatLessThanWellFounded DEF OpToRel
<1>2. PICK m \in T : \A k \in T : ~(<<k, m>> \in below)
  <2> HIDE DEF below
  <2> QED  BY <1>1, WFMin
<1>3. ASSUME NEW k \in T  PROVE m <= k
  <2>1. k \in Nat /\ m \in Nat
    OBVIOUS
  <2>2. ~(k < m)
    BY <1>2, <2>1
  <2> QED  BY <2>1, <2>2
<1> QED  BY <1>3

(* What f is at d follows from what it is at the predecessor of d. *)
Follows(f, D, rank, pred, base, step) ==
  \A d \in D : f[d] = IF rank[d] = 0 THEN base[d] ELSE step[<<d, f[pred[d]]>>]

(* A function may be defined by a step along any chain that descends to a  *)
(* rank of 0.                                                              *)
LEMMA Recursion ==
  ASSUME NEW D, NEW A, NEW rank \in [D -> Nat], NEW pred \in [D -> D],
         NEW base \in [D -> A], NEW step \in [D \X A -> A],
         \A d \in D : rank[d] > 0 => rank[pred[d]] < rank[d]
  PROVE  \E f \in [D -> A] : Follows(f, D, rank, pred, base, step)
<1> DEFINE Up(n) == {d \in D : rank[d] <= n}
           Sol(n) == {f \in [Up(n) -> A] :
                        \A d \in Up(n) : f[d] = IF rank[d] = 0 THEN base[d] ELSE step[<<d, f[pred[d]]>>]}
<1>1. ASSUME NEW n \in Nat, NEW f \in Sol(n)
      PROVE  /\ f \in [Up(n) -> A]
             /\ \A d \in Up(n) : f[d] = IF rank[d] = 0 THEN base[d] ELSE step[<<d, f[pred[d]]>>]
  BY <1>1
<1>2. \A n \in Nat : \A d \in Up(n) :
        d \in D /\ pred[d] \in D /\ rank[d] \in Nat /\ rank[pred[d]] \in Nat /\ rank[d] <= n
  OBVIOUS
<1>3. \A d \in D : d \in Up(rank[d]) /\ rank[d] \in Nat
  OBVIOUS
<1>4. \A n \in Nat : \A d \in Up(n) : rank[d] # 0 => rank[pred[d]] < rank[d] /\ pred[d] \in Up(n)
  BY <1>2
<1>5. ASSUME NEW n \in Nat, NEW f, f \in [Up(n) -> A],
             \A d \in Up(n) : f[d] = IF rank[d] = 0 THEN base[d] ELSE step[<<d, f[pred[d]]>>]
      PROVE  f \in Sol(n)
  BY <1>5
<1>6. \A n \in Nat \ {0} : Up(n - 1) \subseteq Up(n)
  OBVIOUS
<1>7. \A n \in Nat \ {0} : \A d \in Up(n) : rank[d] # 0 => pred[d] \in Up(n - 1)
  BY <1>2
<1>8. \A d \in Up(0) : d \in D /\ rank[d] = 0
  OBVIOUS
<1> HIDE DEF Up, Sol
<1>9. ASSUME NEW n \in Nat, NEW m \in Nat, NEW f \in Sol(n), NEW g \in Sol(m), NEW d \in Up(n), d \in Up(m)
      PROVE  f[d] = g[d]
  <2> DEFINE B == {rank[e] : e \in {x \in Up(n) : x \in Up(m) /\ f[x] # g[x]}}
  <2> SUFFICES ASSUME f[d] # g[d]  PROVE FALSE
    OBVIOUS
  <2>1. B \subseteq Nat /\ rank[d] \in B
    BY <1>2, <1>9
  <2>2. PICK b \in B : \A k \in B : b <= k
    <3> HIDE DEF B
    <3> QED  BY <2>1, Least
  <2>3. PICK e \in Up(n) : e \in Up(m) /\ f[e] # g[e] /\ b = rank[e]
    BY <2>2
  <2>e. f[e] = IF rank[e] = 0 THEN base[e] ELSE step[<<e, f[pred[e]]>>]
    BY <1>1
  <2>f. g[e] = IF rank[e] = 0 THEN base[e] ELSE step[<<e, g[pred[e]]>>]
    BY <1>1, <2>3
  <2>4. rank[e] # 0
    BY <2>3, <2>e, <2>f
  <2>5. rank[pred[e]] < rank[e] /\ pred[e] \in Up(n) /\ pred[e] \in Up(m)
    BY <1>4, <2>3, <2>4
  <2>6. f[pred[e]] # g[pred[e]]
    BY <2>3, <2>4, <2>e, <2>f
  <2>7. rank[pred[e]] \in B
    BY <2>5, <2>6
  <2>8. rank[pred[e]] \in Nat /\ rank[e] \in Nat
    BY <1>2
  <2> HIDE DEF B
  <2> QED  BY <2>2, <2>3, <2>5, <2>7, <2>8
<1>10. ASSUME NEW n \in Nat  PROVE Sol(n) # {}
  <2> DEFINE B == {k \in Nat : Sol(k) = {}}
  <2> SUFFICES ASSUME Sol(n) = {}  PROVE FALSE
    OBVIOUS
  <2>1. B \subseteq Nat /\ n \in B
    OBVIOUS
  <2>2. PICK b \in B : \A k \in B : b <= k
    <3> HIDE DEF B
    <3> QED  BY <2>1, Least
  <2>3. b \in Nat /\ Sol(b) = {}
    OBVIOUS
  <2>4. CASE b = 0
    <3> DEFINE f == [d \in Up(0) |-> base[d]]
    <3>1. f \in Sol(0)
      BY <1>5, <1>8
    <3> QED  BY <2>3, <2>4, <3>1
  <2>5. CASE b # 0
    <3>1. b - 1 \in Nat /\ b - 1 \notin B
      BY <2>2, <2>5
    <3>2. PICK g \in Sol(b - 1) : TRUE
      BY <3>1
    <3> DEFINE f == [d \in Up(b) |-> IF rank[d] = 0 THEN base[d] ELSE step[<<d, g[pred[d]]>>]]
    <3> HIDE DEF B
    <3>3. /\ g \in [Up(b - 1) -> A]
          /\ \A d \in Up(b - 1) : g[d] = IF rank[d] = 0 THEN base[d] ELSE step[<<d, g[pred[d]]>>]
      BY <1>1, <3>1
    <3>4. \A d \in Up(b) : rank[d] # 0 => pred[d] \in Up(b - 1) /\ pred[d] \in Up(b)
      BY <1>4, <1>7, <2>3, <2>5
    <3>5. Up(b - 1) \subseteq Up(b) /\ Up(b) \subseteq D
      BY <1>2, <1>6, <2>3, <2>5
    <3>6. f \in [Up(b) -> A]
      BY <3>3, <3>4, <3>5
    <3>7. \A d \in Up(b - 1) : f[d] = g[d]
      BY <3>3, <3>5
    <3>8. ASSUME NEW d \in Up(b)  PROVE f[d] = IF rank[d] = 0 THEN base[d] ELSE step[<<d, f[pred[d]]>>]
      <4>1. rank[d] # 0 => f[pred[d]] = g[pred[d]]
        BY <3>4, <3>7
      <4>2. f[d] = IF rank[d] = 0 THEN base[d] ELSE step[<<d, g[pred[d]]>>]
        OBVIOUS
      <4> QED  BY <4>1, <4>2
    <3> HIDE DEF f
    <3>9. f \in Sol(b)
      BY <1>5, <2>3, <3>6, <3>8
    <3> QED  BY <2>3, <3>9
  <2> QED  BY <2>4, <2>5
<1> DEFINE G(n) == CHOOSE g : g \in Sol(n)
<1>11. \A n \in Nat : G(n) \in Sol(n)
  BY <1>10
<1> HIDE DEF G
<1> DEFINE f == [d \in D |-> G(rank[d])[d]]
<1>12. ASSUME NEW d \in D  PROVE f[d] \in A
  <2>1. G(rank[d]) \in Sol(rank[d]) /\ d \in Up(rank[d]) /\ rank[d] \in Nat
    BY <1>3, <1>11
  <2>2. G(rank[d]) \in [Up(rank[d]) -> A]
    BY <1>1, <2>1
  <2>3. G(rank[d])[d] \in A
    BY <2>1, <2>2
  <2> QED  BY <2>3
<1>13. ASSUME NEW d \in D  PROVE f[d] = IF rank[d] = 0 THEN base[d] ELSE step[<<d, f[pred[d]]>>]
  <2>1. G(rank[d]) \in Sol(rank[d]) /\ d \in Up(rank[d]) /\ rank[d] \in Nat
    BY <1>3, <1>11
  <2>2. f[d] = IF rank[d] = 0 THEN base[d] ELSE step[<<d, G(rank[d])[pred[d]]>>]
    BY <1>1, <2>1
  <2>3. CASE rank[d] # 0
    <3>1. pred[d] \in D /\ pred[d] \in Up(rank[d])
      BY <1>2, <1>4, <2>1, <2>3
    <3>2. pred[d] \in Up(rank[pred[d]]) /\ rank[pred[d]] \in Nat /\ G(rank[pred[d]]) \in Sol(rank[pred[d]])
      BY <1>3, <1>11, <3>1
    <3>3. G(rank[d])[pred[d]] = G(rank[pred[d]])[pred[d]]
      BY <1>9, <2>1, <3>1, <3>2
    <3> QED  BY <2>2, <2>3, <3>1, <3>3
  <2> QED  BY <2>2, <2>3
<1>14. f \in [D -> A]
  BY <1>12
<1> HIDE DEF f
<1> QED  BY <1>13, <1>14 DEF Follows
-----------------------------------------------------------------------------
(* Histories and their order.                                              *)
LEMMA BeforeOrder ==
  ASSUME NEW e \in EventIds, NEW f \in EventIds, NEW g \in EventIds
  PROVE  /\ ~Before(e, e)
         /\ e # f => Before(e, f) \/ Before(f, e)
         /\ ~(Before(e, f) /\ Before(f, e))
         /\ Before(e, f) /\ Before(f, g) => Before(e, g)
<1>1. e \in Nat /\ f \in Nat /\ g \in Nat
  BY EventIdsNat
<1>2. Trade[e].slot \in Nat /\ Trade[f].slot \in Nat /\ Trade[g].slot \in Nat
  BY TradesNat
<1>3. Trade[e].at \in Nat /\ Trade[f].at \in Nat /\ Trade[g].at \in Nat
  BY TradesNat
<1> QED  BY <1>1, <1>2, <1>3 DEF Before

LEMMA HistorySizes ==
  ASSUME NEW h \in Histories
  PROVE  /\ h \subseteq EventIds /\ IsFiniteSet(h)
         /\ Cardinality(h) \in Nat
         /\ Cardinality(h) = 0 <=> h = {}
         /\ \A x : h \ {x} \in Histories
         /\ \A x \in h : Cardinality(h \ {x}) = Cardinality(h) - 1
<1>1. h \subseteq EventIds /\ IsFiniteSet(h)
  BY DEF Histories
<1>2. Cardinality(h) \in Nat /\ (Cardinality(h) = 0 <=> h = {})
  BY <1>1, FS_CardinalityType, FS_EmptySet
<1>3. \A x : IsFiniteSet(h \ {x}) /\ h \ {x} \subseteq EventIds
  BY <1>1, FS_RemoveElement
<1>4. \A x \in h : Cardinality(h \ {x}) = Cardinality(h) - 1
  BY <1>1, FS_RemoveElement
<1> QED  BY <1>1, <1>2, <1>3, <1>4 DEF Histories

LEMMA LatestOf ==
  ASSUME NEW h \in Histories, h # {}
  PROVE  Latest(h) \in h /\ \A f \in h \ {Latest(h)} : Before(f, Latest(h))
<1> DEFINE HasLast(g) == \E e \in g : \A f \in g \ {e} : Before(f, e)
           B == {Cardinality(g) : g \in {x \in Histories : x # {} /\ ~HasLast(x)}}
<1>1. CASE HasLast(h)
  BY <1>1 DEF Latest
<1>2. CASE ~HasLast(h)
  <2>1. B \subseteq Nat /\ Cardinality(h) \in B
    BY <1>2, HistorySizes
  <2>2. PICK b \in B : \A k \in B : b <= k
    <3> HIDE DEF B
    <3> QED  BY <2>1, Least
  <2>3. PICK g \in Histories : g # {} /\ ~HasLast(g) /\ b = Cardinality(g)
    BY <2>2
  <2>4. PICK x \in g : TRUE
    BY <2>3
  <2>5. g \ {x} \in Histories /\ g \subseteq EventIds /\ Cardinality(g \ {x}) = b - 1 /\ b \in Nat
    BY <2>1, <2>3, HistorySizes
  <2>6. CASE g \ {x} = {}
    BY <2>3, <2>6
  <2>7. CASE g \ {x} # {}
    <3>1. b - 1 \notin B
      BY <2>2, <2>5
    <3>2. HasLast(g \ {x})
      BY <2>5, <2>7, <3>1
    <3>3. PICK y \in g \ {x} : \A f \in (g \ {x}) \ {y} : Before(f, y)
      BY <3>2
    <3>4. CASE Before(x, y)
      <4>1. \A f \in g \ {y} : Before(f, y)
        BY <3>3, <3>4
      <4> QED  BY <2>3, <3>3, <4>1
    <3>5. CASE Before(y, x)
      <4>1. \A f \in g \ {x} : Before(f, x)
        BY <2>5, <3>3, <3>5, BeforeOrder
      <4> QED  BY <2>3, <4>1
    <3> QED  BY <2>5, <3>3, <3>4, <3>5, BeforeOrder
  <2> QED  BY <2>6, <2>7
<1> QED  BY <1>1, <1>2

(* Induction and recursion along a history.                                *)
LEMMA HistoryInduction ==
  ASSUME NEW Good, {} \in Good,
         \A h \in Histories : h # {} /\ h \ {Latest(h)} \in Good => h \in Good
  PROVE  Histories \subseteq Good
<1> SUFFICES ASSUME NEW h \in Histories, h \notin Good  PROVE FALSE
  OBVIOUS
<1> DEFINE B == {Cardinality(g) : g \in Histories \ Good}
<1>1. B \subseteq Nat /\ Cardinality(h) \in B
  BY HistorySizes
<1>2. PICK b \in B : \A k \in B : b <= k
  <2> HIDE DEF B
  <2> QED  BY <1>1, Least
<1>3. PICK g \in Histories \ Good : b = Cardinality(g)
  OBVIOUS
<1>4. g # {} /\ g \ {Latest(g)} \notin Good
  BY <1>3
<1>5. g \ {Latest(g)} \in Histories /\ Cardinality(g \ {Latest(g)}) = b - 1 /\ b \in Nat
  BY <1>3, <1>4, HistorySizes, LatestOf
<1>6. b - 1 \in B
  BY <1>4, <1>5
<1> QED  BY <1>2, <1>5, <1>6

(* What f is of a history follows from what it is without the latest event. *)
Along(f, base, step) ==
  \A h \in Histories : f[h] = IF h = {} THEN base ELSE step[<<h, f[h \ {Latest(h)}]>>]

LEMMA HistoryRecursion ==
  ASSUME NEW A, NEW base \in A, NEW step \in [Histories \X A -> A]
  PROVE  \E f \in [Histories -> A] : Along(f, base, step)
<1> DEFINE rank == [h \in Histories |-> Cardinality(h)]
           pred == [h \in Histories |-> h \ {Latest(h)}]
           bases == [h \in Histories |-> base]
<1>1. rank \in [Histories -> Nat] /\ pred \in [Histories -> Histories] /\ bases \in [Histories -> A]
  BY HistorySizes
<1>2. \A h \in Histories : pred[h] = h \ {Latest(h)} /\ bases[h] = base /\ rank[h] = Cardinality(h)
  OBVIOUS
<1> HIDE DEF rank, pred, bases
<1>3. ASSUME NEW h \in Histories, h # {}  PROVE rank[pred[h]] < rank[h]
  <2>1. h \ {Latest(h)} \in Histories /\ Cardinality(h) \in Nat
    BY HistorySizes
  <2>2. Cardinality(h \ {Latest(h)}) = Cardinality(h) - 1
    BY <1>3, HistorySizes, LatestOf
  <2>3. rank[pred[h]] = Cardinality(h \ {Latest(h)}) /\ rank[h] = Cardinality(h)
    BY <1>2, <2>1
  <2> QED  BY <2>1, <2>2, <2>3
<1>4. \A h \in Histories : rank[h] = 0 <=> h = {}
  BY <1>2, HistorySizes
<1>5. \A h \in Histories : rank[h] > 0 => rank[pred[h]] < rank[h]
  BY <1>1, <1>3, <1>4
<1>6. PICK f \in [Histories -> A] : Follows(f, Histories, rank, pred, bases, step)
  BY <1>1, <1>5, Recursion
<1>7. \A h \in Histories : f[h] = IF rank[h] = 0 THEN bases[h] ELSE step[<<h, f[pred[h]]>>]
  BY <1>6 DEF Follows
<1>8. \A h \in Histories : f[h] = IF h = {} THEN base ELSE step[<<h, f[h \ {Latest(h)}]>>]
  BY <1>2, <1>4, <1>7
<1> QED  BY <1>8 DEF Along

LEMMA TotalOf ==
  ASSUME NEW worth \in [EventIds -> Nat]
  PROVE  /\ Total(worth) \in [Histories -> Nat]
         /\ \A h \in Histories : Total(worth)[h] =
              IF h = {} THEN 0 ELSE worth[Latest(h)] + Total(worth)[h \ {Latest(h)}]
<1> DEFINE step == [x \in Histories \X Nat |-> IF x[1] = {} THEN 0 ELSE worth[Latest(x[1])] + x[2]]
<1>0. \A h \in Histories : h # {} => worth[Latest(h)] \in Nat
  BY LatestOf, HistorySizes
<1>1. step \in [Histories \X Nat -> Nat] /\ 0 \in Nat
  BY <1>0
<1>2. \A h \in Histories, n \in Nat : h # {} => step[<<h, n>>] = worth[Latest(h)] + n
  OBVIOUS
<1> HIDE DEF step
<1>3. PICK f \in [Histories -> Nat] : Along(f, 0, step)
  BY <1>1, HistoryRecursion
<1>4. \A h \in Histories : f[h] = IF h = {} THEN 0 ELSE step[<<h, f[h \ {Latest(h)}]>>]
  BY <1>3 DEF Along
<1>5. \A h \in Histories : f[h] = IF h = {} THEN 0 ELSE worth[Latest(h)] + f[h \ {Latest(h)}]
  BY <1>2, <1>4, HistorySizes
<1>6. f = [h \in Histories |-> IF h = {} THEN 0 ELSE worth[Latest(h)] + f[h \ {Latest(h)}]]
  BY <1>5
<1>7. Total(worth) = [h \in Histories |-> IF h = {} THEN 0 ELSE worth[Latest(h)] + Total(worth)[h \ {Latest(h)}]]
  BY <1>6 DEF Total
<1> DEFINE t == Total(worth)
           Good == {h \in Histories : t[h] \in Nat}
<1>8. \A h \in Histories : t[h] = IF h = {} THEN 0 ELSE worth[Latest(h)] + t[h \ {Latest(h)}]
  BY <1>7
<1>9. DOMAIN t = Histories /\ t = [h \in Histories |-> t[h]]
  BY <1>7
<1> HIDE DEF t
<1>10. Histories \subseteq Good
  <2>1. {} \in Histories
    BY FS_EmptySet DEF Histories
  <2>2. {} \in Good
    BY <1>8, <2>1
  <2>3. ASSUME NEW h \in Histories, h # {}, h \ {Latest(h)} \in Good  PROVE h \in Good
    <3>1. worth[Latest(h)] \in Nat /\ t[h \ {Latest(h)}] \in Nat
      BY <1>0, <2>3
    <3> QED  BY <1>8, <2>3, <3>1
  <2> HIDE DEF Good
  <2> QED  BY <2>2, <2>3, HistoryInduction
<1> QED  BY <1>8, <1>9, <1>10 DEF t
-----------------------------------------------------------------------------
(* Lots.                                                                   *)
Lot == [quantity : Nat, cost : Nat]

(* What a sale has taken so far. *)
Progress == [remaining : Nat, cost : Nat, lots : Seq(Lot)]

(* The cost of some lots.                                                  *)
Adds(w) == w[<<>>] = 0 /\ \A s \in Seq(Lot), x \in Lot : w[Append(s, x)] = w[s] + x.cost

LotsCost == CHOOSE w \in [Seq(Lot) -> Nat] : Adds(w)

LEMMA Fronts ==
  ASSUME NEW S, NEW s \in Seq(S), s # <<>>
  PROVE  /\ Front(s) \in Seq(S) /\ Len(Front(s)) = Len(s) - 1 /\ Last(s) \in S /\ Len(s) \in Nat /\ Len(s) > 0
         /\ \A i \in 1 .. Len(s) - 1 : Front(s)[i] = s[i]
<1>1. Len(s) \in Nat /\ Len(s) > 0 /\ Len(s) - 1 \in Int /\ 1 \in Int
  BY EmptySeq, LenProperties
<1>2. \A i \in 1 .. Len(s) : s[i] \in S
  BY <1>1, ElementOfSeq
<1>3. \A i \in 1 .. Len(s) - 1 : s[i] \in S
  BY <1>1, <1>2
<1>4. /\ Front(s) \in Seq(S)
      /\ Len(Front(s)) = IF 1 <= Len(s) - 1 THEN (Len(s) - 1) - 1 + 1 ELSE 0
      /\ \A i \in 1 .. (Len(s) - 1) - 1 + 1 : Front(s)[i] = s[1 + i - 1]
  BY <1>1, <1>3, SubSeqProperties DEF Front
<1>5. \A i \in 1 .. Len(s) - 1 : i \in 1 .. (Len(s) - 1) - 1 + 1 /\ 1 + i - 1 = i
  BY <1>1
<1>6. \A i \in 1 .. Len(s) - 1 : Front(s)[i] = s[i]
  BY <1>4, <1>5
<1>7. Len(Front(s)) = Len(s) - 1 /\ Len(s) \in 1 .. Len(s)
  <2> DEFINE n == Len(s)
             k == Len(Front(s))
  <2>1. n \in Nat /\ n > 0 /\ k = IF 1 <= n - 1 THEN (n - 1) - 1 + 1 ELSE 0
    BY <1>1, <1>4
  <2> HIDE DEF n, k
  <2>2. k = n - 1 /\ n \in 1 .. n
    BY <2>1
  <2> QED  BY <2>2 DEF n, k
<1>8. Last(s) \in S
  BY <1>1, <1>2, <1>7 DEF Last
<1> QED  BY <1>1, <1>4, <1>6, <1>7, <1>8

LEMMA FrontOfAppend ==
  ASSUME NEW S, NEW s \in Seq(S), NEW x \in S
  PROVE  Append(s, x) \in Seq(S) /\ Append(s, x) # <<>> /\ Front(Append(s, x)) = s /\ Last(Append(s, x)) = x
<1> DEFINE a == Append(s, x)
<1>1. /\ a \in Seq(S) /\ Len(a) = Len(s) + 1 /\ Len(s) \in Nat
      /\ \A i \in 1 .. Len(s) : a[i] = s[i]
      /\ a[Len(s) + 1] = x
  BY AppendProperties, LenProperties
<1>2. a # <<>>
  BY <1>1, EmptySeq
<1> HIDE DEF a
<1>3. /\ Front(a) \in Seq(S) /\ Len(Front(a)) = Len(a) - 1
      /\ \A i \in 1 .. Len(a) - 1 : Front(a)[i] = a[i]
  BY <1>1, <1>2, Fronts
<1>4. Len(Front(a)) = Len(s) /\ \A i \in 1 .. Len(s) : Front(a)[i] = s[i]
  BY <1>1, <1>3
<1>5. Front(a) = s
  BY <1>3, <1>4, SeqEqual
<1>6. Last(a) = x
  BY <1>1 DEF Last
<1> QED  BY <1>1, <1>2, <1>5, <1>6 DEF a

LEMMA LotsWorth == LotsCost \in [Seq(Lot) -> Nat] /\ Adds(LotsCost)
<1> DEFINE rank == [s \in Seq(Lot) |-> Len(s)]
           pred == [s \in Seq(Lot) |-> IF s = <<>> THEN <<>> ELSE Front(s)]
           base == [s \in Seq(Lot) |-> 0]
           step == [x \in Seq(Lot) \X Nat |-> IF x[1] = <<>> THEN 0 ELSE Last(x[1]).cost + x[2]]
<1>1. ASSUME NEW s \in Seq(Lot), s # <<>>
      PROVE  Front(s) \in Seq(Lot) /\ Len(Front(s)) = Len(s) - 1 /\ Last(s) \in Lot /\ Len(s) \in Nat /\ Len(s) > 0
  BY <1>1, Fronts
<1>2. \A s \in Seq(Lot) : Len(s) \in Nat /\ (Len(s) = 0 <=> s = <<>>)
  BY EmptySeq, LenProperties
<1>3. <<>> \in Seq(Lot)
  OBVIOUS
<1>4. /\ rank \in [Seq(Lot) -> Nat] /\ base \in [Seq(Lot) -> Nat]
      /\ pred \in [Seq(Lot) -> Seq(Lot)]
  BY <1>1, <1>2, <1>3
<1>5. step \in [Seq(Lot) \X Nat -> Nat]
  <2>1. \A s \in Seq(Lot) : s # <<>> => Last(s).cost \in Nat
    BY <1>1 DEF Lot
  <2> QED  BY <2>1
<1>6. \A s \in Seq(Lot) : rank[s] = Len(s) /\ base[s] = 0 /\ (s # <<>> => pred[s] = Front(s))
  OBVIOUS
<1>7. \A s \in Seq(Lot), n \in Nat : s # <<>> => step[<<s, n>>] = Last(s).cost + n
  OBVIOUS
<1> HIDE DEF rank, pred, base, step
<1>8. \A s \in Seq(Lot) : rank[s] > 0 => rank[pred[s]] < rank[s]
  BY <1>1, <1>2, <1>6
<1>9. PICK w \in [Seq(Lot) -> Nat] : Follows(w, Seq(Lot), rank, pred, base, step)
  BY <1>4, <1>5, <1>8, Recursion
<1>10. w[<<>>] = 0
  BY <1>2, <1>3, <1>6, <1>9 DEF Follows
<1>11. ASSUME NEW s \in Seq(Lot), NEW x \in Lot  PROVE w[Append(s, x)] = w[s] + x.cost
  <2> DEFINE a == Append(s, x)
  <2>1. a \in Seq(Lot) /\ a # <<>> /\ Front(a) = s /\ Last(a) = x
    BY FrontOfAppend
  <2> HIDE DEF a
  <2>2. w[a] = step[<<a, w[s]>>]
    BY <1>2, <1>6, <1>9, <2>1 DEF Follows
  <2>3. w[a] = x.cost + w[s] /\ x.cost \in Nat /\ w[s] \in Nat
    BY <1>7, <2>1, <2>2 DEF Lot
  <2> QED  BY <2>3 DEF a
<1> QED  BY <1>10, <1>11 DEF Adds, LotsCost

(* A share of a cost, rounded down, is no more than the cost.              *)
LEMMA ShareBounded ==
  ASSUME NEW a \in Nat, NEW t \in Nat, NEW q \in Nat, 0 < q, t <= q
  PROVE  (a * t) \div q \in 0 .. a
<1> DEFINE c == (a * t) \div q
           n == a * t
<1>1. n \in Nat /\ a * q \in Nat
  OBVIOUS
<1>2. c \in Int /\ q * c <= n /\ n < q * (c + 1)
  <2> HIDE DEF n
  <2>1. (n \div q) \in Int /\ q * (n \div q) <= n /\ n < q * ((n \div q) + 1)
    BY <1>1
  <2> QED  BY <2>1 DEF n
<1>3. n <= a * q
  <2>1. a * q - n = a * (q - t)
    OBVIOUS
  <2>2. a * (q - t) >= 0
    <3>1. q - t \in Nat
      OBVIOUS
    <3> QED  BY <3>1
  <2> QED  BY <1>1, <2>1, <2>2
<1> HIDE DEF c, n
<1>4. ~(c < 0)
  <2> SUFFICES ASSUME c < 0  PROVE FALSE
    OBVIOUS
  <2>1. c + 1 <= 0
    BY <1>2
  <2>2. q * (c + 1) <= 0
    <3>1. 0 - (c + 1) \in Nat
      BY <1>2, <2>1
    <3>2. q * (0 - (c + 1)) >= 0
      BY <3>1
    <3> QED  BY <1>2, <3>2
  <2> QED  BY <1>1, <1>2, <2>2
<1>5. ~(c > a)
  <2> SUFFICES ASSUME c > a  PROVE FALSE
    OBVIOUS
  <2>1. c - (a + 1) \in Nat
    BY <1>2
  <2>2. q * (c - (a + 1)) >= 0
    BY <2>1
  <2>3. q * c >= q * a + q
    BY <1>2, <2>2
  <2> QED  BY <1>1, <1>2, <1>3, <2>3
<1> QED  BY <1>2, <1>4, <1>5 DEF c

(* What is taken from a lot and what is left of it have cost what the lot  *)
(* has, rounding included.                                                 *)
LEMMA TakeConserves ==
  ASSUME NEW acc \in Progress, NEW lot \in Lot
  PROVE  /\ Take(acc, lot) \in Progress
         /\ LotsCost[Take(acc, lot).lots] + Take(acc, lot).cost = LotsCost[acc.lots] + acc.cost + lot.cost
<1> DEFINE take == IF lot.quantity <= acc.remaining THEN lot.quantity ELSE acc.remaining
           cost == IF take = lot.quantity THEN lot.cost ELSE (lot.cost * take) \div lot.quantity
           rest == [quantity |-> lot.quantity - take, cost |-> lot.cost - cost]
           t == Take(acc, lot)
<1>1. /\ lot.quantity \in Nat /\ lot.cost \in Nat /\ acc.remaining \in Nat /\ acc.cost \in Nat
      /\ acc.lots \in Seq(Lot)
  BY DEF Lot, Progress
<1>2. take \in Nat /\ take <= lot.quantity /\ take <= acc.remaining
  BY <1>1
<1>3. cost \in 0 .. lot.cost
  <2>1. CASE take = lot.quantity
    BY <1>1, <2>1
  <2>2. CASE take # lot.quantity
    <3>1. 0 < lot.quantity
      BY <1>1, <1>2, <2>2
    <3> HIDE DEF take
    <3>2. (lot.cost * take) \div lot.quantity \in 0 .. lot.cost
      BY <1>1, <1>2, <3>1, ShareBounded
    <3> QED  BY <2>2, <3>2
  <2> QED  BY <2>1, <2>2
<1>4. t.remaining = acc.remaining - take /\ t.cost = acc.cost + cost
      /\ t.lots = (IF take = lot.quantity THEN acc.lots ELSE Append(acc.lots, rest))
      /\ t = [remaining |-> t.remaining, cost |-> t.cost, lots |-> t.lots]
  BY DEF Take
<1> HIDE DEF t
<1>5. take = lot.quantity => cost = lot.cost
  OBVIOUS
<1> HIDE DEF take, cost
<1>6. rest \in Lot
  BY <1>1, <1>2, <1>3 DEF Lot
<1>7. rest.cost = lot.cost - cost
  OBVIOUS
<1> HIDE DEF rest
<1>8. t.lots \in Seq(Lot)
  BY <1>1, <1>4, <1>6, AppendProperties
<1>9. t.remaining \in Nat /\ t.cost \in Nat
  BY <1>1, <1>2, <1>3, <1>4
<1>10. t \in Progress
  BY <1>4, <1>8, <1>9 DEF Progress
<1>11. LotsCost[t.lots] + t.cost = LotsCost[acc.lots] + acc.cost + lot.cost
  <2>1. LotsCost[acc.lots] \in Nat
    BY <1>1, LotsWorth
  <2>2. CASE take = lot.quantity
    BY <1>1, <1>4, <1>5, <2>1, <2>2
  <2>3. CASE take # lot.quantity
    <3>1. LotsCost[t.lots] = LotsCost[acc.lots] + rest.cost
      BY <1>1, <1>4, <1>6, <2>3, LotsWorth DEF Adds
    <3> QED  BY SMTT(60), <1>1, <1>3, <1>4, <1>7, <2>1, <3>1
  <2> QED  BY <2>2, <2>3
<1> QED  BY <1>10, <1>11 DEF t

LEMMA ConsumeConserves ==
  ASSUME NEW lots \in Seq(Lot), NEW quantity \in Nat
  PROVE  /\ ConsumeFifo(lots, quantity) \in Progress
         /\ LotsCost[ConsumeFifo(lots, quantity).lots] + ConsumeFifo(lots, quantity).cost = LotsCost[lots]
<1> DEFINE n == Len(lots)
           D == 0 .. n
           start == [remaining |-> quantity, cost |-> 0, lots |-> <<>>]
           rank == [i \in D |-> i]
           pred == [i \in D |-> IF i = 0 THEN 0 ELSE i - 1]
           base == [i \in D |-> start]
           step == [x \in D \X Progress |-> IF x[1] = 0 THEN start ELSE Take(x[2], lots[x[1]])]
<1>1. n \in Nat /\ \A i \in 1 .. n : lots[i] \in Lot
  BY LenProperties, ElementOfSeq
<1>2. start \in Progress
  BY DEF Progress
<1>3. \A i \in D, acc \in Progress : i # 0 => Take(acc, lots[i]) \in Progress
  BY <1>1, TakeConserves
<1>4. step \in [D \X Progress -> Progress]
  <2> HIDE DEF start
  <2> QED  BY <1>2, <1>3
<1>5. rank \in [D -> Nat] /\ pred \in [D -> D] /\ \A i \in D : rank[i] > 0 => rank[pred[i]] < rank[i]
  BY <1>1
<1>6. base \in [D -> Progress]
  BY <1>2
<1>7. \A i \in D : rank[i] = i /\ base[i] = start /\ (i # 0 => pred[i] = i - 1)
  OBVIOUS
<1>8. \A i \in D, acc \in Progress : i # 0 => step[<<i, acc>>] = Take(acc, lots[i])
  OBVIOUS
<1> HIDE DEF rank, pred, base, step, start, n
<1>9. PICK f \in [D -> Progress] : Follows(f, D, rank, pred, base, step)
  <2> HIDE DEF D
  <2> QED  BY <1>4, <1>5, <1>6, Recursion
<1>10. \A i \in D : f[i] = IF i = 0 THEN start ELSE Take(f[i - 1], lots[i])
  <2> SUFFICES ASSUME NEW i \in D  PROVE f[i] = IF i = 0 THEN start ELSE Take(f[i - 1], lots[i])
    OBVIOUS
  <2>1. f[i] = IF rank[i] = 0 THEN base[i] ELSE step[<<i, f[pred[i]]>>]
    BY <1>9 DEF Follows
  <2>2. CASE i # 0
    <3>1. i - 1 \in D /\ f[i - 1] \in Progress
      BY <1>1, <2>2
    <3> QED  BY <1>7, <1>8, <2>1, <2>2, <3>1
  <2> QED  BY <1>7, <2>1, <2>2
<1> DEFINE c == CHOOSE g : g = [i \in D |-> IF i = 0 THEN start ELSE Take(g[i - 1], lots[i])]
<1>11. f = [i \in D |-> IF i = 0 THEN start ELSE Take(f[i - 1], lots[i])]
  BY <1>10
<1>12. c = [i \in D |-> IF i = 0 THEN start ELSE Take(c[i - 1], lots[i])]
  BY <1>11
<1>13. ConsumeFifo(lots, quantity) = c[n]
  BY DEF ConsumeFifo, start, n
<1> HIDE DEF c
<1>14. \A i \in D : c[i] = IF i = 0 THEN start ELSE Take(c[i - 1], lots[i])
  BY <1>12
<1> DEFINE Good(i) == /\ c[i] \in Progress
                      /\ LotsCost[c[i].lots] + c[i].cost = LotsCost[SubSeq(lots, 1, i)]
           Bad == {i \in D : ~Good(i)}
<1>15. Good(0)
  <2>1. SubSeq(lots, 1, 0) = <<>>
    BY SubSeqEmpty
  <2>2. c[0] = start /\ start.lots = <<>> /\ start.cost = 0
    BY <1>1, <1>14 DEF start
  <2>3. LotsCost[<<>>] = 0
    BY LotsWorth DEF Adds
  <2>4. c[0] \in Progress /\ c[0].lots = <<>> /\ c[0].cost = 0
    BY <1>2, <2>2
  <2>5. LotsCost[c[0].lots] + c[0].cost = 0
    BY <2>3, <2>4
  <2> QED  BY <2>1, <2>3, <2>4, <2>5
<1>16. ASSUME NEW i \in 1 .. n, Good(i - 1)  PROVE Good(i)
  <2>1. c[i] = Take(c[i - 1], lots[i]) /\ lots[i] \in Lot
    BY <1>1, <1>14
  <2>2. SubSeq(lots, 1, i) = Append(SubSeq(lots, 1, i - 1), lots[i]) /\ SubSeq(lots, 1, i - 1) \in Seq(Lot)
    <3>1. SubSeq(lots, 1, i) = SubSeq(lots, 1, i - 1) \o <<lots[i]>>
      BY <1>1, SubSeqRecursiveSecond DEF n
    <3>2. SubSeq(lots, 1, i - 1) \in Seq(Lot)
      BY <1>1, SubSeqProperties
    <3> QED  BY <2>1, <3>1, <3>2, AppendIsConcat
  <2>3. LotsCost[SubSeq(lots, 1, i)] = LotsCost[SubSeq(lots, 1, i - 1)] + lots[i].cost
    BY <2>1, <2>2, LotsWorth DEF Adds
  <2>4. c[i] \in Progress
    BY <1>16, <2>1, TakeConserves
  <2>5. LotsCost[c[i].lots] + c[i].cost = LotsCost[c[i - 1].lots] + c[i - 1].cost + lots[i].cost
    BY <1>16, <2>1, TakeConserves
  <2> HIDE DEF c
  <2>6. LotsCost[c[i].lots] + c[i].cost = LotsCost[SubSeq(lots, 1, i)]
    BY <1>16, <2>3, <2>5
  <2> QED  BY <2>4, <2>6
<1>17. Good(n)
  <2> SUFFICES ASSUME ~Good(n)  PROVE FALSE
    OBVIOUS
  <2> HIDE DEF Good
  <2>1. n \in Bad /\ Bad \subseteq Nat
    BY <1>1
  <2>2. PICK b \in Bad : \A k \in Bad : b <= k
    <3> HIDE DEF Bad
    <3> QED  BY <2>1, Least
  <2>3. b # 0 /\ b \in 1 .. n /\ ~Good(b)
    BY <1>1, <1>15, <2>2
  <2>4. b - 1 \in D /\ b - 1 \notin Bad
    BY <1>1, <2>2, <2>3
  <2> QED  BY <1>16, <2>3, <2>4
<1>18. SubSeq(lots, 1, n) = lots
  BY SubSeqFull DEF n
<1> QED  BY <1>13, <1>17, <1>18

-----------------------------------------------------------------------------
(* Totals compare like the worths they add.                                *)
LEMMA TotalMonotone ==
  ASSUME NEW f \in [EventIds -> Nat], NEW g \in [EventIds -> Nat], NEW h \in Histories, \A e \in h : f[e] <= g[e]
  PROVE  Total(f)[h] <= Total(g)[h]
<1> DEFINE Below(k) == (\A e \in k : f[e] <= g[e]) => Total(f)[k] <= Total(g)[k]
           Good == {k \in Histories : Below(k)}
<1>1. {} \in Histories /\ Below({})
  <2>1. {} \in Histories
    BY FS_EmptySet DEF Histories
  <2>2. Total(f)[{}] = 0 /\ Total(g)[{}] = 0
    BY <2>1, TotalOf
  <2> QED  BY <2>1, <2>2
<1>2. ASSUME NEW k \in Histories, k # {}, Below(k \ {Latest(k)}), \A e \in k : f[e] <= g[e]
      PROVE  Total(f)[k] <= Total(g)[k]
  <2>1. Latest(k) \in k /\ Latest(k) \in EventIds /\ k \ {Latest(k)} \in Histories
    BY <1>2, LatestOf, HistorySizes
  <2>2. Total(f)[k \ {Latest(k)}] <= Total(g)[k \ {Latest(k)}]
    BY <1>2
  <2>3. /\ Total(f)[k] = f[Latest(k)] + Total(f)[k \ {Latest(k)}]
        /\ Total(g)[k] = g[Latest(k)] + Total(g)[k \ {Latest(k)}]
    BY <1>2, TotalOf
  <2>4. /\ Total(f)[k \ {Latest(k)}] \in Nat /\ Total(g)[k \ {Latest(k)}] \in Nat
        /\ f[Latest(k)] \in Nat /\ g[Latest(k)] \in Nat /\ f[Latest(k)] <= g[Latest(k)]
    BY <1>2, <2>1, TotalOf
  <2> QED  BY <2>2, <2>3, <2>4
<1>3. Histories \subseteq Good
  <2>1. {} \in Good
    BY <1>1
  <2>2. \A k \in Histories : k # {} /\ k \ {Latest(k)} \in Good => k \in Good
    BY <1>2
  <2> HIDE DEF Good
  <2> QED  BY <2>1, <2>2, HistoryInduction
<1> QED  BY <1>3

-----------------------------------------------------------------------------
(* The books of a history.                                                 *)
CostMaps == UNION {[S -> Nat] : S \in SUBSET EventIds}

Kept == [lots : [Tokens -> Seq(Lot)], blocked : SUBSET Tokens, issues : SUBSET EventIds,
         skipped : SUBSET EventIds, cost : CostMaps]

Sold(b, e) == ConsumeFifo(b.lots[BaseMint(e)], Trade[e].quantity)

LEMMA BookCases ==
  ASSUME NEW b \in Kept, NEW e \in EventIds
  PROVE  /\ BaseMint(e) \in Tokens
         /\ Sold(b, e) \in Progress
         /\ b.lots[BaseMint(e)] \in Seq(Lot)
         /\ LotsCost[Sold(b, e).lots] + Sold(b, e).cost = LotsCost[b.lots[BaseMint(e)]]
         /\ \/ Book(b, e) = [b EXCEPT !.skipped = @ \cup {e}]
            \/ /\ Buys(e) /\ ~QuotePair(e)
               /\ Book(b, e) = [b EXCEPT !.lots[BaseMint(e)] =
                                  Append(@, [quantity |-> Trade[e].quantity, cost |-> Trade[e].usd])]
            \/ /\ ~Buys(e)
               /\ Book(b, e) = [b EXCEPT !.blocked = @ \cup {BaseMint(e)}, !.issues = @ \cup {e}, !.lots[BaseMint(e)] = <<>>]
            \/ /\ ~Buys(e)
               /\ Book(b, e) = [b EXCEPT !.lots[BaseMint(e)] = Sold(b, e).lots, !.cost = Push(@, e, Sold(b, e).cost)]
<1>1. BaseMint(e) \in Tokens
  BY DEF BaseMint, Tokens
<1>2. b.lots[BaseMint(e)] \in Seq(Lot) /\ Trade[e].quantity \in Nat
  BY <1>1, TradesNat DEF Kept
<1>3. Sold(b, e) \in Progress /\ LotsCost[Sold(b, e).lots] + Sold(b, e).cost = LotsCost[b.lots[BaseMint(e)]]
  BY <1>2, ConsumeConserves DEF Sold
<1>4. CASE QuotePair(e) \/ Blocked(b, e)
  BY <1>1, <1>2, <1>3, <1>4 DEF Book
<1>5. CASE ~(QuotePair(e) \/ Blocked(b, e)) /\ Buys(e)
  BY <1>1, <1>2, <1>3, <1>5 DEF Book
<1>6. CASE ~(QuotePair(e) \/ Blocked(b, e)) /\ ~Buys(e)
  BY <1>1, <1>2, <1>3, <1>6 DEF Book, Sold
<1> QED  BY <1>4, <1>5, <1>6

(* What booking e may do to the lots of each token and to the costs.       *)
LEMMA BookStep ==
  ASSUME NEW b \in Kept, NEW e \in EventIds, e \notin DOMAIN b.cost
  PROVE  /\ Book(b, e) \in Kept
         /\ DOMAIN Book(b, e).cost \subseteq DOMAIN b.cost \cup {e}
         /\ DOMAIN b.cost \subseteq DOMAIN Book(b, e).cost
         /\ \A f \in DOMAIN b.cost : Book(b, e).cost[f] = b.cost[f]
         /\ \A m \in Tokens \ {BaseMint(e)} : Book(b, e).lots[m] = b.lots[m]
         /\ LET m == BaseMint(e)
                spent == IF e \in DOMAIN Book(b, e).cost THEN Book(b, e).cost[e] ELSE 0
                paid == IF Buys(e) /\ ~QuotePair(e) THEN Trade[e].usd ELSE 0 IN
            /\ m \in Tokens
            /\ spent + LotsCost[Book(b, e).lots[m]] <= paid + LotsCost[b.lots[m]]
<1> DEFINE m == BaseMint(e)
           n == Book(b, e)
           s == Sold(b, e)
           paid == IF Buys(e) /\ ~QuotePair(e) THEN Trade[e].usd ELSE 0
           lot == [quantity |-> Trade[e].quantity, cost |-> Trade[e].usd]
<1>1. /\ m \in Tokens /\ s \in Progress /\ b.lots[m] \in Seq(Lot)
      /\ LotsCost[s.lots] + s.cost = LotsCost[b.lots[m]]
      /\ \/ n = [b EXCEPT !.skipped = @ \cup {e}]
         \/ Buys(e) /\ ~QuotePair(e) /\ n = [b EXCEPT !.lots[m] = Append(@, lot)]
         \/ n = [b EXCEPT !.blocked = @ \cup {m}, !.issues = @ \cup {e}, !.lots[m] = <<>>]
         \/ n = [b EXCEPT !.lots[m] = s.lots, !.cost = Push(@, e, s.cost)]
  BY BookCases
<1>2. paid \in Nat /\ lot \in Lot /\ lot.cost = Trade[e].usd
  BY TradesNat DEF Lot
<1>3. /\ b.lots \in [Tokens -> Seq(Lot)] /\ b.blocked \subseteq Tokens /\ b.issues \subseteq EventIds
      /\ b.skipped \subseteq EventIds /\ b.cost \in CostMaps
      /\ b = [lots |-> b.lots, blocked |-> b.blocked, issues |-> b.issues, skipped |-> b.skipped, cost |-> b.cost]
  BY DEF Kept
<1>4. s.lots \in Seq(Lot) /\ s.cost \in Nat /\ <<>> \in Seq(Lot)
  BY <1>1 DEF Progress
<1>5. PICK S \in SUBSET EventIds : b.cost \in [S -> Nat]
  BY <1>3 DEF CostMaps
<1> HIDE DEF m, n, s, lot
<1>6. /\ Push(b.cost, e, s.cost) \in CostMaps
      /\ DOMAIN Push(b.cost, e, s.cost) = DOMAIN b.cost \cup {e}
      /\ Push(b.cost, e, s.cost)[e] = s.cost
      /\ \A f \in DOMAIN b.cost : Push(b.cost, e, s.cost)[f] = b.cost[f]
  <2>1. Push(b.cost, e, s.cost) = [f \in S \cup {e} |-> IF f = e THEN s.cost ELSE b.cost[f]]
    BY <1>5 DEF Push
  <2>2. Push(b.cost, e, s.cost) \in [S \cup {e} -> Nat] /\ S \cup {e} \in SUBSET EventIds
    BY <1>4, <1>5, <2>1
  <2>3. Push(b.cost, e, s.cost) \in CostMaps
    BY <2>2 DEF CostMaps
  <2> QED  BY <1>5, <2>1, <2>3
<1>7. LotsCost[b.lots[m]] \in Nat /\ LotsCost[s.lots] \in Nat /\ LotsCost[<<>>] = 0
  BY <1>1, <1>4, LotsWorth DEF Adds
<1> DEFINE Fine(k) == /\ k \in Kept
                      /\ DOMAIN k.cost \subseteq DOMAIN b.cost \cup {e}
                      /\ DOMAIN b.cost \subseteq DOMAIN k.cost
                      /\ \A f \in DOMAIN b.cost : k.cost[f] = b.cost[f]
                      /\ \A t \in Tokens \ {m} : k.lots[t] = b.lots[t]
                      /\ (IF e \in DOMAIN k.cost THEN k.cost[e] ELSE 0) + LotsCost[k.lots[m]]
                           <= paid + LotsCost[b.lots[m]]
<1> SUFFICES Fine(n)
  BY <1>1 DEF m, n
<1>8. CASE n = [b EXCEPT !.skipped = @ \cup {e}]
  <2> DEFINE k == [lots |-> b.lots, blocked |-> b.blocked, issues |-> b.issues, skipped |-> b.skipped \cup {e}, cost |-> b.cost]
  <2>1. n = k
    BY <1>3, <1>8
  <2>2. k \in Kept
    BY <1>3 DEF Kept
  <2>3. Fine(k)
    BY <1>2, <1>7, <2>2
  <2> HIDE DEF k, Fine
  <2> QED  BY <2>1, <2>3
<1>9. CASE Buys(e) /\ ~QuotePair(e) /\ n = [b EXCEPT !.lots[m] = Append(@, lot)]
  <2> DEFINE lots == [b.lots EXCEPT ![m] = Append(b.lots[m], lot)]
             k == [lots |-> lots, blocked |-> b.blocked, issues |-> b.issues, skipped |-> b.skipped, cost |-> b.cost]
  <2>1. n = k
    BY <1>3, <1>9
  <2>2. Append(b.lots[m], lot) \in Seq(Lot) /\ LotsCost[Append(b.lots[m], lot)] = LotsCost[b.lots[m]] + lot.cost
    BY <1>1, <1>2, AppendProperties, LotsWorth DEF Adds
  <2>3. lots \in [Tokens -> Seq(Lot)] /\ lots[m] = Append(b.lots[m], lot) /\ \A t \in Tokens \ {m} : lots[t] = b.lots[t]
    BY <1>1, <1>3, <2>2
  <2> HIDE DEF lots
  <2>4. k \in Kept
    BY <1>3, <2>3 DEF Kept
  <2>5. paid = lot.cost
    BY <1>2, <1>9
  <2> HIDE DEF paid
  <2>6. LotsCost[lots[m]] <= paid + LotsCost[b.lots[m]] /\ LotsCost[lots[m]] \in Nat
    BY <1>2, <1>7, <2>2, <2>3, <2>5
  <2>7. k.lots = lots /\ k.cost = b.cost
    OBVIOUS
  <2> HIDE DEF k
  <2>8. (IF e \in DOMAIN k.cost THEN k.cost[e] ELSE 0) + LotsCost[k.lots[m]] <= paid + LotsCost[b.lots[m]]
    <3>1. (IF e \in DOMAIN k.cost THEN k.cost[e] ELSE 0) = 0
      BY <2>7
    <3>2. k.lots[m] = lots[m]
      BY <2>7
    <3> QED  BY <2>6, <3>1, <3>2
  <2>9. \A t \in Tokens \ {m} : k.lots[t] = b.lots[t]
    BY <2>3, <2>7
  <2>10. Fine(k)
    BY <2>4, <2>7, <2>8, <2>9
  <2> HIDE DEF k, Fine
  <2> QED  BY <2>1, <2>10
<1>10. CASE n = [b EXCEPT !.blocked = @ \cup {m}, !.issues = @ \cup {e}, !.lots[m] = <<>>]
  <2> DEFINE lots == [b.lots EXCEPT ![m] = <<>>]
             k == [lots |-> lots, blocked |-> b.blocked \cup {m}, issues |-> b.issues \cup {e}, skipped |-> b.skipped, cost |-> b.cost]
  <2>1. n = k
    BY <1>3, <1>10
  <2>2. lots \in [Tokens -> Seq(Lot)] /\ lots[m] = <<>> /\ \A t \in Tokens \ {m} : lots[t] = b.lots[t]
    BY <1>1, <1>3, <1>4
  <2> HIDE DEF lots
  <2>3. k \in Kept
    BY <1>1, <1>3, <2>2 DEF Kept
  <2> HIDE DEF paid
  <2>4. LotsCost[lots[m]] = 0
    BY <1>7, <2>2
  <2>5. Fine(k)
    BY <1>2, <1>7, <2>2, <2>3, <2>4
  <2> HIDE DEF k, Fine
  <2> QED  BY <2>1, <2>5
<1>11. CASE n = [b EXCEPT !.lots[m] = s.lots, !.cost = Push(@, e, s.cost)]
  <2> DEFINE lots == [b.lots EXCEPT ![m] = s.lots]
             costs == Push(b.cost, e, s.cost)
             k == [lots |-> lots, blocked |-> b.blocked, issues |-> b.issues, skipped |-> b.skipped, cost |-> costs]
  <2>1. n = k
    BY <1>3, <1>11
  <2>2. lots \in [Tokens -> Seq(Lot)] /\ lots[m] = s.lots /\ \A t \in Tokens \ {m} : lots[t] = b.lots[t]
    BY <1>1, <1>3, <1>4
  <2>3. /\ costs \in CostMaps /\ DOMAIN costs = DOMAIN b.cost \cup {e} /\ costs[e] = s.cost
        /\ \A f \in DOMAIN b.cost : costs[f] = b.cost[f]
    BY <1>6
  <2> HIDE DEF lots, costs
  <2>4. k \in Kept
    BY <1>3, <2>2, <2>3 DEF Kept
  <2> HIDE DEF paid
  <2>5. Fine(k)
    BY <1>1, <1>2, <1>4, <1>7, <2>2, <2>3, <2>4
  <2> HIDE DEF k, Fine
  <2> QED  BY <2>1, <2>5
<1> HIDE DEF Fine
<1> QED  BY <1>1, <1>8, <1>9, <1>10, <1>11

LEMMA EmptyKept ==
  /\ Empty \in Kept /\ DOMAIN Empty.cost = {}
  /\ \A m \in Tokens : LotsCost[Empty.lots[m]] = 0
<1>1. Empty.lots = [m \in Tokens |-> <<>>] /\ Empty.cost = [e \in {} |-> 0]
  BY DEF Empty
<1>2. [m \in Tokens |-> <<>>] \in [Tokens -> Seq(Lot)]
  OBVIOUS
<1>3. [e \in {} |-> 0] \in CostMaps
  <2>1. [e \in {} |-> 0] \in [{} -> Nat]
    OBVIOUS
  <2> QED  BY <2>1 DEF CostMaps
<1>4. Empty \in Kept
  BY <1>2, <1>3 DEF Empty, Kept
<1>5. ASSUME NEW m \in Tokens  PROVE LotsCost[Empty.lots[m]] = 0
  <2>1. LotsCost[<<>>] = 0
    BY LotsWorth DEF Adds
  <2>2. Empty.lots[m] = <<>>
    BY <1>1
  <2> QED  BY <2>1, <2>2
<1>6. DOMAIN Empty.cost = {}
  BY <1>1
<1> QED  BY <1>4, <1>5, <1>6

LEMMA BooksOf ==
  /\ Histories = DOMAIN Books
  /\ \A h \in Histories :
       /\ Books[h] = IF h = {} THEN Empty ELSE Book(Books[h \ {Latest(h)}], Latest(h))
       /\ Books[h] \in Kept /\ DOMAIN Books[h].cost \subseteq h
<1> DEFINE step == [x \in Histories \X Kept |->
             IF x[1] = {} \/ Latest(x[1]) \in DOMAIN x[2].cost THEN Empty ELSE Book(x[2], Latest(x[1]))]
<1>1. \A h \in Histories : h # {} => Latest(h) \in h /\ Latest(h) \in EventIds /\ h \ {Latest(h)} \in Histories
  BY LatestOf, HistorySizes
<1>2. step \in [Histories \X Kept -> Kept] /\ Empty \in Kept
  <2>1. \A h \in Histories, b \in Kept : h # {} /\ Latest(h) \notin DOMAIN b.cost => Book(b, Latest(h)) \in Kept
    BY <1>1, BookStep
  <2> QED  BY <2>1, EmptyKept
<1>3. \A h \in Histories, b \in Kept : h # {} /\ Latest(h) \notin DOMAIN b.cost => step[<<h, b>>] = Book(b, Latest(h))
  OBVIOUS
<1> HIDE DEF step
<1>4. PICK f \in [Histories -> Kept] : Along(f, Empty, step)
  BY <1>2, HistoryRecursion
<1> DEFINE Fine(g, h) == g[h] \in Kept /\ DOMAIN g[h].cost \subseteq h
           Good(g) == {h \in Histories : Fine(g, h)}
<1>5. {} \in Histories /\ Fine([h \in Histories |-> Empty], {})
  BY EmptyKept, FS_EmptySet DEF Histories
<1>6. ASSUME NEW h \in Histories, h # {}, Fine(f, h \ {Latest(h)})
      PROVE  f[h] = Book(f[h \ {Latest(h)}], Latest(h)) /\ Fine(f, h)
  <2>1. Latest(h) \notin DOMAIN f[h \ {Latest(h)}].cost
    BY <1>6
  <2>2. f[h] = Book(f[h \ {Latest(h)}], Latest(h))
    BY <1>3, <1>4, <1>6, <2>1 DEF Along
  <2>3. Latest(h) \in h /\ Latest(h) \in EventIds
    BY <1>1, <1>6
  <2>4. f[h] \in Kept /\ DOMAIN f[h].cost \subseteq DOMAIN f[h \ {Latest(h)}].cost \cup {Latest(h)}
    BY <1>6, <2>1, <2>2, <2>3, BookStep
  <2> QED  BY <1>6, <2>2, <2>3, <2>4
<1>7. f[{}] = Empty
  BY <1>4, <1>5 DEF Along
<1>8. Histories \subseteq Good(f)
  <2>1. {} \in Good(f)
    BY <1>5, <1>7, EmptyKept
  <2>2. \A h \in Histories : h # {} /\ h \ {Latest(h)} \in Good(f) => h \in Good(f)
    BY <1>6
  <2> HIDE DEF Good
  <2> QED  BY <2>1, <2>2, HistoryInduction
<1>9. \A h \in Histories : f[h] = IF h = {} THEN Empty ELSE Book(f[h \ {Latest(h)}], Latest(h))
  BY <1>1, <1>6, <1>7, <1>8
<1>10. f = [h \in Histories |-> IF h = {} THEN Empty ELSE Book(f[h \ {Latest(h)}], Latest(h))]
  BY <1>9
<1>11. Books = [h \in Histories |-> IF h = {} THEN Empty ELSE Book(Books[h \ {Latest(h)}], Latest(h))]
  BY <1>10 DEF Books
<1> DEFINE k == Books
<1>12. DOMAIN k = Histories /\ \A h \in Histories : k[h] = IF h = {} THEN Empty ELSE Book(k[h \ {Latest(h)}], Latest(h))
  BY <1>11
<1> HIDE DEF k
<1>13. Histories \subseteq Good(k)
  <2>1. {} \in Good(k)
    BY <1>5, <1>12, EmptyKept
  <2>2. ASSUME NEW h \in Histories, h # {}, h \ {Latest(h)} \in Good(k)
        PROVE  h \in Good(k)
    <3>1. Latest(h) \notin DOMAIN k[h \ {Latest(h)}].cost /\ k[h \ {Latest(h)}] \in Kept
      BY <2>2
    <3>2. k[h] = Book(k[h \ {Latest(h)}], Latest(h))
      BY <1>12, <2>2
    <3>3. Latest(h) \in h /\ Latest(h) \in EventIds
      BY <1>1, <2>2
    <3> DEFINE b == k[h \ {Latest(h)}]
               e == Latest(h)
    <3>4. k[h] \in Kept /\ DOMAIN k[h].cost \subseteq DOMAIN b.cost \cup {e}
      <4>1. b \in Kept /\ e \in EventIds /\ e \notin DOMAIN b.cost /\ k[h] = Book(b, e)
        BY <3>1, <3>2, <3>3
      <4> HIDE DEF b, e
      <4>2. Book(b, e) \in Kept /\ DOMAIN Book(b, e).cost \subseteq DOMAIN b.cost \cup {e}
        BY <4>1, BookStep
      <4> QED  BY <4>1, <4>2
    <3> QED  BY <2>2, <3>3, <3>4
  <2> HIDE DEF Good
  <2> QED  BY <2>1, <2>2, HistoryInduction
<1> QED  BY <1>12, <1>13 DEF k

(* What booking the latest event leaves of the books before it.            *)
LEMMA BooksStep ==
  ASSUME NEW h \in Histories, h # {}
  PROVE  LET e == Latest(h)
             k == h \ {e} IN
         /\ e \in h /\ e \in EventIds /\ k \in Histories /\ h = k \cup {e} /\ e \notin k
         /\ Books[h] \in Kept /\ Books[k] \in Kept
         /\ DOMAIN Books[k].cost \subseteq k
         /\ DOMAIN Books[h].cost \subseteq DOMAIN Books[k].cost \cup {e}
         /\ DOMAIN Books[k].cost \subseteq DOMAIN Books[h].cost
         /\ \A f \in DOMAIN Books[k].cost : Books[h].cost[f] = Books[k].cost[f]
         /\ \A m \in Tokens \ {BaseMint(e)} : Books[h].lots[m] = Books[k].lots[m]
         /\ BaseMint(e) \in Tokens
         /\ (IF e \in DOMAIN Books[h].cost THEN Books[h].cost[e] ELSE 0) + LotsCost[Books[h].lots[BaseMint(e)]]
              <= (IF Buys(e) /\ ~QuotePair(e) THEN Trade[e].usd ELSE 0) + LotsCost[Books[k].lots[BaseMint(e)]]
<1> DEFINE e == Latest(h)
           k == h \ {e}
<1>1. e \in h /\ e \in EventIds /\ k \in Histories /\ h = k \cup {e} /\ e \notin k
  BY LatestOf, HistorySizes
<1>2. Books[h] = Book(Books[k], e)
  BY BooksOf
<1> HIDE DEF e, k
<1>3. Books[h] \in Kept /\ Books[k] \in Kept /\ DOMAIN Books[k].cost \subseteq k
  BY <1>1, BooksOf
<1> DEFINE b == Books[k]
<1>4. b \in Kept /\ e \in EventIds /\ e \notin DOMAIN b.cost /\ Books[h] = Book(b, e)
  BY <1>1, <1>2, <1>3
<1> HIDE DEF b
<1>5. /\ DOMAIN Book(b, e).cost \subseteq DOMAIN b.cost \cup {e}
      /\ DOMAIN b.cost \subseteq DOMAIN Book(b, e).cost
      /\ \A f \in DOMAIN b.cost : Book(b, e).cost[f] = b.cost[f]
      /\ \A m \in Tokens \ {BaseMint(e)} : Book(b, e).lots[m] = b.lots[m]
      /\ BaseMint(e) \in Tokens
      /\ (IF e \in DOMAIN Book(b, e).cost THEN Book(b, e).cost[e] ELSE 0) + LotsCost[Book(b, e).lots[BaseMint(e)]]
              <= (IF Buys(e) /\ ~QuotePair(e) THEN Trade[e].usd ELSE 0) + LotsCost[b.lots[BaseMint(e)]]
  BY <1>4, BookStep
<1>6. /\ DOMAIN Books[h].cost \subseteq DOMAIN Books[k].cost \cup {e}
      /\ DOMAIN Books[k].cost \subseteq DOMAIN Books[h].cost
      /\ \A f \in DOMAIN Books[k].cost : Books[h].cost[f] = Books[k].cost[f]
      /\ \A m \in Tokens \ {BaseMint(e)} : Books[h].lots[m] = Books[k].lots[m]
      /\ BaseMint(e) \in Tokens
      /\ (IF e \in DOMAIN Books[h].cost THEN Books[h].cost[e] ELSE 0) + LotsCost[Books[h].lots[BaseMint(e)]]
              <= (IF Buys(e) /\ ~QuotePair(e) THEN Trade[e].usd ELSE 0) + LotsCost[Books[k].lots[BaseMint(e)]]
  BY <1>4, <1>5 DEF b
<1> QED  BY <1>1, <1>3, <1>6 DEF e, k

(* The books of a history extend those of any earlier part of it.          *)
LEMMA EarlierCosts ==
  ASSUME NEW h \in Histories, NEW e \in h, e \in DOMAIN Books[History(h, e)].cost
  PROVE  e \in DOMAIN Books[h].cost /\ Books[h].cost[e] = Books[History(h, e)].cost[e]
<1> DEFINE Same(k) == \A f \in k : f \in DOMAIN Books[History(k, f)].cost =>
                        f \in DOMAIN Books[k].cost /\ Books[k].cost[f] = Books[History(k, f)].cost[f]
           Good == {k \in Histories : Same(k)}
<1>1. {} \in Good
  BY FS_EmptySet DEF Histories
<1>2. ASSUME NEW k \in Histories, k # {}, k \ {Latest(k)} \in Good  PROVE k \in Good
  <2> DEFINE l == Latest(k)
             j == k \ {l}
  <2>1. /\ l \in k /\ l \in EventIds /\ k \subseteq EventIds /\ j \in Histories /\ k = j \cup {l} /\ l \notin j
        /\ \A f \in j : Before(f, l)
        /\ DOMAIN Books[j].cost \subseteq DOMAIN Books[k].cost
        /\ \A f \in DOMAIN Books[j].cost : Books[k].cost[f] = Books[j].cost[f]
    BY <1>2, LatestOf, HistorySizes, BooksStep
  <2>2. Same(j)
    BY <1>2
  <2> HIDE DEF l, j
  <2>3. ASSUME NEW f \in k, f \in DOMAIN Books[History(k, f)].cost
        PROVE  f \in DOMAIN Books[k].cost /\ Books[k].cost[f] = Books[History(k, f)].cost[f]
    <3>1. CASE f = l
      <4>1. History(k, f) = k
        BY <2>1, <3>1 DEF History
      <4> QED  BY <2>3, <4>1
    <3>2. CASE f # l
      <4>1. f \in j /\ ~Before(l, f)
        BY <2>1, <3>2, BeforeOrder
      <4>2. History(k, f) = History(j, f)
        BY <2>1, <4>1 DEF History
      <4>3. f \in DOMAIN Books[j].cost /\ Books[j].cost[f] = Books[History(j, f)].cost[f]
        BY <2>2, <2>3, <4>1, <4>2
      <4> QED  BY <2>1, <4>2, <4>3
    <3> QED  BY <3>1, <3>2
  <2> QED  BY <2>3
<1>3. Histories \subseteq Good
  <2> HIDE DEF Good
  <2> QED  BY <1>1, <1>2, HistoryInduction
<1> QED  BY <1>3

-----------------------------------------------------------------------------
(* What the sales of a token in a history cost. *)
Spent(h, mint) == [e \in EventIds |->
  IF BaseMint(e) = mint /\ e \in DOMAIN Books[h].cost THEN Books[h].cost[e] ELSE 0]

LEMMA KeptParts ==
  ASSUME NEW b \in Kept
  PROVE  /\ b.lots \in [Tokens -> Seq(Lot)]
         /\ \A e \in DOMAIN b.cost : b.cost[e] \in Nat
<1>1. b.lots \in [Tokens -> Seq(Lot)] /\ b.cost \in CostMaps
  BY DEF Kept
<1>2. PICK S \in SUBSET EventIds : b.cost \in [S -> Nat]
  BY <1>1 DEF CostMaps
<1> QED  BY <1>1, <1>2

LEMMA BooksTyped ==
  ASSUME NEW h \in Histories
  PROVE  /\ \A m \in Tokens : Books[h].lots[m] \in Seq(Lot)
         /\ \A e \in DOMAIN Books[h].cost : Books[h].cost[e] \in Nat
<1>1. Books[h] \in Kept
  BY BooksOf
<1>2. Books[h].lots \in [Tokens -> Seq(Lot)] /\ \A e \in DOMAIN Books[h].cost : Books[h].cost[e] \in Nat
  BY <1>1, KeptParts
<1> QED  BY <1>2

LEMMA SpentTyped ==
  ASSUME NEW h \in Histories, NEW mint
  PROVE  Spent(h, mint) \in [EventIds -> Nat] /\ Paid(mint) \in [EventIds -> Nat]
<1>1. \A e \in EventIds : e \in DOMAIN Books[h].cost => Books[h].cost[e] \in Nat
  BY BooksTyped
<1>2. \A e \in EventIds : Trade[e].usd \in Nat
  BY TradesNat
<1> QED  BY <1>1, <1>2 DEF Spent, Paid

(* The sales of a token in a history and the lots that are left cost no    *)
(* more than its purchases were worth (buildFifoAccountingCandidates).     *)
THEOREM CostsConserved ==
  ASSUME NEW mint \in Tokens, NEW h \in Histories
  PROVE  Total(Spent(h, mint))[h] + LotsCost[Books[h].lots[mint]] <= Total(Paid(mint))[h]
<1> DEFINE Covered(k) == Total(Spent(k, mint))[k] + LotsCost[Books[k].lots[mint]] <= Total(Paid(mint))[k]
           Good == {k \in Histories : Covered(k)}
<1>1. {} \in Good
  <2>1. {} \in Histories
    BY FS_EmptySet DEF Histories
  <2>2. Total(Spent({}, mint))[{}] = 0 /\ Total(Paid(mint))[{}] = 0
    BY <2>1, SpentTyped, TotalOf
  <2>3. LotsCost[Books[{}].lots[mint]] = 0
    BY <2>1, BooksOf, EmptyKept
  <2> QED  BY <2>1, <2>2, <2>3
<1>2. ASSUME NEW k \in Histories, k # {}, k \ {Latest(k)} \in Good  PROVE k \in Good
  <2> DEFINE l == Latest(k)
             j == k \ {l}
             spent == Total(Spent(k, mint))
             before == Total(Spent(j, mint))
             paid == Total(Paid(mint))
             w == LotsCost[Books[k].lots[mint]]
             v == LotsCost[Books[j].lots[mint]]
  <2>1. /\ l \in EventIds /\ j \in Histories /\ k = j \cup {l} /\ l \notin j
        /\ Books[k] \in Kept /\ Books[j] \in Kept
        /\ DOMAIN Books[j].cost \subseteq j
        /\ DOMAIN Books[k].cost \subseteq DOMAIN Books[j].cost \cup {l}
        /\ DOMAIN Books[j].cost \subseteq DOMAIN Books[k].cost
        /\ \A f \in DOMAIN Books[j].cost : Books[k].cost[f] = Books[j].cost[f]
        /\ \A m \in Tokens \ {BaseMint(l)} : Books[k].lots[m] = Books[j].lots[m]
        /\ (IF l \in DOMAIN Books[k].cost THEN Books[k].cost[l] ELSE 0) + LotsCost[Books[k].lots[BaseMint(l)]]
             <= (IF Buys(l) /\ ~QuotePair(l) THEN Trade[l].usd ELSE 0) + LotsCost[Books[j].lots[BaseMint(l)]]
    BY <1>2, BooksStep
  <2>2. before[j] + v <= paid[j]
    BY <1>2
  <2>3. Spent(k, mint) \in [EventIds -> Nat] /\ Spent(j, mint) \in [EventIds -> Nat] /\ Paid(mint) \in [EventIds -> Nat]
    BY <2>1, SpentTyped
  <2>4. spent[k] = Spent(k, mint)[l] + spent[j] /\ paid[k] = Paid(mint)[l] + paid[j]
    BY <1>2, <2>3, TotalOf
  <2>5. spent[j] \in Nat /\ before[j] \in Nat /\ paid[j] \in Nat /\ Spent(k, mint)[l] \in Nat /\ Paid(mint)[l] \in Nat
    BY <2>1, <2>3, TotalOf
  <2>6. w \in Nat /\ v \in Nat
    <3>1. Books[k].lots[mint] \in Seq(Lot) /\ Books[j].lots[mint] \in Seq(Lot)
      BY <2>1 DEF Kept
    <3> QED  BY <3>1, LotsWorth
  <2> HIDE DEF l, j
  <2>7. spent[j] <= before[j]
    <3>1. \A e \in j : Spent(k, mint)[e] <= Spent(j, mint)[e]
      <4> SUFFICES ASSUME NEW e \in j  PROVE Spent(k, mint)[e] <= Spent(j, mint)[e]
        OBVIOUS
      <4>1. e \in EventIds /\ e # l
        BY <2>1, HistorySizes
      <4>2. Spent(k, mint)[e] = Spent(j, mint)[e]
        BY <2>1, <4>1 DEF Spent
      <4> QED  BY <2>3, <4>1, <4>2
    <3> QED  BY <2>1, <2>3, <3>1, TotalMonotone
  <2>8. Spent(k, mint)[l] + w <= Paid(mint)[l] + v
    <3>1. CASE BaseMint(l) = mint
      <4>1. /\ Spent(k, mint)[l] = (IF l \in DOMAIN Books[k].cost THEN Books[k].cost[l] ELSE 0)
            /\ Paid(mint)[l] = (IF Buys(l) /\ ~QuotePair(l) THEN Trade[l].usd ELSE 0)
        BY <2>1, <3>1 DEF Spent, Paid
      <4> QED  BY <2>1, <3>1, <4>1
    <3>2. CASE BaseMint(l) # mint
      <4>1. Spent(k, mint)[l] = 0 /\ Paid(mint)[l] = 0
        BY <2>1, <3>2 DEF Spent, Paid
      <4>2. w = v
        BY <2>1, <3>2
      <4> QED  BY <2>6, <4>1, <4>2
    <3> QED  BY <3>1, <3>2
  <2> HIDE DEF spent, before, paid, w, v
  <2>9. spent[k] + w <= paid[k]
    BY <2>2, <2>4, <2>5, <2>6, <2>7, <2>8
  <2> QED  BY <1>2, <2>9 DEF spent, paid, w
<1>3. Histories \subseteq Good
  <2> HIDE DEF Good
  <2> QED  BY <1>1, <1>2, HistoryInduction
<1> QED  BY <1>3

-----------------------------------------------------------------------------
(* The rows of the ledger have the cost of the books of their history.     *)
Priced(x) ==
  /\ x.history \in Histories /\ x.event \in x.history
  /\ x.event \in DOMAIN Books[x.history].cost
  /\ x.cost = Books[x.history].cost[x.event]

CostInv ==
  /\ events \in Histories
  /\ \A r \in Requests : tx[r].pc # "idle" => tx[r].seen \in Histories
  /\ \A r \in Requests : Holds(r) => Sale(tx[r].seen, tx[r].event)
  /\ \A i \in DOMAIN ledger : Priced(ledger[i])

LEMMA CostInit == Init => CostInv
<1> SUFFICES ASSUME Init  PROVE CostInv
  OBVIOUS
<1>1. events \in Histories
  BY EarlierFinite, EarlierEvents DEF Init, Histories
<1>2. \A r \in Requests : tx[r].pc = "idle"
  BY DEF Init, Idle
<1>3. DOMAIN ledger = {}
  BY DEF Init
<1> QED  BY <1>1, <1>2, <1>3 DEF CostInv, Holds

(* A request's next state, when neither the ledger nor the events change.  *)
LEMMA CostOfRequest ==
  ASSUME LedgerInv, CostInv, NEW r \in Requests, NEW t, Become(r, t),
         t.pc # "idle" => t.seen \in Histories,
         t.pc \in {"collect", "record"} => Sale(t.seen, t.event)
  PROVE  CostInv'
<1>1. \A q \in Requests : tx'[q] = IF q = r THEN t ELSE tx[q]
  BY DEF Become, LedgerInv, Typed
<1>2. ledger' = ledger /\ events' = events
  BY DEF Become
<1>3. \A q \in Requests : tx'[q].pc # "idle" => tx'[q].seen \in Histories
  BY <1>1 DEF CostInv
<1>4. \A q \in Requests : Holds(q)' => Sale(tx'[q].seen, tx'[q].event)
  BY <1>1 DEF CostInv, Holds
<1> QED  BY <1>2, <1>3, <1>4 DEF CostInv

LEMMA CostOfInsert ==
  ASSUME LedgerInv, CostInv, NEW r \in Requests, Insert(r)
  PROVE  CostInv'
<1> DEFINE t == tx[r]
           row == Row(t)
<1>1. t.seen \in Histories /\ Sale(t.seen, t.event)
  BY DEF CostInv, Insert, At, Holds
<1>2. /\ row.history = History(t.seen, t.event) /\ row.event = t.event
      /\ row.cost = Books[History(t.seen, t.event)].cost[t.event]
  BY DEF Row, CostBasis
<1>3. Priced(row)
  <2>1. t.event \in History(t.seen, t.event) /\ History(t.seen, t.event) \subseteq t.seen
    BY <1>1 DEF Sale, History
  <2>2. History(t.seen, t.event) \in Histories
    BY <1>1, <2>1, FS_Subset DEF Histories
  <2>3. t.event \in DOMAIN Books[History(t.seen, t.event)].cost
    BY <1>1 DEF Sale, HasCandidate
  <2> HIDE DEF row, t
  <2> QED  BY <1>2, <2>1, <2>2, <2>3 DEF Priced
<1>4. ledger' = Append(ledger, row) /\ events' = events /\ tx' = [tx EXCEPT ![r] = Idle]
  BY DEF Insert
<1> HIDE DEF row, t
<1>5. \A i \in DOMAIN ledger' : Priced(ledger'[i])
  <2>1. /\ Len(ledger) \in Nat /\ DOMAIN ledger = 1 .. Len(ledger) /\ DOMAIN ledger' = 1 .. (Len(ledger) + 1)
        /\ \A i \in 1 .. Len(ledger) : ledger'[i] = ledger[i]
        /\ ledger'[Len(ledger) + 1] = row
    BY <1>4, Appended DEF LedgerInv, Typed
  <2>2. \A i \in DOMAIN ledger' : i \in 1 .. Len(ledger) \/ i = Len(ledger) + 1
    BY <2>1
  <2> QED  BY <1>3, <2>1, <2>2 DEF CostInv
<1>6. \A q \in Requests : tx'[q] = IF q = r THEN Idle ELSE tx[q]
  BY <1>4 DEF LedgerInv, Typed
<1>7. \A q \in Requests : tx'[q].pc # "idle" => tx'[q].seen \in Histories
  BY <1>6 DEF CostInv, Idle
<1>8. \A q \in Requests : Holds(q)' => Sale(tx'[q].seen, tx'[q].event)
  BY <1>6 DEF CostInv, Holds, Idle
<1> QED  BY <1>4, <1>5, <1>7, <1>8 DEF CostInv

LEMMA CostNext == LedgerInv /\ CostInv /\ [Next]_vars => CostInv'
<1> SUFFICES ASSUME LedgerInv, CostInv, [Next]_vars  PROVE CostInv'
  OBVIOUS
<1>1. ASSUME UNCHANGED <<ledger, tx>>, events' \in Histories  PROVE CostInv'
  BY <1>1 DEF CostInv, Holds
<1>2. events \in Histories
  BY DEF CostInv
<1>3. CASE Tick \/ Suspend \/ UNCHANGED vars
  BY <1>1, <1>2, <1>3 DEF Tick, Suspend, vars
<1>4. ASSUME NEW e \in EventIds, Ingest(e)  PROVE CostInv'
  <2>1. events \cup {e} \in Histories
    BY <1>2, FS_AddElement DEF Histories
  <2> QED  BY <1>1, <1>4, <2>1 DEF Ingest
<1>5. ASSUME NEW b \in Builders, Build(b)  PROVE CostInv'
  BY <1>1, <1>2, <1>5 DEF Build, LoadTrader, ReadLedger, LookUp, WriteCollection, FailBuild, Remember
<1>6. ASSUME NEW r \in Requests, Reconcile(r)  PROVE CostInv'
  <2>1. ASSUME NEW e \in EventIds, NEW kind \in OfferKinds, Begin(r, e, kind)  PROVE CostInv'
    <3> DEFINE offer == [scan |-> kind.scan, inventory |-> kind.inventory, trade |-> e,
                         basis |-> CostBasis(events, e), valued |-> kind.valued, fees |-> kind.fees, at |-> now]
               t == [pc |-> "lock", event |-> e, offer |-> offer, seen |-> events, rows |-> Len(ledger), feeAt |-> 0]
    <3>1. Become(r, t) /\ t.pc = "lock" /\ t.seen = events
      BY <2>1 DEF Begin
    <3> HIDE DEF t
    <3> QED  BY <1>2, <3>1, CostOfRequest
  <2>2. CASE Lock(r)
    <3> DEFINE t == [tx[r] EXCEPT !.pc = "collect"]
    <3>1. tx[r] \in Transactions /\ tx[r].pc # "idle" /\ Become(r, t) /\ Sale(tx[r].seen, tx[r].event)
      BY <2>2 DEF Lock, At, LedgerInv, Typed
    <3>2. t.event = tx[r].event /\ t.seen = tx[r].seen
      BY <3>1 DEF Transactions
    <3> HIDE DEF t
    <3> QED  BY <3>1, <3>2, CostOfRequest DEF CostInv
  <2>3. CASE CollectFee(r)
    <3> DEFINE t == [tx[r] EXCEPT !.pc = "record", !.feeAt = now]
    <3>1. tx[r] \in Transactions /\ tx[r].pc = "collect" /\ Become(r, t)
      BY <2>3 DEF CollectFee, At, LedgerInv, Typed
    <3>2. t.event = tx[r].event /\ t.seen = tx[r].seen
      BY <3>1 DEF Transactions
    <3>3. Sale(tx[r].seen, tx[r].event) /\ tx[r].seen \in Histories
      BY <3>1 DEF CostInv, Holds
    <3> HIDE DEF t
    <3> QED  BY <3>1, <3>2, <3>3, CostOfRequest
  <2>4. CASE End(r)
    BY <2>4, CostOfRequest DEF End, Idle
  <2> QED  BY <1>6, <2>1, <2>2, <2>3, <2>4, CostOfInsert DEF Reconcile
<1> QED  BY <1>3, <1>4, <1>5, <1>6 DEF Next

LEMMA CostKept == Spec => []CostInv
<1>1. Spec => []LedgerInv
  BY LedgerKept
<1>2. Init => CostInv
  BY CostInit
<1>3. LedgerInv /\ CostInv /\ [Next]_vars => CostInv'
  BY CostNext
<1> QED  BY <1>1, <1>2, <1>3, PTL DEF Spec

(* A row costs what the books of any later past that agrees with it say.   *)
LEMMA AgreeingCost ==
  ASSUME LedgerInv, CostInv, NEW r \in Rows, NEW x \in Agreeing(r)
  PROVE  x.event \in DOMAIN Books[r.history].cost /\ x.cost = Books[r.history].cost[x.event]
<1>1. Priced(r) /\ Priced(x) /\ x.event \in r.history /\ x.history = History(r.history, x.event)
  BY RowsOf DEF Agreeing, CostInv, Rows
<1>2. r.history \in Histories
  BY <1>1 DEF Priced
<1> QED  BY <1>1, <1>2, EarlierCosts DEF Priced

LEMMA CostImplies == LedgerInv /\ CostInv => LedgerConserves
<1> SUFFICES ASSUME LedgerInv, CostInv, NEW r \in Rows
             PROVE  Total(Charged(Agreeing(r), BaseMint(r.event)))[r.history] <= Total(Paid(BaseMint(r.event)))[r.history]
  BY DEF LedgerConserves, Rows
<1> DEFINE mint == BaseMint(r.event)
           agreeing == Agreeing(r)
           h == r.history
<1>1. Priced(r) /\ \A x \in agreeing : Priced(x) /\ x \in Rows
  BY RowsOf DEF Agreeing, CostInv, Rows
<1>2. h \in Histories /\ r.event \in EventIds
  BY <1>1, HistorySizes DEF Priced
<1>3. mint \in Tokens
  BY <1>2 DEF BaseMint, Tokens
<1>4. \A x \in agreeing : RowOf(x.event) = x
  BY <1>1, ChosenRow, RowsOf DEF RowOf, Rows
<1>5. \A x \in agreeing : x.cost \in Nat
  <2> SUFFICES ASSUME NEW x \in agreeing  PROVE x.cost \in Nat
    OBVIOUS
  <2>1. x.history \in Histories /\ x.event \in DOMAIN Books[x.history].cost /\ x.cost = Books[x.history].cost[x.event]
    BY <1>1 DEF Priced
  <2> QED  BY <2>1, BooksTyped
<1>5b. \A x \in agreeing : x.event \in DOMAIN Books[h].cost /\ x.cost = Books[h].cost[x.event]
  BY AgreeingCost
<1> HIDE DEF mint, h, agreeing
<1>6. Charged(agreeing, mint) \in [EventIds -> Nat]
  BY <1>4, <1>5 DEF Charged
<1>7. Spent(h, mint) \in [EventIds -> Nat] /\ Paid(mint) \in [EventIds -> Nat]
  BY <1>2, SpentTyped
<1>8. ASSUME NEW e \in h  PROVE Charged(agreeing, mint)[e] <= Spent(h, mint)[e]
  <2>1. e \in EventIds
    BY <1>2, HistorySizes
  <2>2. CASE BaseMint(e) = mint /\ \E x \in agreeing : x.event = e
    <3>1. PICK x \in agreeing : x.event = e
      BY <2>2
    <3>2. Charged(agreeing, mint)[e] = x.cost
      BY <1>4, <2>1, <2>2, <3>1 DEF Charged
    <3>3. e \in DOMAIN Books[h].cost /\ x.cost = Books[h].cost[e]
      BY <1>5b, <3>1
    <3>4. Spent(h, mint)[e] = x.cost
      BY <2>1, <2>2, <3>3 DEF Spent
    <3> QED  BY <1>5, <3>2, <3>4
  <2>3. CASE ~(BaseMint(e) = mint /\ \E x \in agreeing : x.event = e)
    <3>1. Charged(agreeing, mint)[e] = 0
      BY <2>1, <2>3 DEF Charged
    <3> QED  BY <1>7, <2>1, <3>1
  <2> QED  BY <2>2, <2>3
<1>9. Total(Charged(agreeing, mint))[h] <= Total(Spent(h, mint))[h]
  BY <1>2, <1>6, <1>7, <1>8, TotalMonotone
<1>10. Total(Spent(h, mint))[h] + LotsCost[Books[h].lots[mint]] <= Total(Paid(mint))[h]
  BY <1>2, <1>3, CostsConserved
<1>11. LotsCost[Books[h].lots[mint]] \in Nat
  <2>1. Books[h].lots[mint] \in Seq(Lot)
    BY <1>2, <1>3, BooksTyped
  <2> QED  BY <2>1, LotsWorth
<1>12. /\ Total(Charged(agreeing, mint))[h] \in Nat /\ Total(Spent(h, mint))[h] \in Nat
       /\ Total(Paid(mint))[h] \in Nat
  BY <1>2, <1>6, <1>7, TotalOf
<1>13. Total(Charged(agreeing, mint))[h] <= Total(Paid(mint))[h]
  BY <1>9, <1>10, <1>11, <1>12
<1> QED  BY <1>13 DEF mint, h, agreeing

(* Rows recorded from one past use no purchase of it twice, although other *)
(* rows were recorded before and after, from pasts that late events        *)
(* changed: for any trades, however late they arrive and whoever           *)
(* reconciles them (buildFifoAccountingCandidates).                        *)
THEOREM PastChargedOnce == Spec => []LedgerConserves
<1>1. LedgerInv /\ CostInv => LedgerConserves
  BY CostImplies
<1> QED  BY <1>1, LedgerKept, CostKept, PTL
===============================================================================
