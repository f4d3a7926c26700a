------------------------- MODULE CopyMandatesProofs -------------------------
(***************************************************************************)
(* What a copy mandate keeps, from its storage to the purchase it allows,  *)
(* for any followers, traders, requests and amounts.  The inductive        *)
(* invariant carries the row properties over to the rows the handlers are  *)
(* about to write, and says that such a row belongs to the pair of the     *)
(* policy it will overwrite.  The decisions of TradeEngine and the round   *)
(* trip of NetEdge are functions; they are bounded for every input.        *)
(***************************************************************************)
EXTENDS CopyMandates, TradeEngine, NetEdge, TLAPS

Coherent(row) ==
  /\ row.maxCopy <= row.maxPosition
  /\ row.enabled => row.status = "ACTIVE"

PendingCoherent == \A h \in Handlers : task[h] # None =>
  /\ Coherent(task[h].row)
  /\ task[h].step = "write" =>
       /\ task[h].policy \in Policies
       /\ policies[task[h].policy] # None
       /\ policies[task[h].policy].follower = task[h].row.follower
       /\ policies[task[h].policy].trader = task[h].row.trader

RowsCoherent == \A p \in Policies : policies[p] # None => Coherent(policies[p])

IInv == TypeOK /\ OneMandatePerPair /\ RowsCoherent /\ PendingCoherent

-----------------------------------------------------------------------------
LEMMA InitIInv == Init => IInv
<1> SUFFICES ASSUME Init PROVE IInv
  OBVIOUS
<1>1. CASE policies = [p \in Policies |-> None]
  BY <1>1 DEF Init, IInv, TypeOK, OneMandatePerPair, RowsCoherent, PendingCoherent
<1>2. ASSUME NEW p \in Policies, NEW r \in LegacyRows,
             policies = [q \in Policies |-> IF q = p THEN r ELSE None]
      PROVE IInv
  BY <1>2 DEF Init, IInv, TypeOK, OneMandatePerPair, RowsCoherent, PendingCoherent,
     LegacyRows, Coherent
<1> QED BY <1>1, <1>2 DEF Init

(* The edits a follower or an admin can ask for keep a row coherent and    *)
(* in its pair.                                                            *)
LEMMA ActedRow ==
  ASSUME NEW row \in Rows, NEW action, row.enabled => row.status = "ACTIVE"
  PROVE  /\ Acted(row, action) \in Rows
         /\ Acted(row, action).follower = row.follower /\ Acted(row, action).trader = row.trader
         /\ Acted(row, action).enabled => Acted(row, action).status = "ACTIVE"
         /\ Acted(row, action).maxCopy = row.maxCopy
         /\ Acted(row, action).maxPosition = row.maxPosition
BY DEF Rows, Statuses, Acted

LEMMA EditedRow ==
  ASSUME NEW row \in Rows, NEW c \in Limits, NEW m \in Limits
  PROVE  /\ Edited(row, c, m) \in Rows
         /\ Edited(row, c, m).follower = row.follower /\ Edited(row, c, m).trader = row.trader
         /\ Edited(row, c, m).enabled = row.enabled /\ Edited(row, c, m).status = row.status
         /\ Edited(row, c, m).maxCopy = IF c = None THEN row.maxCopy ELSE c
         /\ Edited(row, c, m).maxPosition = IF m = None THEN row.maxPosition ELSE m
BY DEF Rows, Edited, Limits

LEMMA PreparedRow ==
  ASSUME NEW row \in Rows, NEW action, NEW c \in Limits, NEW m \in Limits,
         Coherent(row), LimitsAccepted(row, c, m)
  PROVE  LET new == Edited(Acted(row, action), c, m) IN
         /\ new \in Rows /\ Coherent(new)
         /\ new.follower = row.follower /\ new.trader = row.trader
<1> DEFINE mid == Acted(row, action)
           new == Edited(mid, c, m)
<1>1. /\ mid \in Rows /\ mid.follower = row.follower /\ mid.trader = row.trader
      /\ mid.enabled => mid.status = "ACTIVE"
      /\ mid.maxCopy = row.maxCopy /\ mid.maxPosition = row.maxPosition
  BY ActedRow DEF Coherent
<1> HIDE DEF mid
<1>2. /\ new \in Rows /\ new.follower = mid.follower /\ new.trader = mid.trader
      /\ new.enabled = mid.enabled /\ new.status = mid.status
      /\ new.maxCopy = IF c = None THEN row.maxCopy ELSE c
      /\ new.maxPosition = IF m = None THEN row.maxPosition ELSE m
  BY <1>1, EditedRow
<1>3. new.maxCopy <= new.maxPosition
  BY <1>2, EditedRow DEF LimitsAccepted
<1> QED BY <1>1, <1>2, <1>3 DEF Coherent, mid

(* Remembering an update changes no table.                                 *)
LEMMA UpdateDeferred ==
  ASSUME IInv, NEW h \in Handlers, NEW p \in Policies, NEW row \in Rows,
         Coherent(row), policies[p] # None,
         row.follower = policies[p].follower, row.trader = policies[p].trader,
         Defer(h, "write", p, row)
  PROVE  IInv'
<1>1. [step |-> "write", policy |-> p, row |-> row] \in Tasks
  BY DEF Tasks
<1> QED BY <1>1 DEF Defer, IInv, TypeOK, OneMandatePerPair, RowsCoherent, PendingCoherent

LEMMA FollowerUpdateIInv ==
  ASSUME IInv, NEW h \in Handlers, NEW p \in Policies, NEW action, NEW c \in Limits,
         NEW m \in Limits, FollowerUpdate(h, p, action, c, m)
  PROVE  IInv'
<1>1. policies[p] \in Rows /\ Coherent(policies[p]) /\ policies[p] # None
  BY DEF FollowerUpdate, IInv, TypeOK, RowsCoherent
<1> DEFINE new == Edited(Acted(policies[p], action), c, m)
<1>2. new \in Rows /\ Coherent(new) /\ new.follower = policies[p].follower /\ new.trader = policies[p].trader
  BY <1>1, PreparedRow DEF FollowerUpdate
<1>3. Defer(h, "write", p, new)
  BY DEF FollowerUpdate
<1> HIDE DEF new
<1> QED BY <1>1, <1>2, <1>3, UpdateDeferred

LEMMA AdminUpdateIInv ==
  ASSUME IInv, NEW h \in Handlers, NEW p \in Policies, NEW switch, NEW c \in Limits,
         NEW m \in Limits, AdminUpdate(h, p, switch, c, m)
  PROVE  IInv'
<1>1. policies[p] \in Rows /\ Coherent(policies[p]) /\ policies[p] # None
  BY DEF AdminUpdate, IInv, TypeOK, RowsCoherent
<1> DEFINE action == CASE switch = "on" -> "RESUME" [] switch = "off" -> "PAUSE" [] OTHER -> "KEEP"
           new == Edited(Acted(policies[p], action), c, m)
<1>3. Defer(h, "write", p, new)
  BY DEF AdminUpdate
<1> HIDE DEF action
<1>2. new \in Rows /\ Coherent(new) /\ new.follower = policies[p].follower /\ new.trader = policies[p].trader
  BY <1>1, PreparedRow DEF AdminUpdate
<1> HIDE DEF new
<1> QED BY <1>1, <1>2, <1>3, UpdateDeferred

LEMMA CreateMandateIInv ==
  ASSUME IInv, NEW h \in Handlers, NEW f \in Followers, NEW t \in Traders, CreateMandate(h, f, t)
  PROVE  IInv'
<1> PICK c \in Amounts, m \in Amounts :
      /\ c <= m
      /\ Defer(h, "lookup", None, [follower |-> f, trader |-> t, status |-> "ACTIVE",
               enabled |-> TRUE, maxCopy |-> c, maxPosition |-> m])
  BY DEF CreateMandate
<1> DEFINE row == [follower |-> f, trader |-> t, status |-> "ACTIVE",
                   enabled |-> TRUE, maxCopy |-> c, maxPosition |-> m]
<1>1. row \in Rows /\ Coherent(row)
  BY DEF Rows, Statuses, Coherent
<1> HIDE DEF row
<1>2. [step |-> "lookup", policy |-> None, row |-> row] \in Tasks
  BY <1>1 DEF Tasks
<1>3. Defer(h, "lookup", None, row)
  BY DEF row
<1>4. task' \in [Handlers -> Tasks \cup {None}] /\ UNCHANGED <<copyable, policies, audit>>
  BY <1>2, <1>3 DEF Defer, IInv, TypeOK
<1>5. PendingCoherent'
  <2> SUFFICES ASSUME NEW g \in Handlers, task'[g] # None
              PROVE  /\ Coherent(task'[g].row)
                     /\ task'[g].step = "write" =>
                          /\ task'[g].policy \in Policies
                          /\ policies[task'[g].policy] # None
                          /\ policies[task'[g].policy].follower = task'[g].row.follower
                          /\ policies[task'[g].policy].trader = task'[g].row.trader
    BY <1>4 DEF PendingCoherent, Coherent
  <2>1. CASE g = h
    <3>1. task'[h] = [step |-> "lookup", policy |-> None, row |-> row]
      BY <1>3 DEF Defer, IInv, TypeOK
    <3> QED BY <1>1, <2>1, <3>1
  <2>2. CASE g # h
    BY <1>3, <2>2 DEF Defer, IInv, TypeOK, PendingCoherent
  <2> QED BY <2>1, <2>2
<1> QED BY <1>4, <1>5 DEF IInv, TypeOK, OneMandatePerPair, RowsCoherent

LEMMA LookForPairIInv == ASSUME IInv, NEW h \in Handlers, LookForPair(h) PROVE IInv'
<1>1. task[h] \in Tasks /\ task[h] # None
  BY DEF LookForPair, IInv, TypeOK
<1>2. UNCHANGED <<copyable, policies, audit>>
  BY DEF LookForPair
<1>3. CASE task' = [task EXCEPT ![h] = None]
  BY <1>1, <1>2, <1>3 DEF IInv, TypeOK, OneMandatePerPair, RowsCoherent, PendingCoherent
<1>4. CASE task' = [task EXCEPT ![h].step = "insert"]
  <2>1. /\ [task[h] EXCEPT !.step = "insert"] \in Tasks
        /\ [task[h] EXCEPT !.step = "insert"].row = task[h].row
        /\ [task[h] EXCEPT !.step = "insert"].step = "insert"
    BY <1>1 DEF Tasks
  <2>2. task' = [task EXCEPT ![h] = [task[h] EXCEPT !.step = "insert"]]
    BY <1>4
  <2> QED BY <1>1, <1>2, <2>1, <2>2
       DEF IInv, TypeOK, OneMandatePerPair, RowsCoherent, PendingCoherent
<1> QED BY <1>3, <1>4 DEF LookForPair

LEMMA InsertMandateIInv ==
  ASSUME IInv, NEW h \in Handlers, NEW p \in Policies, InsertMandate(h, p) PROVE IInv'
<1> DEFINE row == task[h].row
<1>1. /\ task[h] \in Tasks /\ row \in Rows /\ Coherent(row) /\ policies[p] = None
      /\ task' = [task EXCEPT ![h] = None] /\ UNCHANGED copyable
  BY DEF InsertMandate, IInv, TypeOK, Tasks, PendingCoherent
<1>2. CASE Taken(policies, row)
  <2>1. policies' = policies /\ audit' = audit
    BY <1>2 DEF InsertMandate
  <2> QED BY <1>1, <2>1 DEF IInv, TypeOK, OneMandatePerPair, RowsCoherent, PendingCoherent
<1>3. CASE ~Taken(policies, row)
  <2>1. policies' = [policies EXCEPT ![p] = row] /\ audit' = audit \cup {<<p, row.status>>}
    BY <1>3 DEF InsertMandate, Store
  <2>2. TypeOK' /\ RowsCoherent'
    BY <1>1, <2>1 DEF IInv, TypeOK, RowsCoherent, Rows
  <2>3. OneMandatePerPair'
    <3>1. \A q \in Policies : policies[q] # None =>
            ~(policies[q].follower = row.follower /\ policies[q].trader = row.trader)
      BY <1>3 DEF Taken
    <3> HIDE DEF row
    <3> QED BY <1>1, <2>1, <3>1 DEF IInv, TypeOK, OneMandatePerPair
  <2>4. PendingCoherent'
    <3>1. \A g \in Handlers : task'[g] # None => task'[g] = task[g]
      BY <1>1 DEF IInv, TypeOK
    <3>2. \A q \in Policies : policies[q] # None => policies'[q] = policies[q] /\ policies'[q] # None
      BY <1>1, <2>1 DEF IInv, TypeOK
    <3> QED BY <3>1, <3>2 DEF IInv, PendingCoherent
  <2> QED BY <2>2, <2>3, <2>4 DEF IInv
<1> QED BY <1>2, <1>3

LEMMA WriteMandateIInv == ASSUME IInv, NEW h \in Handlers, WriteMandate(h) PROVE IInv'
<1> PICK p \in Policies, row \in Rows :
      /\ p = task[h].policy /\ row = task[h].row /\ Coherent(row)
      /\ policies[p] # None
      /\ policies[p].follower = row.follower /\ policies[p].trader = row.trader
  BY DEF WriteMandate, IInv, TypeOK, Tasks, PendingCoherent
<1>1. /\ policies' = [policies EXCEPT ![p] = row]
      /\ audit' \in SUBSET (Policies \X Statuses)
      /\ task' = [task EXCEPT ![h] = None] /\ UNCHANGED copyable
  BY DEF WriteMandate, Store, IInv, TypeOK, Rows
<1>2. row # None
  BY NoneIsNoValue
<1>3. TypeOK' /\ RowsCoherent'
  BY <1>1 DEF IInv, TypeOK, RowsCoherent
<1>4. \A q \in Policies :
        /\ (policies'[q] # None) <=> (policies[q] # None)
        /\ policies[q] # None => /\ policies'[q].follower = policies[q].follower
                                 /\ policies'[q].trader = policies[q].trader
  BY <1>1, <1>2 DEF IInv, TypeOK
<1>5. OneMandatePerPair'
  BY <1>4 DEF IInv, OneMandatePerPair
<1>6. \A g \in Handlers : task'[g] # None => task'[g] = task[g]
  BY <1>1 DEF IInv, TypeOK
<1>7. PendingCoherent'
  BY <1>4, <1>6 DEF IInv, PendingCoherent
<1> QED BY <1>3, <1>5, <1>7 DEF IInv

LEMMA NextIInv == IInv /\ [Next]_vars => IInv'
<1> SUFFICES ASSUME IInv, [Next]_vars PROVE IInv'
  OBVIOUS
<1>1. CASE UNCHANGED vars
  BY <1>1 DEF vars, IInv, TypeOK, OneMandatePerPair, RowsCoherent, PendingCoherent
<1>2. ASSUME NEW t \in Traders, ListingChanges(t) PROVE IInv'
  BY <1>2 DEF ListingChanges, IInv, TypeOK, OneMandatePerPair, RowsCoherent, PendingCoherent
<1>3. ASSUME NEW h \in Handlers, Fail(h) PROVE IInv'
  BY <1>3 DEF Fail, IInv, TypeOK, OneMandatePerPair, RowsCoherent, PendingCoherent
<1>4. ASSUME NEW h \in Handlers, Handle(h) PROVE IInv'
  BY <1>3, <1>4, CreateMandateIInv, LookForPairIInv, InsertMandateIInv, FollowerUpdateIInv,
     AdminUpdateIInv, WriteMandateIInv DEF Handle
<1> QED BY <1>1, <1>2, <1>4 DEF Next

LEMMA SpecIInv == Spec => []IInv
BY InitIInv, NextIInv, PTL DEF Spec

(* The table of mandates and the requests in flight keep their types.      *)
THEOREM TypeCorrect == Spec => []TypeOK
BY SpecIInv, PTL DEF IInv

(* OneMandatePerPair for any number of racing requests.                    *)
THEOREM MandateUnique == Spec => []OneMandatePerPair
BY SpecIInv, PTL DEF IInv

(* LimitsOrdered for any amounts and any number of racing edits.           *)
THEOREM LimitsStayOrdered == Spec => []LimitsOrdered
<1>1. IInv => LimitsOrdered
  BY DEF IInv, RowsCoherent, LimitsOrdered, Coherent
<1> QED BY <1>1, SpecIInv, PTL

(* EnabledMeansActive for any number of racing edits.                      *)
THEOREM OnlyActiveEnabled == Spec => []EnabledMeansActive
<1>1. IInv => EnabledMeansActive
  BY DEF IInv, RowsCoherent, EnabledMeansActive, Coherent
<1> QED BY <1>1, SpecIInv, PTL

-----------------------------------------------------------------------------
(* The engine: what a mandate, a snapshot and the facts of a day may be.   *)
Optional == {{}} \cup {{n} : n \in Int}

Snapshots == [numbers : [Minima \cup Maxima -> Optional], observedAt : Optional, mint : SUBSET STRING,
              costsIncluded : STRING, sellSimulationOk : STRING, transferable : STRING, riskFlags : SUBSET STRING]

Configs == [min : [Minima -> Int], max : [Maxima -> Int], maxDataAge : Int, minScore : Int]

RiskFields == {"capital", "available", "dailyPnl", "tradesToday", "maxTrades", "cooldown", "sinceLast", "minScore", "exitFloor"}

LEMMA KnownOf ==
  /\ \A fallback : Known({}, fallback) = fallback
  /\ \A n, fallback : Known({n}, fallback) = n
  /\ \A n, fallback \in Int : Known({n}, fallback) = n
  /\ \A number \in Optional, fallback \in Int : Known(number, fallback) \in Int /\ (number # {} => number = {Known(number, fallback)})
<1>1. \A fallback : Known({}, fallback) = fallback
  BY DEF Known
<1>2. ASSUME NEW n, NEW fallback  PROVE Known({n}, fallback) = n
  BY DEF Known
<1>3. ASSUME NEW number \in Optional, NEW fallback \in Int
      PROVE  Known(number, fallback) \in Int /\ (number # {} => number = {Known(number, fallback)})
  <2>1. CASE number = {}
    BY <1>1, <2>1
  <2>2. CASE number # {}
    <3>1. PICK n \in Int : number = {n}
      BY <2>2 DEF Optional
    <3> QED  BY <1>2, <3>1
  <2> QED  BY <2>1, <2>2
<1> QED  BY <1>1, <1>2, <1>3

(* The stated amount is at most half a cent above the budget, and not      *)
(* above a whole number of cents that the budget does not pass.            *)
LEMMA CentsBounded ==
  ASSUME NEW amount \in Int
  PROVE  /\ ToCents(amount) \in Int /\ ToCents(amount) <= amount + 50
         /\ \A limit \in Int : Money(limit) /\ amount <= limit => ToCents(amount) <= limit
<1> DEFINE k == (amount + 50) \div 100
<1>1. k \in Int /\ 100 * k <= amount + 50 /\ amount + 50 < 100 * k + 100
  OBVIOUS
<1>2. ToCents(amount) = 100 * k
  BY DEF ToCents
<1> HIDE DEF k
<1>3. ASSUME NEW limit \in Int, Money(limit), amount <= limit  PROVE 100 * k <= limit
  <2> DEFINE l == limit \div 100
  <2>1. l \in Int /\ limit = 100 * l
    BY <1>3 DEF Money
  <2> HIDE DEF l
  <2> QED  BY <1>1, <1>3, <2>1
<1> QED  BY <1>1, <1>2, <1>3

LEMMA LeastOf ==
  ASSUME NEW a \in Int, NEW b \in Int
  PROVE  /\ AtMost(a, b) \in {a, b} /\ AtMost(a, b) <= a /\ AtMost(a, b) <= b
         /\ AtLeast(a, b) \in {a, b} /\ AtLeast(a, b) >= a /\ AtLeast(a, b) >= b
  BY DEF AtMost, AtLeast

(* A snapshot qualifies for a purchase only with every number known and on *)
(* the right side of its bound, recent, sellable, without a flag, and with *)
(* an edge of 20 basis points at least, whatever the configuration says    *)
(* (getSignalQualityConfig, evaluateSignalQuality).                        *)
THEOREM QualifiedIsProven ==
  ASSUME NEW snapshot \in Snapshots, NEW score \in Int, NEW config \in Configs, NEW now \in Int,
         Assess(snapshot, score, config, now).verdict = "QUALIFIED"
  PROVE  /\ \E edge \in snapshot.numbers["edge"] : edge >= HardFloorBps
         /\ \A f \in Minima : \E n \in snapshot.numbers[f] : n >= config.min[f]
         /\ \A f \in Maxima : \A n \in snapshot.numbers[f] : n <= config.max[f]
         /\ \A f \in RequiredNumbers : snapshot.numbers[f] # {}
         /\ \E t \in snapshot.observedAt : t <= now + 2000 /\ now <= t + config.maxDataAge
         /\ snapshot.sellSimulationOk = "true" /\ snapshot.mint # {} /\ snapshot.riskFlags = {}
         /\ score >= config.minScore
<1> DEFINE c == SignalConfig(config)
<1>1. ~HardRejected(snapshot, c, now) /\ score >= config.minScore
  BY DEF Assess, Verdict
<1>2. /\ c.min["edge"] \in Int /\ c.min["edge"] >= HardFloorBps
      /\ \A f \in Minima : c.min[f] \in Int /\ c.min[f] >= config.min[f]
      /\ c.max = config.max /\ c.maxDataAge = config.maxDataAge
  <2>1. config.min \in [Minima -> Int] /\ "edge" \in Minima
    BY DEF Configs, Minima
  <2> DEFINE floor == IF config.min["edge"] > HardFloorBps THEN config.min["edge"] ELSE HardFloorBps
             min == [config.min EXCEPT !["edge"] = floor]
  <2>2. floor \in Int /\ floor >= config.min["edge"] /\ floor >= HardFloorBps
    BY <2>1 DEF HardFloorBps
  <2>3. c = [config EXCEPT !.min = min]
    BY DEF SignalConfig
  <2> HIDE DEF floor
  <2>4. min["edge"] = floor /\ \A f \in Minima : min[f] \in Int /\ min[f] >= config.min[f]
    BY <2>1, <2>2
  <2> HIDE DEF min, c
  <2>5. c.min = min /\ c.max = config.max /\ c.maxDataAge = config.maxDataAge
    BY <2>3 DEF Configs
  <2> QED  BY <2>1, <2>2, <2>4, <2>5
<1> HIDE DEF c
<1>3. /\ Missing(snapshot) = {} /\ TooLow(snapshot, c) = {} /\ TooHigh(snapshot, c) = {}
      /\ ~OutOfDate(snapshot, c, now) /\ ~Flagged(snapshot)
  BY <1>1 DEF HardRejected
<1>4. \A f \in RequiredNumbers : snapshot.numbers[f] # {}
  BY <1>3 DEF Missing
<1>5. \A f \in Minima \cup Maxima : snapshot.numbers[f] \in Optional
  BY DEF Snapshots
<1>6. ASSUME NEW f \in Minima  PROVE \E n \in snapshot.numbers[f] : n \in Int /\ n >= c.min[f]
  <2>1. f \in RequiredNumbers
    BY DEF RequiredNumbers, Minima, Maxima
  <2> DEFINE n == Known(snapshot.numbers[f], 0)
  <2>2. snapshot.numbers[f] = {n} /\ n \in Int
    BY <1>4, <1>5, <2>1, KnownOf
  <2>3. ~(n < c.min[f])
    BY <1>3 DEF TooLow
  <2> HIDE DEF n
  <2> QED  BY <1>2, <2>2, <2>3
<1>7. ASSUME NEW f \in Maxima, NEW n \in snapshot.numbers[f]  PROVE n <= config.max[f]
  <2>1. snapshot.numbers[f] = {n} /\ n \in Int
    BY <1>5, <1>7 DEF Optional
  <2>2. Known(snapshot.numbers[f], 0) = n
    BY <2>1, KnownOf
  <2>3. ~(n > c.max[f])
    BY <1>3, <2>2 DEF TooHigh
  <2> QED  BY <1>2, <2>1, <2>3 DEF Configs
<1>8. \E t \in snapshot.observedAt : t <= now + 2000 /\ now <= t + config.maxDataAge
  <2> DEFINE t == Known(snapshot.observedAt, now)
  <2>1. snapshot.observedAt # {} /\ now - t \in -2000 .. config.maxDataAge
    BY <1>2, <1>3 DEF OutOfDate
  <2>2. snapshot.observedAt = {t} /\ t \in Int
    BY <2>1, KnownOf DEF Snapshots
  <2> HIDE DEF t
  <2>3. t <= now + 2000 /\ now <= t + config.maxDataAge
    BY <2>1, <2>2 DEF Configs
  <2> QED  BY <2>2, <2>3
<1>9. \E edge \in snapshot.numbers["edge"] : edge >= HardFloorBps
  <2>1. "edge" \in Minima
    BY DEF Minima
  <2>2. PICK edge \in snapshot.numbers["edge"] : edge \in Int /\ edge >= c.min["edge"]
    BY <1>6, <2>1
  <2> QED  BY <1>2, <2>2 DEF HardFloorBps
<1>10. ASSUME NEW f \in Minima  PROVE \E n \in snapshot.numbers[f] : n >= config.min[f]
  <2>1. PICK n \in snapshot.numbers[f] : n \in Int /\ n >= c.min[f]
    BY <1>6
  <2>2. config.min[f] \in Int
    BY DEF Configs
  <2> QED  BY <1>2, <2>1, <2>2
<1>11. snapshot.sellSimulationOk = "true" /\ snapshot.mint # {} /\ snapshot.riskFlags = {}
  BY <1>3 DEF Flagged
<1> QED  BY <1>1, <1>4, <1>7, <1>8, <1>9, <1>10, <1>11

(* Every mode but SHADOW is refused alike. *)
Modes == {"SHADOW", "LIVE"}

Mandates == [enabled : BOOLEAN, mode : Modes, capital : Optional, available : Optional, maxTrade : Optional, allocation : Optional,
             maxDailyLoss : Optional, dailyPnl : Optional, maxTrades : Optional, tradesToday : Optional, cooldown : Optional,
             sinceLast : Optional, unlimited : {{}, {TRUE}, {FALSE}}, maxSlippage : Optional, minScore : Optional, stopLoss : Optional,
             trailingStop : Optional, exitFloor : Optional, allowed : SUBSET STRING]

Positions == [size : Int, pnl : Int, drawdown : Int, peaked : BOOLEAN, momentum5m : Int, momentum1h : Int]

LEMMA Clamped ==
  ASSUME NEW n \in Int, NEW least \in Int, NEW most \in Int
  PROVE  Clamp(n, least, most) \in Int /\ Clamp(n, least, most) <= most /\ (least <= most => Clamp(n, least, most) >= least)
  BY DEF Clamp, AtMost, AtLeast

(* Numbers that are absent or nonsense still give limits that are numbers. *)
LEMMA NormalizedMandate ==
  ASSUME NEW raw \in Mandates
  PROVE  LET m == NormalizeMandate(raw) IN
         /\ m.capital \in Int /\ m.capital >= 0 /\ m.available \in Int /\ m.maxTrade \in Int
         /\ m.allocation \in Int /\ m.allocation >= 1 /\ m.allocation <= 10000 /\ m.maxDailyLoss \in Int /\ m.dailyPnl \in Int
         /\ m.maxTrades \in Int /\ m.tradesToday \in Int /\ m.cooldown \in Int /\ m.minScore \in Int
         /\ m.stopLoss \in Int /\ m.maxSlippage \in Int
         /\ m.enabled = raw.enabled /\ m.mode = raw.mode /\ m.unlimited = Known(raw.unlimited, ShadowUnlimited)
         /\ m.sinceLast = raw.sinceLast /\ m.allowed = raw.allowed
<1> DEFINE m == NormalizeMandate(raw)
           capital == AtLeast(Known(raw.capital, 0), 0)
<1>1. capital \in Int /\ capital >= 0
  BY KnownOf, LeastOf DEF Mandates
<1>2. m.capital = capital
  BY DEF NormalizeMandate
<1>3. capital \div 10 \in Int /\ capital \div 50 \in Int
  BY <1>1
<1>4. /\ m.available = AtLeast(Known(raw.available, capital), 0)
      /\ m.maxTrade = AtLeast(Known(raw.maxTrade, capital \div 10), 0)
      /\ m.maxDailyLoss = AtLeast(Known(raw.maxDailyLoss, capital \div 50), 0)
  BY DEF NormalizeMandate
<1> HIDE DEF capital
<1>5. m.available \in Int /\ m.maxTrade \in Int /\ m.maxDailyLoss \in Int
  <2>1. Known(raw.available, capital) \in Int /\ Known(raw.maxTrade, capital \div 10) \in Int
        /\ Known(raw.maxDailyLoss, capital \div 50) \in Int
    BY <1>1, <1>3, KnownOf DEF Mandates
  <2> QED  BY <1>4, <2>1, LeastOf
<1>6. m.allocation \in Int /\ m.allocation >= 1 /\ m.allocation <= 10000 /\ m.minScore \in Int
  <2>1. Known(raw.allocation, 1000) \in Int /\ Known(raw.minScore, 82) \in Int
    BY KnownOf DEF Mandates
  <2>2. m.allocation = Clamp(Known(raw.allocation, 1000), 1, 10000) /\ m.minScore = Clamp(Known(raw.minScore, 82), 0, 100)
    BY DEF NormalizeMandate
  <2> DEFINE allocation == Known(raw.allocation, 1000)  score == Known(raw.minScore, 82)
  <2> HIDE DEF allocation, score, m
  <2>3. Clamp(allocation, 1, 10000) \in Int /\ Clamp(allocation, 1, 10000) >= 1 /\ Clamp(allocation, 1, 10000) <= 10000
    BY <2>1 DEF allocation, Clamp, AtMost, AtLeast
  <2>4. Clamp(score, 0, 100) \in Int
    BY <2>1, Clamped DEF score
  <2> QED  BY <2>2, <2>3, <2>4 DEF allocation, score
<1>7. m.dailyPnl \in Int /\ m.maxTrades \in Int /\ m.tradesToday \in Int /\ m.cooldown \in Int
      /\ m.stopLoss \in Int /\ m.maxSlippage \in Int
  <2>1. Known(raw.dailyPnl, 0) \in Int /\ Known(raw.maxTrades, 6) \in Int /\ Known(raw.tradesToday, 0) \in Int
        /\ Known(raw.cooldown, 1800) \in Int /\ Known(raw.stopLoss, 500) \in Int /\ Known(raw.maxSlippage, 100) \in Int
    BY KnownOf DEF Mandates
  <2> QED  BY <2>1, LeastOf DEF NormalizeMandate
<1>8. /\ m.enabled = raw.enabled /\ m.mode = raw.mode /\ m.unlimited = Known(raw.unlimited, ShadowUnlimited)
      /\ m.sinceLast = raw.sinceLast /\ m.allowed = raw.allowed
  BY DEF NormalizeMandate
<1> HIDE DEF m
<1>9. m.capital \in Int /\ m.capital >= 0
  BY <1>1, <1>2
<1> QED  BY <1>5, <1>6, <1>7, <1>8, <1>9 DEF m

(* A share of the capital is no more than the capital.                     *)
Share(capital, allocation) == (capital * allocation) \div 10000

LEMMA ShareOfCapital ==
  ASSUME NEW capital \in Int, capital >= 0, NEW allocation \in Int, allocation >= 1, allocation <= 10000
  PROVE  Share(capital, allocation) \in Int /\ Share(capital, allocation) <= capital
<1> DEFINE product == capital * allocation
<1>1. product \in Int /\ product <= 10000 * capital
  OBVIOUS
<1> HIDE DEF product
<1>2. product \div 10000 \in Int /\ product \div 10000 <= capital
  BY <1>1
<1> QED  BY <1>2 DEF product, Share

(* Only a mandate that is enabled and in SHADOW mode buys, with LIVE off,  *)
(* without a position and on a qualified snapshot of a token it allows,    *)
(* within the loss of a day and, unless it is unlimited, the trades and    *)
(* the pause of a day, and what it buys passes no limit by more than half  *)
(* a cent and none of whole cents at all (evaluateAutoTrade).              *)
THEOREM PurchaseWithinLimits ==
  ASSUME NEW assessment, assessment.score \in Int, NEW raw \in Mandates, NEW position \in Positions, NEW live \in BOOLEAN,
         EvaluateAutoTrade(assessment, raw, position, live).action = "BUY"
  PROVE  LET m == NormalizeMandate(raw)
             amount == EvaluateAutoTrade(assessment, raw, position, live).amount IN
         /\ raw.enabled /\ raw.mode = "SHADOW" /\ ~live /\ position.size <= 0
         /\ assessment.verdict = "QUALIFIED" /\ assessment.score >= m.minScore
         /\ TokenAllowed(assessment, m) /\ SellPathSafe(assessment, m)
         /\ m.unlimited \/ m.tradesToday < m.maxTrades
         /\ m.unlimited \/ \A since \in raw.sinceLast : since >= m.cooldown
         /\ m.maxDailyLoss > 0 => m.dailyPnl > -m.maxDailyLoss
         /\ amount \in Int
         /\ \A limit \in {m.maxTrade, m.available, m.capital} :
              amount <= limit + 50 /\ (Money(limit) => amount <= limit)
<1> DEFINE m == NormalizeMandate(raw)
           decision == EvaluateAutoTrade(assessment, raw, position, live)
           share == Share(m.capital, m.allocation)
<1>1. /\ m.capital \in Int /\ m.capital >= 0 /\ m.available \in Int /\ m.maxTrade \in Int
      /\ m.allocation \in Int /\ m.allocation >= 1 /\ m.allocation <= 10000
      /\ m.enabled = raw.enabled /\ m.mode = raw.mode /\ m.unlimited = Known(raw.unlimited, ShadowUnlimited)
      /\ m.sinceLast = raw.sinceLast
  BY NormalizedMandate
<1>2. /\ m.enabled /\ m.mode = "SHADOW" /\ ~live /\ TokenAllowed(assessment, m) /\ ~HasPosition(position)
      /\ decision = Enter(assessment, m)
  BY DEF EvaluateAutoTrade, Decision, Exit
<1>3. MayEnter(assessment, m) /\ decision.amount = ToCents(Budget(m))
  BY <1>2 DEF Enter, Decision
<1> HIDE DEF m, decision
<1>4. share \in Int /\ share <= m.capital
  BY <1>1, ShareOfCapital
<1>5. Budget(m) \in Int /\ Budget(m) <= m.maxTrade /\ Budget(m) <= m.available /\ Budget(m) <= m.capital
  <2> HIDE DEF share
  <2>1. AtMost(share, m.available) \in Int /\ AtMost(share, m.available) <= m.capital /\ AtMost(share, m.available) <= m.available
    BY <1>1, <1>4, LeastOf
  <2>2. Budget(m) = AtMost(m.maxTrade, AtMost(share, m.available))
    BY DEF Budget, share, Share
  <2> QED  BY <1>1, <2>1, <2>2, LeastOf
<1>6. /\ decision.amount \in Int
      /\ \A limit \in {m.maxTrade, m.available, m.capital} :
           decision.amount <= limit + 50 /\ (Money(limit) => decision.amount <= limit)
  <2>1. \A limit \in {m.maxTrade, m.available, m.capital} : limit \in Int /\ Budget(m) <= limit
    BY <1>1, <1>5
  <2>2. ToCents(Budget(m)) \in Int /\ ToCents(Budget(m)) <= Budget(m) + 50
    BY <1>5, CentsBounded
  <2>3. \A limit \in {m.maxTrade, m.available, m.capital} : Money(limit) => ToCents(Budget(m)) <= limit
    BY <1>5, <2>1, CentsBounded
  <2> QED  BY <1>3, <1>5, <2>1, <2>2, <2>3
<1>7. m.unlimited \/ \A since \in raw.sinceLast : since >= m.cooldown
  <2>1. m.unlimited \/ raw.sinceLast = {} \/ Known(raw.sinceLast, 0) >= m.cooldown
    BY <1>1, <1>3 DEF MayEnter
  <2>2. raw.sinceLast = {} \/ raw.sinceLast = {Known(raw.sinceLast, 0)}
    <3>1. raw.sinceLast \in Optional
      BY DEF Mandates
    <3> QED  BY <3>1, KnownOf
  <2> QED  BY <2>1, <2>2
<1>8. position.size <= 0
  BY <1>2 DEF HasPosition, Positions
<1>9. /\ raw.enabled /\ raw.mode = "SHADOW" /\ ~live
      /\ assessment.verdict = "QUALIFIED" /\ assessment.score >= m.minScore
      /\ TokenAllowed(assessment, m) /\ SellPathSafe(assessment, m)
      /\ m.unlimited \/ m.tradesToday < m.maxTrades
      /\ m.maxDailyLoss > 0 => m.dailyPnl > -m.maxDailyLoss
  BY <1>1, <1>2, <1>3 DEF MayEnter
<1> QED  BY <1>6, <1>7, <1>8, <1>9 DEF m, decision

(* A sale is of the whole position, and neither the trades, the pause nor  *)
(* the loss of a day keep a position whose loss has reached its stop: only *)
(* a path that is unsafe or a token no longer allowed does.                *)
THEOREM StoppedPositionIsSold ==
  ASSUME NEW assessment, NEW raw \in Mandates, NEW position \in Positions, NEW live \in BOOLEAN
  PROVE  LET m == NormalizeMandate(raw)
             decision == EvaluateAutoTrade(assessment, raw, position, live) IN
         /\ decision.action = "SELL" => /\ raw.enabled /\ raw.mode = "SHADOW" /\ ~live
                                        /\ position.size > 0 /\ decision.amount = position.size
                                        /\ SellPathSafe(assessment, m)
         /\ raw.enabled /\ raw.mode = "SHADOW" /\ ~live /\ position.size > 0 /\ position.pnl <= -m.stopLoss =>
              (decision.action = "SELL" <=> TokenAllowed(assessment, m) /\ SellPathSafe(assessment, m))
<1> DEFINE m == NormalizeMandate(raw)
           decision == EvaluateAutoTrade(assessment, raw, position, live)
<1>1. m.enabled = raw.enabled /\ m.mode = raw.mode
  BY NormalizedMandate
<1>2. ASSUME decision.action = "SELL"
      PROVE  /\ m.enabled /\ m.mode = "SHADOW" /\ ~live /\ TokenAllowed(assessment, m) /\ HasPosition(position)
             /\ decision = Exit(assessment, m, position)
  BY <1>2 DEF EvaluateAutoTrade, Decision, Enter
<1>3. ASSUME m.enabled, m.mode = "SHADOW", ~live, HasPosition(position)
      PROVE  decision = IF TokenAllowed(assessment, m) THEN Exit(assessment, m, position) ELSE Decision("HOLD", 0)
  BY <1>3 DEF EvaluateAutoTrade
<1> HIDE DEF m, decision
<1>4. decision.action = "SELL" => decision.amount = position.size /\ SellPathSafe(assessment, m)
  BY <1>2 DEF Exit, Decision
<1>5. ASSUME raw.enabled, raw.mode = "SHADOW", ~live, position.size > 0, position.pnl <= -m.stopLoss
      PROVE  decision.action = "SELL" <=> TokenAllowed(assessment, m) /\ SellPathSafe(assessment, m)
  <2>1. ShouldExit(assessment, m, position)
    BY <1>5 DEF ShouldExit
  <2> QED  BY <1>1, <1>3, <1>5, <2>1 DEF Exit, Decision, HasPosition
<1> QED  BY <1>1, <1>2, <1>4, <1>5 DEF m, decision, HasPosition

-----------------------------------------------------------------------------
(* From a stored mandate to a purchase. *)
Risks == [capital : Optional, available : Optional, dailyPnl : Optional, tradesToday : Optional, maxTrades : Optional,
          cooldown : Optional, sinceLast : Optional, minScore : Optional, exitFloor : Optional, allowed : SUBSET STRING]

(* What the engine is given of a stored mandate.                           *)
LEMMA MandateBuilt ==
  ASSUME NEW row, row.value \in Int, row.maxCopy \in Int, row.maxPosition \in Int, NEW follower, NEW risk \in Risks,
         NEW mandate \in BuildAutoTradeMandate(row, follower, risk)
  PROVE  LET capital == Known(risk.capital, 0)
             available == Known(risk.available, 0)
             own == AtMost(capital, row.maxPosition)
             left == AtMost(available, own) IN
         /\ Copyable(row) /\ row.status = "ACTIVE" /\ row.enabled /\ row.consented /\ row.follower = follower
         /\ row.policyType = "FIXED_USD" /\ BpsKept(row)
         /\ \A amount \in {row.value, row.maxCopy, row.maxPosition} : amount > 0 /\ Money(amount)
         /\ risk.capital = {capital} /\ risk.available = {available} /\ capital \in Int /\ available \in Int
         /\ available >= 0 /\ capital >= 100 /\ available <= capital /\ Money(capital) /\ Money(available)
         /\ risk.maxTrades # {} /\ risk.cooldown # {} /\ risk.sinceLast # {} /\ risk.minScore # {}
         /\ (\A n \in risk.maxTrades : n >= 1) /\ (\A n \in risk.minScore : n >= 0 /\ n <= 100)
         /\ mandate = [enabled |-> TRUE, mode |-> "SHADOW", capital |-> {own}, available |-> {left},
              maxTrade |-> {AtMost(AtMost(row.value, row.maxCopy), left)}, allocation |-> {row.allocation},
              maxDailyLoss |-> {ToCents((own * row.dailyLoss) \div 10000)}, dailyPnl |-> {Known(risk.dailyPnl, 0)},
              maxTrades |-> risk.maxTrades, tradesToday |-> {Known(risk.tradesToday, 0)}, cooldown |-> risk.cooldown,
              sinceLast |-> risk.sinceLast, unlimited |-> {}, maxSlippage |-> {row.slippage}, minScore |-> risk.minScore,
              stopLoss |-> {row.drawdown}, trailingStop |-> {row.drawdown}, exitFloor |-> risk.exitFloor, allowed |-> risk.allowed]
<1> DEFINE capital == Known(risk.capital, 0)
           available == Known(risk.available, 0)
<1>1. PICK m \in HydratePersistedCopyMandate(row), r \in TrustedRuntimeRisk(risk) :
        /\ AllowsIntent(m, follower) /\ m.type = "FIXED_USD" /\ BpsKept(row)
        /\ mandate = EngineMandate(row, m, r)
  BY DEF BuildAutoTradeMandate
<1>2. r = risk
  BY DEF TrustedRuntimeRisk
<1>3. PICK status \in PersistedStatus(row) : m \in CreateCopyMandate(row, status) /\ Copyable(row)
  BY DEF HydratePersistedCopyMandate
<1>4. /\ row.consented /\ row.policyType \in PolicyTypes
      /\ \A amount \in {row.value, row.maxCopy, row.maxPosition} : amount > 0 /\ Money(amount)
      /\ m = [follower |-> row.follower, status |-> status, type |-> row.policyType, value |-> row.value,
              maxCopy |-> row.maxCopy, maxPosition |-> row.maxPosition]
  BY <1>3 DEF CreateCopyMandate
<1>5. status = "ACTIVE" /\ row.follower = follower /\ row.policyType = "FIXED_USD"
  BY <1>1, <1>4 DEF AllowsIntent
<1>6. row.status = "ACTIVE" /\ row.enabled
  BY <1>3, <1>5 DEF PersistedStatus
<1>7. /\ \E n \in risk.capital : n >= 100
      /\ \E n \in risk.available : n >= 0
      /\ available <= capital
      /\ \A n \in risk.capital \cup risk.available : Money(n)
      /\ risk.maxTrades # {} /\ risk.cooldown # {} /\ risk.sinceLast # {} /\ risk.minScore # {}
      /\ (\A n \in risk.maxTrades : n >= 1) /\ (\A n \in risk.minScore : n >= 0 /\ n <= 100)
  <2> DEFINE within(field, least, most) == \E n \in risk[field] : n >= least /\ n <= most
  <2>1. /\ within("capital", 100, 2147483647) /\ within("available", 0, 2147483647)
        /\ available <= capital
        /\ \A field \in {"capital", "available", "dailyPnl"} : \A n \in risk[field] : Money(n)
        /\ within("maxTrades", 1, 1000) /\ within("cooldown", 0, 86400 * 30) /\ within("sinceLast", 0, 86400 * 365)
        /\ within("minScore", 0, 100) /\ within("exitFloor", 0, 100)
    BY DEF TrustedRuntimeRisk
  <2>2. \A field \in {"maxTrades", "minScore"} : risk[field] \in Optional
    BY DEF Risks
  <2>3. \A n \in risk.maxTrades : n >= 1
    BY <2>1, <2>2 DEF Optional
  <2>4. \A n \in risk.minScore : n >= 0 /\ n <= 100
    BY <2>1, <2>2 DEF Optional
  <2>5. risk.maxTrades # {} /\ risk.cooldown # {} /\ risk.sinceLast # {} /\ risk.minScore # {}
    BY <2>1
  <2> QED  BY <2>1, <2>3, <2>4, <2>5
<1>8. risk.capital = {capital} /\ risk.available = {available} /\ capital \in Int /\ available \in Int
  <2>1. risk.capital \in Optional /\ risk.available \in Optional
    BY DEF Risks
  <2> QED  BY <1>7, <2>1, KnownOf
<1> HIDE DEF capital, available
<1>9. capital >= 100 /\ available >= 0 /\ Money(capital) /\ Money(available)
  BY <1>7, <1>8
<1> DEFINE own == AtMost(capital, row.maxPosition)
           left == AtMost(available, own)
<1>10. mandate = [enabled |-> TRUE, mode |-> "SHADOW", capital |-> {own}, available |-> {left},
              maxTrade |-> {AtMost(AtMost(row.value, row.maxCopy), left)}, allocation |-> {row.allocation},
              maxDailyLoss |-> {ToCents((own * row.dailyLoss) \div 10000)}, dailyPnl |-> {Known(risk.dailyPnl, 0)},
              maxTrades |-> risk.maxTrades, tradesToday |-> {Known(risk.tradesToday, 0)}, cooldown |-> risk.cooldown,
              sinceLast |-> risk.sinceLast, unlimited |-> {}, maxSlippage |-> {row.slippage}, minScore |-> risk.minScore,
              stopLoss |-> {row.drawdown}, trailingStop |-> {row.drawdown}, exitFloor |-> risk.exitFloor, allowed |-> risk.allowed]
  <2>1. m.value = row.value /\ m.maxCopy = row.maxCopy /\ m.maxPosition = row.maxPosition
    BY <1>4
  <2> QED  BY <1>1, <1>2, <2>1 DEF EngineMandate, capital, available
<1> HIDE DEF own, left
<1>11. /\ Copyable(row) /\ row.status = "ACTIVE" /\ row.enabled /\ row.consented /\ row.follower = follower
       /\ row.policyType = "FIXED_USD" /\ BpsKept(row)
       /\ \A amount \in {row.value, row.maxCopy, row.maxPosition} : amount > 0 /\ Money(amount)
  BY <1>1, <1>3, <1>4, <1>5, <1>6
<1>12. /\ risk.capital = {capital} /\ risk.available = {available} /\ capital \in Int /\ available \in Int
       /\ available >= 0 /\ capital >= 100 /\ available <= capital /\ Money(capital) /\ Money(available)
       /\ risk.maxTrades # {} /\ risk.cooldown # {} /\ risk.sinceLast # {} /\ risk.minScore # {}
       /\ (\A n \in risk.maxTrades : n >= 1) /\ (\A n \in risk.minScore : n >= 0 /\ n <= 100)
  BY <1>7, <1>8, <1>9
<1> QED  BY <1>10, <1>11, <1>12 DEF capital, available, own, left

LEMMA MandateTyped ==
  ASSUME NEW row, row.value \in Int, row.maxCopy \in Int, row.maxPosition \in Int, NEW follower, NEW risk \in Risks,
         NEW mandate \in BuildAutoTradeMandate(row, follower, risk)
  PROVE  mandate \in Mandates
<1> DEFINE own == AtMost(Known(risk.capital, 0), row.maxPosition)
           left == AtMost(Known(risk.available, 0), own)
           most == AtMost(AtMost(row.value, row.maxCopy), left)
           loss == ToCents((own * row.dailyLoss) \div 10000)
<1>1. BpsKept(row) /\ Known(risk.capital, 0) \in Int /\ Known(risk.available, 0) \in Int
  BY MandateBuilt
<1>2. own \in Int /\ left \in Int /\ most \in Int
  BY <1>1, LeastOf
<1>3. row.allocation \in Int /\ row.slippage \in Int /\ row.dailyLoss \in Int /\ row.drawdown \in Int
  <2>1. \A n : \A top \in Int : PersistedBps(n, top) => n \in Int
    BY DEF PersistedBps
  <2> QED  BY <1>1, <2>1 DEF BpsKept
<1>4. loss \in Int
  <2> DEFINE share == (own * row.dailyLoss) \div 10000
  <2> HIDE DEF own
  <2>1. share \in Int
    BY <1>2, <1>3
  <2> HIDE DEF share
  <2>2. ToCents(share) \in Int
    BY <2>1, CentsBounded
  <2> QED  BY <2>2 DEF share
<1>5. \A n \in Int : {n} \in Optional
  BY DEF Optional
<1> DEFINE pnl == Known(risk.dailyPnl, 0)
           taken == Known(risk.tradesToday, 0)
<1>6. pnl \in Int /\ taken \in Int
  <2>1. risk.dailyPnl \in Optional /\ risk.tradesToday \in Optional
    BY DEF Risks
  <2> QED  BY <2>1, KnownOf
<1>7. mandate = [enabled |-> TRUE, mode |-> "SHADOW", capital |-> {own}, available |-> {left},
              maxTrade |-> {most}, allocation |-> {row.allocation},
              maxDailyLoss |-> {loss}, dailyPnl |-> {pnl},
              maxTrades |-> risk.maxTrades, tradesToday |-> {taken}, cooldown |-> risk.cooldown,
              sinceLast |-> risk.sinceLast, unlimited |-> {}, maxSlippage |-> {row.slippage}, minScore |-> risk.minScore,
              stopLoss |-> {row.drawdown}, trailingStop |-> {row.drawdown}, exitFloor |-> risk.exitFloor, allowed |-> risk.allowed]
  BY MandateBuilt
<1> HIDE DEF own, left, most, loss, pnl, taken
<1>8. /\ {own} \in Optional /\ {left} \in Optional /\ {most} \in Optional /\ {loss} \in Optional
      /\ {row.allocation} \in Optional /\ {row.slippage} \in Optional /\ {row.drawdown} \in Optional
      /\ {pnl} \in Optional /\ {taken} \in Optional
  BY <1>2, <1>3, <1>4, <1>5, <1>6
<1>9. /\ risk.maxTrades \in Optional /\ risk.cooldown \in Optional /\ risk.sinceLast \in Optional
      /\ risk.minScore \in Optional /\ risk.exitFloor \in Optional /\ risk.allowed \in SUBSET STRING
  BY DEF Risks
<1> QED  BY <1>7, <1>8, <1>9 DEF Mandates, Modes

(* A purchase for a stored mandate is the member's own, consented to and   *)
(* active, of a trader who can be copied, and within every amount of it,   *)
(* the money left and, unless AUTOTRADE_SHADOW_UNLIMITED is on, the trades *)
(* and the pause of a day, on a snapshot whose edge is 20 basis points at  *)
(* least; rounding never passes a limit                                    *)
(* (buildAutoTradeMandateFromPersisted, evaluateAutoTrade).                *)
THEOREM PurchaseWithinMandate ==
  ASSUME NEW row, row.value \in Int, row.maxCopy \in Int, row.maxPosition \in Int, NEW follower, NEW risk \in Risks,
         NEW mandate \in BuildAutoTradeMandate(row, follower, risk),
         NEW snapshot \in Snapshots, NEW score \in Int, NEW config \in Configs, NEW now \in Int,
         NEW position \in Positions, NEW live \in BOOLEAN,
         EvaluateAutoTrade(Assess(snapshot, score, config, now), mandate, position, live).action = "BUY"
  PROVE  LET amount == EvaluateAutoTrade(Assess(snapshot, score, config, now), mandate, position, live).amount IN
         /\ Copyable(row) /\ row.status = "ACTIVE" /\ row.consented /\ row.follower = follower
         /\ ~live /\ position.size <= 0
         /\ amount <= row.value /\ amount <= row.maxCopy /\ amount <= row.maxPosition
         /\ \A n \in risk.available : amount <= n
         /\ ShadowUnlimited \/ \A taken \in risk.tradesToday, most \in risk.maxTrades : taken < most
         /\ ShadowUnlimited \/ \A since \in risk.sinceLast, pause \in risk.cooldown : since >= pause
         /\ \A least \in risk.minScore : score >= least
         /\ \E edge \in snapshot.numbers["edge"] : edge >= HardFloorBps
<1> DEFINE assessment == Assess(snapshot, score, config, now)
           amount == EvaluateAutoTrade(assessment, mandate, position, live).amount
           m == NormalizeMandate(mandate)
           capital == Known(risk.capital, 0)
           available == Known(risk.available, 0)
           own == AtMost(capital, row.maxPosition)
           left == AtMost(available, own)
           most == AtMost(AtMost(row.value, row.maxCopy), left)
<1>1. mandate \in Mandates /\ assessment.score = score
  BY MandateTyped DEF Assess
<1>2. /\ ~live /\ position.size <= 0
      /\ assessment.verdict = "QUALIFIED" /\ score >= m.minScore
      /\ m.unlimited \/ m.tradesToday < m.maxTrades
      /\ m.unlimited \/ \A since \in mandate.sinceLast : since >= m.cooldown
      /\ amount \in Int
      /\ Money(m.maxTrade) => amount <= m.maxTrade
  <2> HIDE DEF assessment
  <2>1. assessment.score \in Int /\ EvaluateAutoTrade(assessment, mandate, position, live).action = "BUY"
    BY <1>1 DEF assessment
  <2> QED  BY <1>1, <2>1, PurchaseWithinLimits
<1>3. /\ Copyable(row) /\ row.status = "ACTIVE" /\ row.consented /\ row.follower = follower
      /\ \A n \in {row.value, row.maxCopy, row.maxPosition} : n > 0 /\ Money(n)
      /\ risk.capital = {capital} /\ risk.available = {available} /\ capital \in Int /\ available \in Int
      /\ available >= 0 /\ capital >= 100 /\ Money(capital) /\ Money(available)
      /\ risk.maxTrades # {} /\ risk.cooldown # {} /\ risk.minScore # {}
      /\ (\A n \in risk.maxTrades : n >= 1) /\ (\A n \in risk.minScore : n >= 0 /\ n <= 100)
  BY MandateBuilt
<1>4. /\ mandate.unlimited = {} /\ mandate.sinceLast = risk.sinceLast /\ mandate.maxTrade = {most}
      /\ mandate.maxTrades = risk.maxTrades /\ mandate.tradesToday = {Known(risk.tradesToday, 0)}
      /\ mandate.cooldown = risk.cooldown /\ mandate.minScore = risk.minScore
  BY MandateBuilt
<1>5. \E edge \in snapshot.numbers["edge"] : edge >= HardFloorBps
  <2>1. Assess(snapshot, score, config, now).verdict = "QUALIFIED"
    BY <1>2
  <2> QED  BY <2>1, QualifiedIsProven
<1>6. /\ m.maxTrade = AtLeast(Known(mandate.maxTrade, AtLeast(Known(mandate.capital, 0), 0) \div 10), 0)
      /\ m.maxTrades = AtLeast(Known(mandate.maxTrades, 6), 1)
      /\ m.tradesToday = AtLeast(Known(mandate.tradesToday, 0), 0)
      /\ m.cooldown = AtLeast(Known(mandate.cooldown, 1800), 0)
      /\ m.minScore = Clamp(Known(mandate.minScore, 82), 0, 100)
      /\ m.unlimited = ShadowUnlimited
  BY <1>4 DEF NormalizeMandate, Known
<1> HIDE DEF assessment, amount, m, capital, available
<1>7. most \in Int /\ most >= 0 /\ Money(most) /\ most <= row.value /\ most <= row.maxCopy /\ most <= row.maxPosition
      /\ most <= available
  <2>1. own \in {capital, row.maxPosition} /\ own <= row.maxPosition
    BY <1>3, LeastOf
  <2>2. own \in Int /\ own >= 0 /\ Money(own)
    BY <1>3, <2>1
  <2> HIDE DEF own
  <2>3. left \in {available, own} /\ left <= available /\ left <= own
    BY <1>3, <2>2, LeastOf
  <2>4. left \in Int /\ left >= 0 /\ Money(left)
    BY <1>3, <2>2, <2>3
  <2>5. /\ AtMost(row.value, row.maxCopy) \in {row.value, row.maxCopy}
        /\ AtMost(row.value, row.maxCopy) <= row.value /\ AtMost(row.value, row.maxCopy) <= row.maxCopy
    BY LeastOf
  <2>6. AtMost(row.value, row.maxCopy) \in Int /\ AtMost(row.value, row.maxCopy) > 0 /\ Money(AtMost(row.value, row.maxCopy))
    BY <1>3, <2>5
  <2> DEFINE copy == AtMost(row.value, row.maxCopy)
  <2> HIDE DEF left, copy
  <2>7. AtMost(copy, left) \in {copy, left} /\ AtMost(copy, left) <= copy /\ AtMost(copy, left) <= left
    BY <2>4, <2>6, LeastOf DEF copy
  <2>8. most = AtMost(copy, left)
    BY DEF copy, left
  <2> HIDE DEF most
  <2> QED  BY <2>1, <2>2, <2>3, <2>4, <2>5, <2>6, <2>7, <2>8 DEF copy
<1> HIDE DEF most
<1>8. m.maxTrade = most
  <2> DEFINE fallback == AtLeast(Known(mandate.capital, 0), 0) \div 10
  <2>1. m.maxTrade = AtLeast(Known({most}, fallback), 0)
    BY <1>4, <1>6
  <2> HIDE DEF fallback
  <2>2. Known({most}, fallback) = most
    BY KnownOf
  <2> QED  BY <1>7, <2>1, <2>2 DEF AtLeast
<1>9. ShadowUnlimited \/ \A taken \in risk.tradesToday, limit \in risk.maxTrades : taken < limit
  <2> SUFFICES ASSUME ~ShadowUnlimited, NEW taken \in risk.tradesToday, NEW limit \in risk.maxTrades  PROVE taken < limit
    OBVIOUS
  <2>1. risk.tradesToday = {taken} /\ taken \in Int /\ risk.maxTrades = {limit} /\ limit \in Int /\ limit >= 1
    BY <1>3 DEF Risks, Optional
  <2>2. Known({taken}, 0) = taken /\ Known({limit}, 6) = limit
    BY <2>1, KnownOf
  <2>3. m.maxTrades = AtLeast(limit, 1) /\ m.tradesToday = AtLeast(taken, 0)
    <3>1. mandate.maxTrades = {limit} /\ mandate.tradesToday = {taken}
      BY <1>4, <2>1, <2>2
    <3> QED  BY <1>6, <2>2, <3>1
  <2>4. m.maxTrades = limit /\ m.tradesToday >= taken /\ m.tradesToday \in Int
    BY <2>1, <2>3 DEF AtLeast
  <2> QED  BY <1>2, <1>6, <2>1, <2>4
<1>10. ShadowUnlimited \/ \A since \in risk.sinceLast, pause \in risk.cooldown : since >= pause
  <2> SUFFICES ASSUME ~ShadowUnlimited, NEW since \in risk.sinceLast, NEW pause \in risk.cooldown  PROVE since >= pause
    OBVIOUS
  <2>1. since \in Int /\ risk.cooldown = {pause} /\ pause \in Int
    BY DEF Risks, Optional
  <2>2. Known({pause}, 1800) = pause
    BY <2>1, KnownOf
  <2>3. m.cooldown = AtLeast(pause, 0)
    BY <1>4, <1>6, <2>1, <2>2
  <2>4. m.cooldown \in Int /\ m.cooldown >= pause
    BY <2>1, <2>3 DEF AtLeast
  <2>5. since >= m.cooldown
    BY <1>2, <1>4, <1>6
  <2> QED  BY <2>1, <2>4, <2>5
<1>11. \A least \in risk.minScore : score >= least
  <2> SUFFICES ASSUME NEW least \in risk.minScore  PROVE score >= least
    OBVIOUS
  <2>1. risk.minScore = {least} /\ least \in Int /\ least >= 0 /\ least <= 100
    BY <1>3 DEF Risks, Optional
  <2>2. Known({least}, 82) = least
    BY <2>1, KnownOf
  <2>3. m.minScore = Clamp(least, 0, 100)
    BY <1>4, <1>6, <2>1, <2>2
  <2>4. m.minScore = least
    BY <2>1, <2>3 DEF Clamp, AtMost, AtLeast
  <2> QED  BY <1>2, <2>4
<1>12. amount <= row.value /\ amount <= row.maxCopy /\ amount <= row.maxPosition /\ amount <= available
  BY <1>2, <1>3, <1>7, <1>8
<1>13. \A n \in risk.available : amount <= n
  BY <1>3, <1>12
<1> QED  BY <1>2, <1>3, <1>5, <1>9, <1>10, <1>11, <1>12, <1>13 DEF amount, assessment

-----------------------------------------------------------------------------
(* The round trip. *)
LEMMA DivBounds ==
  ASSUME NEW n \in Int, NEW d \in Int, d > 0
  PROVE  (n \div d) \in Int /\ d * (n \div d) <= n
  OBVIOUS

LEMMA TimesMonotone ==
  ASSUME NEW a \in Int, NEW b \in Int, NEW d \in Int, d >= 0, a <= b
  PROVE  d * a <= d * b
  OBVIOUS

LEMMA TruncBounds ==
  ASSUME NEW n \in Int, NEW d \in Int, d > 0, NEW least \in Int, least > 0, Trunc(n, d) >= least
  PROVE  d * least <= n
<1>1. CASE n >= 0
  <2>1. Trunc(n, d) = n \div d
    BY <1>1 DEF Trunc
  <2> DEFINE q == n \div d
  <2>2. q \in Int /\ d * q <= n
    BY DivBounds
  <2>3. least <= q
    BY <2>1
  <2> HIDE DEF q
  <2>4. d * least <= d * q
    BY <2>2, <2>3, TimesMonotone
  <2> DEFINE x == d * least  y == d * q
  <2>5. x \in Int /\ y \in Int
    BY <2>2
  <2>6. x <= y /\ y <= n
    BY <2>2, <2>4
  <2> HIDE DEF x, y
  <2>7. x <= n
    BY <2>5, <2>6
  <2> QED  BY <2>7 DEF x
<1>2. CASE n < 0
  <2> DEFINE q == (-n) \div d
  <2>1. Trunc(n, d) = -q
    BY <1>2 DEF Trunc
  <2>2. q \in Int /\ q >= 0
    BY <1>2
  <2> HIDE DEF q
  <2> QED  BY <2>1, <2>2
<1> QED  BY <1>1, <1>2

(* A round trip that passes truly gains: what comes back exceeds what was  *)
(* spent by the floor, 20 basis points at least, and the fee of its        *)
(* network, whatever the truncation of the division and the configuration  *)
(* (computeExecutableRoundTripEdgeBps, finalizeExpectedNetEdge).            *)
THEOREM PassedRoundTripGains ==
  ASSUME Precision \in Int, Precision > 0, FeeRate \in Int, FeeRate >= 0,
         NEW initial \in Int, initial > 0, NEW returned \in Int,
         NEW fee \in {{}} \cup {{n} : n \in Nat}, NEW requested \in {{}} \cup {{n} : n \in Int},
         FinalizeExpectedNetEdge({RoundTripEdge(initial, returned)}, fee, requested).passed
  PROVE  initial * (HardMinExpectedNetEdgeBps * Precision + NetworkFee(fee)) <= (returned - initial) * 10000 * Precision
<1> DEFINE edge == RoundTripEdge(initial, returned)
           gain == (returned - initial) * 10000 * Precision
           cost == NetworkFee(fee)
           least == HardMinExpectedNetEdgeBps * Precision + cost
<1>1. \A n : The({n}) = n
  BY DEF The
<1>2. cost \in Int /\ cost >= 0
  <2> DEFINE lamports == Number(fee)
  <2>1. lamports \in Nat
    <3>1. CASE fee = {}
      BY <3>1 DEF Number
    <3>2. CASE fee # {}
      <4>1. PICK n \in Nat : fee = {n}
        BY <3>2
      <4> QED  BY <1>1, <3>2, <4>1 DEF Number
    <3> QED  BY <3>1, <3>2
  <2>2. cost = lamports * FeeRate
    BY DEF NetworkFee
  <2> HIDE DEF lamports, cost
  <2> QED  BY <2>1, <2>2
<1>3. Floor(requested) \in Int /\ Floor(requested) >= HardMinExpectedNetEdgeBps * Precision
  <2> DEFINE floor == IF requested # {} /\ The(requested) > HardMinExpectedNetEdgeBps
                      THEN The(requested) ELSE HardMinExpectedNetEdgeBps
  <2>1. floor \in Int /\ HardMinExpectedNetEdgeBps \in Int /\ floor >= HardMinExpectedNetEdgeBps
    <3>1. CASE requested = {}
      BY <3>1 DEF HardMinExpectedNetEdgeBps
    <3>2. CASE requested # {}
      <4>1. PICK n \in Int : requested = {n}
        BY <3>2
      <4>2. The(requested) = n
        BY <1>1, <4>1
      <4> QED  BY <4>2 DEF HardMinExpectedNetEdgeBps
    <3> QED  BY <3>1, <3>2
  <2>2. Floor(requested) = Precision * floor
    BY DEF Floor
  <2> HIDE DEF floor
  <2>3. Precision * HardMinExpectedNetEdgeBps <= Precision * floor
    BY <2>1, TimesMonotone
  <2> QED  BY <2>1, <2>2, <2>3
<1>4. edge - cost >= Floor(requested)
  <2>1. The({edge}) = edge
    BY <1>1
  <2> QED  BY <2>1 DEF FinalizeExpectedNetEdge
<1>5. edge = Trunc(gain, initial) /\ gain \in Int
  BY DEF RoundTripEdge, RatioToBps
<1> HIDE DEF edge, gain, cost
<1>6. least \in Int /\ least > 0
  BY <1>2 DEF HardMinExpectedNetEdgeBps
<1>7. Trunc(gain, initial) >= least
  <2>1. Trunc(gain, initial) \in Int
    BY <1>5 DEF Trunc
  <2> QED  BY <1>2, <1>3, <1>4, <1>5, <2>1 DEF HardMinExpectedNetEdgeBps
<1> HIDE DEF least
<1>8. initial * least <= gain
  BY <1>5, <1>6, <1>7, TruncBounds
<1> QED  BY <1>8 DEF least, gain, cost
=============================================================================
