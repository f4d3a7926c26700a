-------------------------- MODULE FollowerSnapshot --------------------------
(***************************************************************************)
(* getFollowerSnapshot (follower-position-accounting.mjs): the accounting  *)
(* state, the day's profit and the positions of a follower, read by three  *)
(* statements while closes commit in between.  A close takes its time when *)
(* it has the row and commits position, event and cursor together, as      *)
(* ShadowPositions has it.  A unit of time is the tolerance of 2 s.        *)
(***************************************************************************)
EXTENDS Integers, FiniteSets

CONSTANTS
  Holdings,    \* positions of the follower
  Readers,     \* snapshots
  MaxLag,      \* maxAccountingLagMs
  MarkAge,     \* maxMarkAgeMs
  PageLimit,   \* LIMIT
  DayLength, MaxNow,
  NoReader

ASSUME SnapshotBounds == {MaxLag, MarkAge, MaxNow} \subseteq Nat /\ DayLength \in Nat \ {0}

VARIABLES
  now,
  holding,   \* follower_shadow_positions: their state, closed_at and mark_observed_at
  closing,   \* the times of closes that hold their row and have not committed
  through,   \* complete_through, {} before the first call
  readers

snapshotVars == <<now, holding, closing, through, readers>>

Ahead == -1

SnapshotInit ==
  /\ now = 0
  /\ holding = [p \in Holdings |-> [state |-> "none", closed |-> {}, marked |-> {}]]
  /\ closing = [p \in Holdings |-> {}]
  /\ through = {}
  /\ readers = [r \in Readers |-> NoReader]

Elapse == now < MaxNow /\ now' = now + 1 /\ UNCHANGED <<holding, closing, through, readers>>

OpenHolding(p) ==
  /\ holding[p].state = "none"
  /\ holding' = [holding EXCEPT ![p] = [state |-> "OPEN", closed |-> {}, marked |-> {now}]]
  /\ through' = {now}
  /\ UNCHANGED <<now, closing, readers>>

MarkHolding(p) ==
  /\ holding[p].state = "OPEN" /\ closing[p] = {}
  /\ holding' = [holding EXCEPT ![p].marked = {now}]
  /\ through' = {now}
  /\ UNCHANGED <<now, closing, readers>>

LockHolding(p) ==
  /\ holding[p].state = "OPEN" /\ closing[p] = {}
  /\ closing' = [closing EXCEPT ![p] = {now}]
  /\ UNCHANGED <<now, holding, through, readers>>

(* Its markReady took the clock at some time since. *)
CommitClose(p, at) ==
  /\ closing[p] # {}
  /\ at \in 0 .. now /\ \A t \in closing[p] : t <= at
  /\ holding' = [holding EXCEPT ![p] = [state |-> "CLOSED", closed |-> closing[p], marked |-> closing[p]]]
  /\ closing' = [closing EXCEPT ![p] = {}]
  /\ through' = {at}
  /\ UNCHANGED <<now, readers>>

Reading(r, pc) == readers[r] # NoReader /\ readers[r].pc = pc

Resume(r, reader) ==
  readers' = [readers EXCEPT ![r] = reader] /\ UNCHANGED <<now, holding, closing, through>>

(* getFollowerSnapshot takes the clock before the first statement.         *)
StartReading(r) ==
  /\ readers[r] = NoReader
  /\ Resume(r, [pc |-> "state", observed |-> now, through |-> {}, counted |-> {}, shown |-> {}, fresh |-> {}])

Lag(r) == {readers[r].observed - t : t \in through}

(* Mutant: the positions are read before the profit. *)
PageFirst == <<"page", "pnl">>

Order == <<"pnl", "page">>

After(statement) == IF statement = Order[1] THEN Order[2] ELSE "done"

(* accountingState: without a fresh cursor there is no snapshot. *)
AccountingState(r) ==
  /\ Reading(r, "state")
  /\ IF through # {} /\ Lag(r) \subseteq Ahead .. MaxLag
     THEN Resume(r, [readers[r] EXCEPT !.pc = Order[1], !.through = through])
     ELSE Resume(r, NoReader)

DayStart(t) == t - (t % DayLength)

(* dailyRealizedPnl: the closes of the UTC day, up to the cursor.          *)
InDay(r, p) ==
  \E t \in holding[p].closed, c \in readers[r].through : t \in DayStart(readers[r].observed) .. c

(* The page: open positions first. *)
Pages ==
  LET rows == {p \in Holdings : holding[p].state # "none"}
      open == {p \in rows : holding[p].state = "OPEN"} IN
  {page \in SUBSET rows :
     /\ Cardinality(page) = IF Cardinality(rows) < PageLimit THEN Cardinality(rows) ELSE PageLimit
     /\ page \subseteq open \/ open \subseteq page}

(* projectPosition: only a fresh mark values a position. *)
FreshMark(r, p, t) == t \in holding[p].marked /\ readers[r].observed - t \in Ahead .. MarkAge

DailyRealizedPnl(r) ==
  /\ Reading(r, "pnl")
  /\ Resume(r, [readers[r] EXCEPT !.pc = After(@), !.counted = {p \in Holdings : InDay(r, p)}])

ReadPositions(r) ==
  /\ Reading(r, "page")
  /\ \E page \in Pages :
       Resume(r, [readers[r] EXCEPT !.pc = After(@), !.shown = {<<p, holding[p].state>> : p \in page},
                                    !.fresh = {m \in page \X (0 .. MaxNow) : FreshMark(r, m[1], m[2])}])

SnapshotNext ==
  \/ Elapse
  \/ \E p \in Holdings : OpenHolding(p) \/ MarkHolding(p) \/ LockHolding(p) \/ \E at \in 0 .. MaxNow : CommitClose(p, at)
  \/ \E r \in Readers : StartReading(r) \/ AccountingState(r) \/ DailyRealizedPnl(r) \/ ReadPositions(r)

SnapshotSpec == SnapshotInit /\ [][SnapshotNext]_snapshotVars

(* A snapshot never counts the profit of a position it shows as open,      *)
(* counts nothing of another day or after the cursor it states, and values *)
(* nothing by a mark older or newer than it may be (getFollowerSnapshot).  *)
CountedIsClosed ==
  \A r \in Readers : Reading(r, "done") =>
    /\ \A p \in readers[r].counted :
         /\ <<p, "OPEN">> \notin readers[r].shown
         /\ \A t \in holding[p].closed, c \in readers[r].through :
              t <= c /\ t \div DayLength >= readers[r].observed \div DayLength
    /\ \A c \in readers[r].through : readers[r].observed - c <= MaxLag
    /\ \A m \in readers[r].fresh : m[2] - readers[r].observed \in -MarkAge .. 1
=============================================================================
