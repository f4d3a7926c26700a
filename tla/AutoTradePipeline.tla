------------------------- MODULE AutoTradePipeline -------------------------
(***************************************************************************)
(* Evaluations of one copy mandate by POST /api/account/autotrade/evaluate *)
(* (member-autotrade-route.mjs).  Each request takes a connection of the   *)
(* pool for its transaction and, while it holds that one, asks the pool    *)
(* for further connections to read the assessment and the runtime risk;    *)
(* the mandate, the decision and its audit event go through the            *)
(* transaction.  The pool waits for a free connection without a timeout,   *)
(* and a query that was asked is answered although its request has failed. *)
(***************************************************************************)
EXTENDS Naturals, FiniteSets

CONSTANTS
  Handlers,         \* requests served at the same time
  PoolSize,         \* connections of the pool (pg's default is 10)
  MaxTrades,        \* AUTOTRADE_DEFAULT_MAX_TRADES_PER_DAY
  ShadowUnlimited,  \* AUTOTRADE_SHADOW_UNLIMITED, TRUE when unset
  MaxDecisions,     \* bound: decisions of one day, those in flight included
  MaxLeft           \* bound: queries left behind when another request arrives

ASSUME PoolSizePositive == PoolSize \in Nat \ {0}
ASSUME MaxTradesPositive == MaxTrades \in Nat \ {0}
ASSUME BoundsNat == MaxDecisions \in Nat /\ MaxLeft \in Nat
ASSUME UnlimitedBoolean == ShadowUnlimited \in BOOLEAN
ASSUME HandlersFinite == IsFiniteSet(Handlers)

VARIABLES
  req,      \* what each handler has reached
  left,     \* how many queries of failed requests wait for a connection or have one
  today,    \* what is stored for the mandate since midnight UTC
  recent,   \* which of a decision, a BUY were stored in the last cooldown
  mandate,  \* whether the mandate and its trader may trade
  ready     \* whether position accounting is ready and fresh

vars == <<req, left, today, recent, mandate, ready>>

(* The queries of each stage; "client" is the transaction's connection. *)
Asks ==
  [session |-> {"session"}, touch |-> {"touch"}, connect |-> {"client"}, assess |-> {"assess"},
   risk |-> {"reserve", "history", "accounting"}, pnl |-> {"pnl"},
   mandate |-> {}, record |-> {}, audit |-> {}, commit |-> {}, release |-> {}, idle |-> {}]

Stages == DOMAIN Asks
Queries == {"session", "touch", "client", "assess", "reserve", "history", "accounting", "pnl"}

Requests == [stage : Stages, needs : SUBSET Queries, open : SUBSET Queries, limited : BOOLEAN,
             ready : BOOLEAN, action : {"none", "REJECT", "BUY"}, wrote : SUBSET {"decision", "audit"}]

Idle == [stage |-> "idle", needs |-> {}, open |-> {}, limited |-> TRUE, ready |-> FALSE,
         action |-> "none", wrote |-> {}]

Init ==
  /\ req = [h \in Handlers |-> Idle]
  /\ left = [waiting |-> 0, open |-> 0]
  /\ today = [decisions |-> 0, buys |-> 0, audits |-> 0]
  /\ recent = {}
  /\ mandate \in BOOLEAN
  /\ ready \in BOOLEAN

InFlight == {h \in Handlers : req[h].stage # "idle"}
InUse == {c \in Handlers \X Queries : c[2] \in req[c[1]].open}
InTransaction(h) == "client" \in req[h].open
FreeConnection == Cardinality(InUse) + left.open < PoolSize

-----------------------------------------------------------------------------
Become(h, r) ==
  /\ req' = [req EXCEPT ![h] = r]
  /\ UNCHANGED <<left, today, recent, mandate, ready>>

Enter(r, stage) == [r EXCEPT !.stage = stage, !.needs = Asks[stage]]

Arrive(h) ==
  /\ req[h].stage = "idle"
  /\ today.decisions + Cardinality(InFlight) < MaxDecisions
  /\ left.waiting + left.open <= MaxLeft
  /\ Become(h, Enter(Idle, "session"))

(* The pool gives a free connection to a waiting query. *)
Acquire(h, q) ==
  /\ q \in req[h].needs
  /\ FreeConnection
  /\ LET r == [req[h] EXCEPT !.needs = req[h].needs \ {q}, !.open = req[h].open \cup {q}] IN
     Become(h, IF q = "client" THEN Enter(r, "assess") ELSE r)

(* Mutant: one trade too many. *)
LimitedAbove == today.decisions > MaxTrades \/ (today.decisions > 0 /\ "decision" \in recent)

(* trades_today and seconds_since_last_trade are read over the decisions   *)
(* stored since midnight.                                                  *)
Limited == today.decisions >= MaxTrades \/ (today.decisions > 0 /\ "decision" \in recent)

Following(r) ==
  CASE r.stage = "session" -> "touch"
    [] r.stage = "touch" -> "connect"
    [] r.stage = "assess" -> "risk"
    [] r.stage = "risk" -> IF r.ready THEN "pnl" ELSE "mandate"
    [] OTHER -> "mandate"

(* Mutant: the session's query keeps its connection for the request. *)
AnswerKeepsSession(h, q) ==
  /\ q \in req[h].open \ {"client", "session"} \/ (q = "session" /\ req[h].stage = "session")
  /\ q \in req[h].open
  /\ LET open == req[h].open \ ({q} \ {"session"})
         r == [req[h] EXCEPT !.open = open] IN
     Become(h, IF r.needs \cup open \subseteq {"client", "session"} THEN Enter(r, Following(r)) ELSE r)

(* A query answers and returns its connection.  With the last answer of a  *)
(* stage the request goes on.                                              *)
Answer(h, q) ==
  /\ q \in req[h].open /\ q # "client"
  /\ LET open == req[h].open \ {q}
         r == [req[h] EXCEPT !.open = open,
                 !.limited = IF q = "history" THEN Limited ELSE req[h].limited,
                 !.ready = IF q = "accounting" THEN ready ELSE req[h].ready] IN
     Become(h, IF r.needs \cup open \subseteq {"client"} THEN Enter(r, Following(r)) ELSE r)

(* The entry rules of evaluateAutoTrade that do not depend on the signal   *)
(* or on the budget, which may always reject.                              *)
MayBuy(r) == r.ready /\ (ShadowUnlimited \/ ~r.limited)

(* The mandate is read in the transaction, after the risk. *)
ReadMandate(h) ==
  /\ req[h].stage = "mandate"
  /\ IF mandate
     THEN \E action \in {"REJECT"} \cup (IF MayBuy(req[h]) THEN {"BUY"} ELSE {}) :
            Become(h, Enter([req[h] EXCEPT !.action = action], "record"))
     ELSE Become(h, Enter(req[h], "release"))

Stored(action) ==
  [today EXCEPT !.decisions = today.decisions + 1,
                !.buys = today.buys + (IF action = "BUY" THEN 1 ELSE 0)]

(* Mutant: the decision goes through the pool and not the transaction. *)
RecordAtOnce(h) ==
  /\ req[h].stage = "record"
  /\ req' = [req EXCEPT ![h] = Enter(req[h], "audit")]
  /\ today' = Stored(req[h].action)
  /\ UNCHANGED <<left, recent, mandate, ready>>

(* recordDecision, in the transaction. *)
RecordDecision(h) ==
  /\ req[h].stage = "record"
  /\ Become(h, Enter([req[h] EXCEPT !.wrote = {"decision"}], "audit"))

(* appendAudit, in the transaction. *)
AppendAudit(h) ==
  /\ req[h].stage = "audit"
  /\ Become(h, Enter([req[h] EXCEPT !.wrote = req[h].wrote \cup {"audit"}], "commit"))

Commit(h) ==
  /\ req[h].stage = "commit"
  /\ LET r == req[h]
         stored == IF "decision" \in r.wrote THEN Stored(r.action) ELSE today IN
     /\ today' = [stored EXCEPT !.audits = today.audits + (IF "audit" \in r.wrote THEN 1 ELSE 0)]
     /\ recent' = recent \cup {"decision"} \cup (IF r.action = "BUY" THEN {"buy"} ELSE {})
  /\ req' = [req EXCEPT ![h] = Enter(req[h], "release")]
  /\ UNCHANGED <<left, mandate, ready>>

(* finally: the transaction, over by COMMIT or ROLLBACK, gives back its    *)
(* connection, and the request is answered.                                *)
Release(h) ==
  /\ req[h].stage = "release"
  /\ Become(h, Idle)

(* Any statement, the wallet's portfolio or a check may throw.  ROLLBACK   *)
(* ends the transaction, but the other queries of a failed Promise.all go  *)
(* on without it: those that wait for a connection stay in the queue of    *)
(* the pool, those that have one keep it until they are answered.          *)
Outstanding(h) == (req[h].needs \cup req[h].open) \ {"client"}

Fail(h) == \E failed \in SUBSET Outstanding(h) :
  /\ req[h].stage \notin {"idle", "release"}
  /\ IF req[h].stage = "risk" THEN Cardinality(failed) <= 1 ELSE failed = Outstanding(h)
  /\ left' = [waiting |-> left.waiting + Cardinality((req[h].needs \ {"client"}) \ failed),
              open |-> left.open + Cardinality((req[h].open \ {"client"}) \ failed)]
  /\ req' = [req EXCEPT ![h] = IF InTransaction(h)
                THEN Enter([Idle EXCEPT !.open = {"client"}], "release") ELSE Idle]
  /\ UNCHANGED <<today, recent, mandate, ready>>

(* The pool serves a query that was left behind ... *)
AcquireLeft ==
  /\ left.waiting > 0 /\ FreeConnection
  /\ left' = [waiting |-> left.waiting - 1, open |-> left.open + 1]
  /\ UNCHANGED <<req, today, recent, mandate, ready>>

(* ... and takes its connection back with the answer that nobody reads. *)
AnswerLeft ==
  /\ left.open > 0
  /\ left' = [left EXCEPT !.open = left.open - 1]
  /\ UNCHANGED <<req, today, recent, mandate, ready>>

-----------------------------------------------------------------------------
(* The follower pauses or resumes the mandate, or its trader is withdrawn. *)
MandateChanges ==
  /\ mandate' = ~mandate
  /\ UNCHANGED <<req, left, today, recent, ready>>

AccountingChanges ==
  /\ ready' = ~ready
  /\ UNCHANGED <<req, left, today, recent, mandate>>

(* The cooldown passes since the last BUY, then since the last decision. *)
CooldownPasses ==
  /\ recent # {}
  /\ recent' = IF "buy" \in recent THEN {"decision"} ELSE {}
  /\ UNCHANGED <<req, left, today, mandate, ready>>

(* Midnight UTC; bound: no request straddles it. *)
NewDay ==
  /\ today.decisions > 0 /\ InFlight = {}
  /\ today' = [decisions |-> 0, buys |-> 0, audits |-> 0]
  /\ UNCHANGED <<req, left, recent, mandate, ready>>

-----------------------------------------------------------------------------
Serve(h) ==
  \/ \E q \in Queries : Acquire(h, q)
  \/ \E q \in Queries : Answer(h, q)
  \/ ReadMandate(h)
  \/ RecordDecision(h)
  \/ AppendAudit(h)
  \/ Commit(h)
  \/ Release(h)

ServeLeft == AcquireLeft \/ AnswerLeft

Environment == MandateChanges \/ AccountingChanges \/ CooldownPasses \/ NewDay

Next == Environment \/ ServeLeft \/ \E h \in Handlers : Arrive(h) \/ Serve(h) \/ Fail(h)

Spec == Init /\ [][Next]_vars

(* The database answers, and pg serves its waiting queries in their order. *)
Fairness == SF_vars(ServeLeft) /\ \A h \in Handlers : SF_vars(Serve(h))

-----------------------------------------------------------------------------
TypeOK ==
  /\ req \in [Handlers -> Requests]
  /\ left \in [waiting : Nat, open : Nat]
  /\ today \in [decisions : Nat, buys : Nat, audits : Nat]
  /\ recent \in SUBSET {"decision", "buy"}
  /\ mandate \in BOOLEAN /\ ready \in BOOLEAN

(* Every stored decision has its audit event and every audit event its     *)
(* decision, whatever fails between the two (decision_audit_atomic).       *)
DecisionAudited == today.decisions = today.audits

(* With AUTOTRADE_SHADOW_UNLIMITED off, requests that count the decisions  *)
(* before any of them commits can exceed the daily limit, but only by the  *)
(* requests in flight, and there are never PoolSize of them past that      *)
(* count (createTrustedAutoTradeRuntimeRiskResolver).                      *)
OvershootBounded == ~ShadowUnlimited =>
  /\ today.buys < MaxTrades + Cardinality(Handlers)
  /\ today.buys <= MaxTrades + PoolSize - 2

(* A query waits for ever only while every connection of the pool is held  *)
(* by the transaction of an evaluation, each of which waits for another    *)
(* connection (persistAuthenticatedAutoTradeDecisionAtomically); the       *)
(* queries that failed requests left behind delay it, but not for ever.    *)
Exhausted == Cardinality({h \in Handlers : InTransaction(h)}) = PoolSize

ServedUnlessExhausted == \A h \in Handlers :
  req[h].needs # {} ~> (req[h].needs = {} \/ Exhausted)

(* docs/SIGNAL_INTELLIGENCE_AUTOTRADE.md: no trade is decided within the   *)
(* cooldown after another one.                                             *)
CooldownKept == [][today'.buys > today.buys => "buy" \notin recent]_vars

=============================================================================
