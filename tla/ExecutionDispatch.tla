------------------------- MODULE ExecutionDispatch -------------------------
(***************************************************************************)
(* A decision becomes an execution intent (auto-trade-intent.mjs), and the *)
(* audited SHADOW dispatcher takes it through its hooks                    *)
(* (execution-boundary.mjs, execution-audit.mjs).  The caller's risk facts *)
(* are read before the dispatch; the facts change while hooks answer.      *)
(***************************************************************************)
EXTENDS Integers, Sequences

CONSTANTS
  Dispatches,  \* dispatches in flight
  TraderFacts, \* status, verification, publication and mandate, gated when an intent is built
  MarketFacts, \* policy, fresh data and price impact
  TTL,         \* ttl_ms
  MaxClock,    \* bound: the last time
  NoAudit

ASSUME DispatchBounds == TTL \in Nat \ {0} /\ MaxClock \in Nat
ASSUME NoAuditIsNoState == NoAudit \notin {"RECONCILED", "REJECTED", "FAILED"}

Facts == TraderFacts \cup MarketFacts

VARIABLES
  clock,
  holds,  \* the facts that hold now
  ex      \* each dispatch

dispatchVars == <<clock, holds, ex>>

NoDispatch == [pc |-> "none", expires |-> 0, risk |-> {}, lifecycle |-> <<>>, outcome |-> NoAudit, audit |-> NoAudit]

DispatchInit ==
  /\ clock = 0
  /\ holds = Facts
  /\ ex = [d \in Dispatches |-> NoDispatch]

Hooks == <<"quote", "simulation", "authorization", "confirmation", "reconciliation">>

(* What the trace says of an answered hook. *)
Reached == [quote |-> <<"QUOTED">>, simulation |-> <<"SIMULATED">>,
            authorization |-> <<"AUTHORIZED", "DISPATCHED">>,
            confirmation |-> <<"CONFIRMED">>, reconciliation |-> <<"RECONCILED">>]

(* Mutant: after the dispatch too, a refusal is a rejection. *)
AlwaysRejected(hook) == "REJECTED"

Refusal(hook) == IF hook \in {"confirmation", "reconciliation"} THEN "FAILED" ELSE "REJECTED"

NextHook(hook) ==
  LET i == CHOOSE i \in DOMAIN Hooks : Hooks[i] = hook IN IF i < Len(Hooks) THEN Hooks[i + 1] ELSE "end"

Put(d, x) == ex' = [ex EXCEPT ![d] = x] /\ UNCHANGED <<clock, holds>>

-----------------------------------------------------------------------------
PassTime == clock < MaxClock /\ clock' = clock + 1 /\ UNCHANGED <<holds, ex>>

Change(fact) ==
  /\ holds' = IF fact \in holds THEN holds \ {fact} ELSE holds \cup {fact}
  /\ UNCHANGED <<clock, ex>>

(* buildAutoTradeExecutionIntent of a trader and a mandate in force. *)
BuildIntent(d) ==
  /\ ex[d].pc = "none"
  /\ TraderFacts \subseteq holds
  /\ Put(d, [ex[d] EXCEPT !.pc = "built", !.expires = clock + TTL])

ReadRisk(d) ==
  /\ ex[d].pc = "built"
  /\ Put(d, [ex[d] EXCEPT !.pc = "read", !.risk = holds])

(* buildExecutionAuditEnvelope of the result. *)
Closed(x, state) == [x EXCEPT !.pc = "end", !.outcome = state, !.audit = state]

(* assertRiskRecheck. *)
RiskPassed(x) == clock <= x.expires /\ x.risk = Facts

Start(d) ==
  /\ ex[d].pc = "read"
  /\ LET x == [ex[d] EXCEPT !.lifecycle = <<"CREATED">>] IN
     Put(d, IF RiskPassed(ex[d])
            THEN [x EXCEPT !.lifecycle = Append(@, "RISK_CHECKED"), !.pc = Hooks[1]]
            ELSE Closed(x, "REJECTED"))

Waits(d) == ex[d].pc \in DOMAIN Reached

Answered(x) ==
  LET y == [x EXCEPT !.lifecycle = @ \o Reached[x.pc], !.pc = NextHook(x.pc)] IN
  IF NextHook(x.pc) = "end" THEN Closed(y, "RECONCILED") ELSE y

Answer(d) == Waits(d) /\ Put(d, Answered(ex[d]))

(* ok is not true, a signer or a submission is claimed, a signature given. *)
RefuseHook(d) == Waits(d) /\ Put(d, Closed(ex[d], Refusal(ex[d].pc)))

(* A hook throws, or its output is none: there is no result to audit. *)
Throw(d) == Waits(d) /\ Put(d, [ex[d] EXCEPT !.pc = "end"])

DispatchNext ==
  \/ PassTime
  \/ \E fact \in Facts : Change(fact)
  \/ \E d \in Dispatches : BuildIntent(d) \/ ReadRisk(d) \/ Start(d) \/ Answer(d) \/ RefuseHook(d) \/ Throw(d)

DispatchSpec == DispatchInit /\ [][DispatchNext]_dispatchVars

-----------------------------------------------------------------------------
(* lifecycle, and the state of a result that was refused. *)
History(x) == IF x.outcome \in {"REJECTED", "FAILED"} THEN Append(x.lifecycle, x.outcome) ELSE x.lifecycle

Histories == [d \in Dispatches |-> History(ex[d])]
Audits == [d \in Dispatches |-> ex[d].audit]

Lifecycle == INSTANCE ExecutionLifecycle WITH history <- Histories, audits <- Audits

(* Whatever the hooks answer, in whatever order dispatches interleave, a   *)
(* dispatch moves along the transition table that transitionExecution      *)
(* enforces and ShadowDispatcher never consults, and it is audited once,   *)
(* as the state it ended in.                                               *)
DispatchImplemented == Lifecycle!Spec
=============================================================================
