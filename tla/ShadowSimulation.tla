-------------------------- MODULE ShadowSimulation --------------------------
(***************************************************************************)
(* POST /api/shadow/simulate (shadow-simulator.mjs) for one trader: the    *)
(* policies are read once, then each of them gets its decision, its        *)
(* request and its audit event, and the run is closed by an audit event of *)
(* its own.  Every one is a statement of its own, so a run may stop after  *)
(* any of them, and the trader and the policies change while it goes on.   *)
(* A run makes one event, and is named by it.                              *)
(***************************************************************************)
EXTENDS Integers, FiniteSets

CONSTANTS
  Runs,        \* calls, each with the event it makes
  Copiers,     \* followers of the trader
  Identified,  \* those with an enabled wallet identity
  Sizes,       \* the amounts asked for
  Caps         \* the limits a policy may have; 0 is no limit

ASSUME CopiersFinite == IsFiniteSet(Copiers)

VARIABLES
  shadowing,  \* the trader is ACTIVE and in SHADOW mode
  policies,   \* copy_policies of the trader, by follower
  decided,    \* risk_decisions
  simulated,  \* execution_requests, by their idempotency key
  audited,    \* audit_events
  runs

simulationVars == <<shadowing, policies, decided, simulated, audited, runs>>

NoRun == [pc |-> "none"]

SimulationInit ==
  /\ shadowing = TRUE
  /\ policies \in [Copiers -> [enabled : BOOLEAN, maxCopy : Caps, maxPosition : Caps]]
  /\ decided = {} /\ simulated = {} /\ audited = {}
  /\ runs = [r \in Runs |-> NoRun]

Running(r, pc) == runs[r].pc = pc

GoOn(r, run) == runs' = [runs EXCEPT ![r] = run]

(* What members and administrators do meanwhile. *)
TraderChanges ==
  /\ shadowing' = ~shadowing
  /\ UNCHANGED <<policies, decided, simulated, audited, runs>>

PolicyChanges(f) ==
  /\ policies' = [policies EXCEPT ![f].enabled = ~@]
  /\ UNCHANGED <<shadowing, decided, simulated, audited, runs>>

(* Of one follower, when the request names a wallet, or of all: who is     *)
(* meant is known before the policies are read.                            *)
StartSimulation(r, amount, scope) ==
  /\ runs[r] = NoRun
  /\ amount > 0 /\ shadowing
  /\ scope \subseteq Identified \/ scope = Copiers
  /\ GoOn(r, [pc |-> "policies", amount |-> amount, scope |-> scope, left |-> {}, policies |-> policies,
              of |-> {}, count |-> 0])
  /\ UNCHANGED <<shadowing, policies, decided, simulated, audited>>

ReadPolicies(r) ==
  LET found == {f \in runs[r].scope : policies[f].enabled} IN
  /\ Running(r, "policies")
  /\ GoOn(r, [runs[r] EXCEPT !.pc = "event", !.left = found, !.policies = policies, !.count = Cardinality(found)])
  /\ UNCHANGED <<shadowing, policies, decided, simulated, audited>>

(* The event of the run is inserted in trade_events. *)
InsertTradeEvent(r) ==
  /\ Running(r, "event")
  /\ GoOn(r, [runs[r] EXCEPT !.pc = "decide"])
  /\ UNCHANGED <<shadowing, policies, decided, simulated, audited>>

Within(amount, cap) == cap > 0 => amount <= cap

Approves(run, f) ==
  Within(run.amount, run.policies[f].maxCopy) /\ Within(run.amount, run.policies[f].maxPosition)

(* Mutant: the request of an approved policy is left for after its audit.  *)
AuditFirst(approved) == "audit"

AfterDecision(approved) == IF approved THEN "request" ELSE "audit"

(* The next policy, in the order of their creation. *)
Decide(r, f) ==
  LET run == runs[r] IN
  /\ Running(r, "decide") /\ f \in run.left
  /\ decided' = decided \cup {[event |-> r, follower |-> f, approved |-> Approves(run, f)]}
  /\ GoOn(r, [run EXCEPT !.pc = AfterDecision(Approves(run, f)), !.of = {f}, !.left = @ \ {f}])
  /\ UNCHANGED <<shadowing, policies, simulated, audited>>

SimulateRequest(r) ==
  LET run == runs[r]
      key == <<r, CHOOSE f \in run.of : TRUE>> IN
  /\ Running(r, "request")
  /\ simulated' = IF \E request \in simulated : request.key = key THEN simulated
                  ELSE simulated \cup {[key |-> key, amount |-> run.amount]}
  /\ GoOn(r, [run EXCEPT !.pc = "audit"])
  /\ UNCHANGED <<shadowing, policies, decided, audited>>

AuditPolicy(r) ==
  LET f == CHOOSE f \in runs[r].of : TRUE IN
  /\ Running(r, "audit")
  /\ audited' = audited \cup {[event |-> r, follower |-> {f}, approved |-> Approves(runs[r], f), count |-> 0]}
  /\ GoOn(r, [runs[r] EXCEPT !.pc = "decide", !.of = {}])
  /\ UNCHANGED <<shadowing, policies, decided, simulated>>

(* SHADOW_EVENT_CREATED, with the number of policies that were read.       *)
CloseSimulation(r) ==
  /\ Running(r, "decide") /\ runs[r].left = {}
  /\ audited' = audited \cup {[event |-> r, follower |-> {}, approved |-> FALSE, count |-> runs[r].count]}
  /\ GoOn(r, [runs[r] EXCEPT !.pc = "done"])
  /\ UNCHANGED <<shadowing, policies, decided, simulated>>

(* A statement fails, or the process ends: nothing is taken back. *)
FailSimulation(r) ==
  /\ runs[r].pc \notin {"none", "done", "failed"}
  /\ GoOn(r, [runs[r] EXCEPT !.pc = "failed"])
  /\ UNCHANGED <<shadowing, policies, decided, simulated, audited>>

SimulationNext ==
  \/ TraderChanges
  \/ \E f \in Copiers : PolicyChanges(f)
  \/ \E r \in Runs :
       \/ \E amount \in Sizes, scope \in {Copiers} \cup {{f} : f \in Copiers} : StartSimulation(r, amount, scope)
       \/ ReadPolicies(r) \/ InsertTradeEvent(r)
       \/ \E f \in Copiers : Decide(r, f)
       \/ SimulateRequest(r) \/ AuditPolicy(r) \/ CloseSimulation(r) \/ FailSimulation(r)

SimulationSpec == SimulationInit /\ [][SimulationNext]_simulationVars

(* Wherever a run stops, its trail can be trusted: a simulated request has *)
(* its approval, an audited approval has its request and an audited        *)
(* refusal none, and a run that was closed has audited as many policies as *)
(* it says (runShadowSimulation).                                          *)
TrailComplete ==
  /\ \A request \in simulated :
       [event |-> request.key[1], follower |-> request.key[2], approved |-> TRUE] \in decided
  /\ \A a \in audited, f \in Copiers : a.follower = {f} =>
       /\ [event |-> a.event, follower |-> f, approved |-> a.approved] \in decided
       /\ a.approved <=> \E request \in simulated : request.key = <<a.event, f>>
  /\ \A a \in audited : a.follower = {} =>
       Cardinality({b \in audited : b.event = a.event /\ b.follower # {}}) = a.count
=============================================================================
