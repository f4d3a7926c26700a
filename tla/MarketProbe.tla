---------------------------- MODULE MarketProbe ----------------------------
(***************************************************************************)
(* vm-real-market-shadow-probe.mjs: one list of candidates is asked for,   *)
(* again if the provider limits the rate, and each candidate goes through  *)
(* the gates in order: its market, its holders, a quoted round trip        *)
(* (jupiter-quote-evidence.mjs) and a simulated one, of which there may be *)
(* a limited number (jupiter-unsigned-simulation.mjs).  A number that may  *)
(* be unknown is a set, as in TradeEngine.                                 *)
(***************************************************************************)
EXTENDS Integers, FiniteSets

CONSTANTS
  Candidates,       \* what discovery may list
  ProbeLimit,   \* rows that are looked at
  MaxRetries,
  SlotLimits,   \* numbers of simulations allowed; 0 is no limit
  MinMarket, MaxTop10, MaxImpact,
  Readings,     \* the numbers that providers answer, {} among them
  NoRow

ASSUME ProbeBounds == MaxRetries \in Nat /\ SlotLimits \subseteq Nat /\ {MinMarket, MaxTop10, MaxImpact} \subseteq Int
ASSUME ReadingsAreNumbers == \A number \in Readings : number \subseteq Int /\ \A n, k \in number : n = k

Providers == {"holders", "quotes", "fees", "simulation"}

VARIABLES probe, slots, providers
probeVars == <<probe, slots, providers>>

(* A provider that cannot be made, or has no fees, is known from the start.*)
ProbeInit ==
  /\ probe = [pc |-> "discovery", attempt |-> 0, left |-> {}, row |-> NoRow, simulations |-> 0, rows |-> {}]
  /\ slots \in SlotLimits
  /\ providers \in SUBSET Providers

AtStage(pc) == probe.pc = pc /\ UNCHANGED <<slots, providers>>

Discover(listed) ==
  /\ AtStage("discovery")
  /\ Cardinality(listed) <= ProbeLimit
  /\ probe' = [probe EXCEPT !.pc = "market", !.left = listed]

(* withRateLimitBackoff tries again for that one error.                    *)
FailDiscovery(limited) ==
  /\ AtStage("discovery")
  /\ probe' = IF limited /\ probe.attempt < MaxRetries THEN [probe EXCEPT !.attempt = @ + 1]
              ELSE [probe EXCEPT !.pc = "failed"]

Enough(number) == \E n \in number : n >= MinMarket

(* finite(null) is 0, so an impact that is unknown passes.                 *)
NumberOrZero(number) == IF number = {} THEN 0 ELSE CHOOSE n \in number : TRUE

ImpactPasses(quote) == NumberOrZero(quote.impact) <= MaxImpact

HoldersPass(row) == row.top10 # {} /\ \A n \in row.top10 : n <= MaxTop10

(* preliminary *)
Screen(t, liquidity, volume) ==
  LET passed == Enough(liquidity) /\ Enough(volume) IN
  /\ AtStage("market") /\ t \in probe.left
  /\ probe' = [probe EXCEPT !.left = @ \ {t}, !.pc = IF passed THEN "holders" ELSE "close",
                            !.row = [of |-> t, passed |-> passed, top10 |-> {}, quote |-> {}, simulated |-> {}]]

ReadHolders(top10) ==
  /\ AtStage("holders")
  /\ "holders" \notin providers => top10 = {}
  /\ LET row == [probe.row EXCEPT !.top10 = top10] IN
     probe' = [probe EXCEPT !.row = row, !.pc = IF HoldersPass(row) THEN "quote" ELSE "close"]

(* The impact of the round trip is the worse of its two, unknown when one  *)
(* of them is.                                                             *)
Worse(a, b) == IF a = {} \/ b = {} THEN {} ELSE {CHOOSE n \in a \cup b : \A k \in a \cup b : k <= n}

RoundTrip(buy, sell, edge) ==
  /\ AtStage("quote") /\ "quotes" \in providers
  /\ LET quote == [impact |-> Worse(buy, sell), edge |-> edge] IN
     probe' = [probe EXCEPT !.row.quote = {quote}, !.pc = IF ImpactPasses(quote) THEN "simulation" ELSE "close"]

(* One of the two quotes fails, or there is no service. *)
NoRoundTrip == AtStage("quote") /\ probe' = [probe EXCEPT !.pc = "close"]

(* Mutant: the limit is compared after the count. *)
SlotFreeOrLast == slots = 0 \/ probe.simulations <= slots

SlotFree == slots = 0 \/ probe.simulations < slots

Simulate(answers) ==
  /\ AtStage("simulation")
  /\ SlotFree /\ "simulation" \in providers
  /\ probe' = [probe EXCEPT !.row.simulated = answers, !.simulations = @ + 1, !.pc = "close"]

NoSimulation ==
  /\ AtStage("simulation")
  /\ ~SlotFree \/ "simulation" \notin providers
  /\ probe' = [probe EXCEPT !.pc = "close"]

(* evidenceRejects *)
Rejects(row) ==
  LET impactPassed == \E quote \in row.quote : ImpactPasses(quote)
      Because(reason, holds) == IF holds THEN {reason} ELSE {} IN
  Because("market", ~row.passed)
  \cup Because("holders", row.passed /\ ~HoldersPass(row))
  \cup Because("impact", row.quote # {} /\ ~impactPassed)
  \cup Because("quote", row.passed /\ HoldersPass(row) /\ row.quote = {})
  \cup Because("cost", \E quote \in row.quote : quote.edge < 0)
  \cup Because("fees", "fees" \notin providers)
  \cup Because("unsimulated", impactPassed /\ row.simulated = {})
  \cup Because("simulation", \E ok \in row.simulated : ~ok)

CloseRow ==
  /\ AtStage("close")
  /\ probe' = [probe EXCEPT !.pc = "market", !.row = NoRow,
                            !.rows = @ \cup {[of |-> probe.row.of, evidence |-> probe.row, rejects |-> Rejects(probe.row)]}]

ReportProbe == AtStage("market") /\ probe.left = {} /\ probe' = [probe EXCEPT !.pc = "done"]

(* The answers of a simulated round trip: it throws, or it is all right or *)
(* not.                                                                    *)
Observations == {{}, {TRUE}, {FALSE}}

MarketProbeNext ==
  \/ \E listed \in SUBSET Candidates : Discover(listed)
  \/ \E limited \in BOOLEAN : FailDiscovery(limited)
  \/ \E t \in Candidates, liquidity, volume \in Readings : Screen(t, liquidity, volume)
  \/ \E top10 \in Readings : ReadHolders(top10)
  \/ \E buy, sell \in Readings, edge \in {-1, 1} : RoundTrip(buy, sell, edge)
  \/ NoRoundTrip
  \/ \E answers \in Observations : Simulate(answers)
  \/ NoSimulation \/ CloseRow \/ ReportProbe

MarketProbeSpec == ProbeInit /\ [][MarketProbeNext]_probeVars

(* The report of a probe: a candidate has one row, no more round trips are *)
(* simulated than there are slots, and a row without a reject has all the  *)
(* evidence behind it but, possibly, a known price impact (main program).  *)
RowsProven ==
  /\ slots > 0 => probe.simulations <= slots
  /\ Cardinality({r \in probe.rows : r.evidence.simulated # {}}) <= probe.simulations
  /\ \A r, s \in probe.rows : r.of = s.of => r = s
  /\ \A r \in probe.rows : r.rejects = {} =>
       /\ r.evidence.passed /\ HoldersPass(r.evidence) /\ "fees" \in providers
       /\ \E quote \in r.evidence.quote : quote.edge >= 0 /\ \A n \in quote.impact : n <= MaxImpact
       /\ r.evidence.simulated = {TRUE}
=============================================================================
