------------------------- MODULE TraderMarketplace -------------------------
(***************************************************************************)
(* The trader side of the marketplace: application, admin review,          *)
(* verification evidence, verification decision and publication            *)
(* (services/api/src/repositories/marketplace.mjs), with the triggers of   *)
(* migrations/016 that guard and audit every UPDATE of a traders row.  An  *)
(* INSERT is audited by no trigger: the route of an application appends    *)
(* its own event in a statement of its own, which may never be sent.       *)
(*                                                                         *)
(* Every handler reads first and writes in a later statement, and other    *)
(* handlers run between the two: pending[h] is the statement handler h has *)
(* decided on and not yet sent.  Only the verification decision writes two *)
(* tables, in one transaction; its COMMIT is one step.                     *)
(***************************************************************************)

CONSTANTS
  Applicants, \* the users who may apply, each with his primary wallet
  Evidence,   \* evidence_id values
  Requests,   \* HTTP requests served at the same time
  Nothing

VARIABLES
  traders,    \* the traders table
  evidence,   \* the trader_verification_evidence table
  trail,      \* the last event the audit trigger has written of each trader
  submitted,  \* the traders whose application has an audit event of its own
  pending     \* what each handler is about to send

marketVars == <<traders, evidence, trail, submitted, pending>>

Onboarding == {"NONE", "PENDING", "APPROVED", "REJECTED", "SUSPENDED"}
Status == {"NONE", "PENDING_REVIEW", "PENDING_VERIFICATION", "ACTIVE", "REJECTED", "SUSPENDED"}
Verification == {"NONE", "PENDING_DATA", "VERIFIED"}
Decisions == {"approve", "reject", "suspend"}
Steps == Decisions \cup {"idle", "insert", "submit", "record", "readVerify", "readRefuse",
                         "verify", "refuse", "publish", "unpublish"}

TraderRows == [onboarding : Onboarding, status : Status, verification : Verification,
         verified : BOOLEAN, published : BOOLEAN, reference : Evidence \cup {Nothing}]
EvidenceRows == [trader : Applicants \cup {Nothing},
                 status : {"NONE", "RECORDED", "VERIFIED", "REJECTED"}]
Pending == [step : Steps, trader : Applicants \cup {Nothing}, evidence : Evidence \cup {Nothing}]

NoRow == [onboarding |-> "NONE", status |-> "NONE", verification |-> "NONE",
          verified |-> FALSE, published |-> FALSE, reference |-> Nothing]
NoEvidence == [trader |-> Nothing, status |-> "NONE"]
Idle == [step |-> "idle", trader |-> Nothing, evidence |-> Nothing]

(* The columns an event of the trigger carries as they are after the change. *)
Control(row) == [onboarding |-> row.onboarding, status |-> row.status,
                 verification |-> row.verification, verified |-> row.verified,
                 published |-> row.published]

Controls == [onboarding : Onboarding, status : Status, verification : Verification,
             verified : BOOLEAN, published : BOOLEAN]
Kinds == {"VERIFICATION", "PUBLICATION", "STATE", "NONE"}
Events == [kind : Kinds, after : Controls]

ASSUME NothingIsNoValue == Nothing \notin Applicants \cup Evidence \cup Events

MarketInit ==
  /\ traders = [t \in Applicants |-> NoRow]
  /\ evidence = [e \in Evidence |-> NoEvidence]
  /\ trail = [t \in Applicants |-> Nothing]
  /\ submitted = {}
  /\ pending = [h \in Requests |-> Idle]

-----------------------------------------------------------------------------
(* The database side of a write.                                           *)

GateOpen(row) ==
  /\ row.onboarding = "APPROVED"
  /\ row.verification = "VERIFIED"
  /\ row.verified
  /\ row.status = "ACTIVE"
  /\ row.reference # Nothing

(* Mutant: the trigger trusts the prior verification alone. *)
GuardChecksPriorOnly(old, new) == new.published => old.verification = "VERIFIED"

(* aether_guard_trader_control_plane: raises unless the new row may stand. *)
GuardAccepts(old, new) ==
  new.published => old.verification = "VERIFIED" /\ GateOpen(new)

(* Mutant: a publication on its own is not reported. *)
KindSkipsPublication(old, new) ==
  CASE old.verification # new.verification \/ old.verified # new.verified -> "VERIFICATION"
    [] OTHER -> IF old.onboarding # new.onboarding \/ old.status # new.status
                THEN "STATE" ELSE "NONE"

(* aether_audit_trader_control_plane: the event of a change, by the first  *)
(* columns that differ; other columns change without an event.             *)
Kind(old, new) ==
  CASE old.verification # new.verification \/ old.verified # new.verified -> "VERIFICATION"
    [] OTHER -> IF old.published # new.published THEN "PUBLICATION"
                ELSE IF old.onboarding # new.onboarding \/ old.status # new.status
                THEN "STATE" ELSE "NONE"

(* UPDATE traders ... WHERE trader_id = t, with both triggers. *)
UpdateTrader(t, new) ==
  LET kind == Kind(traders[t], new) IN
  /\ traders' = [traders EXCEPT ![t] = new]
  /\ trail' = IF kind = "NONE" THEN trail
              ELSE [trail EXCEPT ![t] = [kind |-> kind, after |-> Control(new)]]
  /\ UNCHANGED submitted

Plan(h, step, t, e) ==
  /\ pending[h] = Idle
  /\ pending' = [pending EXCEPT ![h] = [step |-> step, trader |-> t, evidence |-> e]]
  /\ UNCHANGED <<traders, evidence, trail, submitted>>

Sends(h, steps) ==
  /\ pending[h].step \in steps
  /\ pending' = [pending EXCEPT ![h] = Idle]

-----------------------------------------------------------------------------
(* createTraderApplication: look for an application, then insert one.      *)
Apply(h, t) ==
  /\ traders[t].onboarding = "NONE"
  /\ Plan(h, "insert", t, Nothing)

NewApplication == [onboarding |-> "PENDING", status |-> "PENDING_REVIEW",
                   verification |-> "PENDING_DATA", verified |-> FALSE,
                   published |-> FALSE, reference |-> Nothing]

(* A second INSERT for the same wallet fails on the unique index; the      *)
(* audit trigger is for updates only.                                      *)
InsertApplication(h) == LET t == pending[h].trader IN
  /\ pending[h].step = "insert"
  /\ IF traders[t].onboarding = "NONE"
     THEN /\ traders' = [traders EXCEPT ![t] = NewApplication]
          /\ pending' = [pending EXCEPT ![h].step = "submit"]
     ELSE /\ pending' = [pending EXCEPT ![h] = Idle]
          /\ UNCHANGED traders
  /\ UNCHANGED <<evidence, trail, submitted>>

(* The route appends TRADER_APPLICATION_SUBMITTED; whoever applies again   *)
(* is refused before he gets here.                                         *)
AppendSubmitted(h) ==
  /\ Sends(h, {"submit"})
  /\ submitted' = submitted \cup {pending[h].trader}
  /\ UNCHANGED <<traders, evidence, trail>>

(* reviewTraderApplication: the state each decision is allowed in ...      *)
ReviewAllowed(row, decision) ==
  \/ decision = "reject" /\ row.onboarding = "PENDING"
  \/ decision = "suspend" /\ row.onboarding = "APPROVED"
  \/ decision = "approve" /\ row.onboarding \in {"PENDING", "REJECTED"}

Review(h, t, decision) ==
  /\ ReviewAllowed(traders[t], decision)
  /\ Plan(h, decision, t, Nothing)

(* ... and the columns the UPDATE sets, whatever the row holds by then.    *)
Reviewed(row, decision) ==
  [row EXCEPT !.verified = FALSE, !.published = FALSE,
              !.onboarding = CASE decision = "approve" -> "APPROVED"
                               [] decision = "reject" -> "REJECTED"
                               [] decision = "suspend" -> "SUSPENDED",
              !.status = CASE decision = "approve" -> "PENDING_VERIFICATION"
                           [] decision = "reject" -> "REJECTED"
                           [] decision = "suspend" -> "SUSPENDED"]

WriteReview(h) == LET t == pending[h].trader IN
  /\ Sends(h, Decisions)
  /\ UpdateTrader(t, Reviewed(traders[t], pending[h].step))
  /\ UNCHANGED evidence

(* recordTraderVerificationEvidence, and the evidence row that             *)
(* buildPerformanceEvidence inserts after the same check of the trader.    *)
RecordEvidence(h, t) ==
  /\ traders[t].onboarding = "APPROVED"
  /\ Plan(h, "record", t, Nothing)

InsertEvidence(h, e) ==
  /\ evidence[e] = NoEvidence
  /\ Sends(h, {"record"})
  /\ evidence' = [evidence EXCEPT ![e] = [trader |-> pending[h].trader, status |-> "RECORDED"]]
  /\ UNCHANGED <<traders, trail, submitted>>

(* reviewTraderVerification: reads the trader, then the evidence, then     *)
(* opens the transaction that decides.                                     *)
ReviewVerification(h, t, e, step) ==
  /\ step \in {"readVerify", "readRefuse"}
  /\ traders[t].onboarding = "APPROVED"
  /\ Plan(h, step, t, e)

(* Mutant: the evidence is looked up by its id alone. *)
EvidenceOfAnyTrader(row, t, step) ==
  /\ row.trader # Nothing
  /\ step = "readVerify" => row.status \in {"RECORDED", "REJECTED"}

EvidenceAllows(row, t, step) ==
  /\ row.trader = t
  /\ step = "readVerify" => row.status \in {"RECORDED", "REJECTED"}

ReadEvidence(h) == LET k == pending[h] IN
  /\ k.step \in {"readVerify", "readRefuse"}
  /\ pending' = [pending EXCEPT ![h] =
       IF ~EvidenceAllows(evidence[k.evidence], k.trader, k.step) THEN Idle
       ELSE [k EXCEPT !.step = IF k.step = "readVerify" THEN "verify" ELSE "refuse"]]
  /\ UNCHANGED <<traders, evidence, trail, submitted>>

(* Mutant: a new verification leaves a listed trader listed. *)
VerifiedKeepsPublished(row, e) ==
  [row EXCEPT !.verification = "VERIFIED", !.verified = TRUE, !.status = "ACTIVE",
              !.reference = e]

Verified(row, e) ==
  [row EXCEPT !.verification = "VERIFIED", !.verified = TRUE, !.status = "ACTIVE",
              !.published = FALSE, !.reference = e]

CommitVerify(h) == LET t == pending[h].trader  e == pending[h].evidence IN
  /\ Sends(h, {"verify"})
  /\ evidence' = [evidence EXCEPT ![e].status = "VERIFIED"]
  /\ UpdateTrader(t, Verified(traders[t], e))

Refused(row) ==
  [row EXCEPT !.verification = "PENDING_DATA", !.verified = FALSE,
              !.status = "PENDING_VERIFICATION", !.published = FALSE]

CommitRefusal(h) == LET t == pending[h].trader  e == pending[h].evidence IN
  /\ Sends(h, {"refuse"})
  /\ evidence' = [evidence EXCEPT ![e].status = "REJECTED"]
  /\ UpdateTrader(t, Refused(traders[t]))

(* setTraderPublished: the gate is read first and checked again by the     *)
(* trigger when the UPDATE arrives; a raised exception changes nothing.    *)
SetPublished(h, t, step) ==
  /\ traders[t].onboarding # "NONE"
  /\ \/ step = "unpublish"
     \/ step = "publish" /\ GateOpen(traders[t])
  /\ Plan(h, step, t, Nothing)

WritePublished(h) ==
  LET t == pending[h].trader
      new == [traders[t] EXCEPT !.published = pending[h].step = "publish"]
  IN /\ Sends(h, {"publish", "unpublish"})
     /\ IF GuardAccepts(traders[t], new) THEN UpdateTrader(t, new)
        ELSE UNCHANGED <<traders, trail, submitted>>
     /\ UNCHANGED evidence

(* The client goes away, the pool fails or the process is killed between   *)
(* the read and the write: the statement is never sent.                    *)
Abandon(h) ==
  /\ pending[h] # Idle
  /\ pending' = [pending EXCEPT ![h] = Idle]
  /\ UNCHANGED <<traders, evidence, trail, submitted>>

-----------------------------------------------------------------------------
Begin(h) == \E t \in Applicants :
  \/ Apply(h, t)
  \/ \E decision \in Decisions : Review(h, t, decision)
  \/ RecordEvidence(h, t)
  \/ \E e \in Evidence, step \in {"readVerify", "readRefuse"} : ReviewVerification(h, t, e, step)
  \/ \E step \in {"publish", "unpublish"} : SetPublished(h, t, step)

Finish(h) ==
  \/ InsertApplication(h)
  \/ AppendSubmitted(h)
  \/ WriteReview(h)
  \/ \E e \in Evidence : InsertEvidence(h, e)
  \/ ReadEvidence(h)
  \/ CommitVerify(h)
  \/ CommitRefusal(h)
  \/ WritePublished(h)
  \/ Abandon(h)

MarketNext == \E h \in Requests : Begin(h) \/ Finish(h)

MarketSpec == MarketInit /\ [][MarketNext]_marketVars

-----------------------------------------------------------------------------
MarketTypeOK ==
  /\ traders \in [Applicants -> TraderRows]
  /\ evidence \in [Evidence -> EvidenceRows]
  /\ trail \in [Applicants -> Events \cup {Nothing}]
  /\ submitted \in SUBSET Applicants
  /\ pending \in [Requests -> Pending]

(* A published row always satisfies the whole publication gate, although a *)
(* publication is decided on a row that another admin may suspend, refuse  *)
(* or re-verify before the UPDATE is sent (setTraderPublished, migration   *)
(* 016).                                                                   *)
PublishedIsGated == \A t \in Applicants : traders[t].published => GateOpen(traders[t])

(* A verified trader's public figures come from evidence of his own that   *)
(* stands VERIFIED: no interleaving of decisions leaves him verified on    *)
(* evidence that was refused, or on another trader's                       *)
(* (reviewTraderVerification).                                             *)
VerifiedIsBacked == \A t \in Applicants : traders[t].verified =>
  /\ traders[t].reference \in Evidence
  /\ evidence[traders[t].reference] = [trader |-> t, status |-> "VERIFIED"]

(* What a reader of the trail takes the control columns to be: those every *)
(* application must start with, or those the last event leaves.            *)
Replayed(t) == IF trail[t] = Nothing THEN Control(NewApplication) ELSE trail[t].after

(* The trail of the trigger can stand alone, as an application whose       *)
(* request died has no event of its own and can never get one: from the    *)
(* events of the trigger the state of every row is known, whoever is       *)
(* listed is so by an event of his publication alone, on a verification    *)
(* reported before it, and the event of an application is of a row that    *)
(* exists (migration 016,                  *)
(* aether_audit_trader_control_plane; POST /api/account/trader/apply).     *)
TrailReplays == \A t \in Applicants :
  /\ traders[t].onboarding # "NONE" => Control(traders[t]) = Replayed(t)
  /\ traders[t].published => /\ trail[t] # Nothing /\ trail[t].kind = "PUBLICATION"
                             /\ GateOpen(traders[t]) /\ trail[t].after.verified
  /\ t \in submitted => traders[t].onboarding # "NONE"

(* The public listing only ever changes the way ListingGate allows: nobody *)
(* is listed who was not backed by a verification decision before the      *)
(* publication (listTraders, getTrader against every write of a row).      *)
Gate == INSTANCE ListingGate WITH
  Traders <- Applicants,
  None <- Nothing,
  listed <- {t \in Applicants : traders[t].published},
  backing <- [t \in Applicants |-> IF GateOpen(traders[t]) THEN traders[t].reference ELSE Nothing]

ListingIsGated == Gate!Spec

=============================================================================
