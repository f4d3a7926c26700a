---------------------- MODULE TraderMarketplaceProofs ----------------------
(***************************************************************************)
(* Proofs for TraderMarketplace, for any sets of traders, evidence and     *)
(* concurrent handlers.  The inductive invariant adds to the properties    *)
(* what a handler remembers between its read and its write: whose evidence *)
(* a verification decision is about.                                       *)
(***************************************************************************)
EXTENDS TraderMarketplace, TLAPS

(* A pending that is not idle names a trader; a verification names evidence.  *)
TaskNamed == \A h \in Requests :
  /\ pending[h].step # "idle" => pending[h].trader \in Applicants
  /\ pending[h].step \in {"readVerify", "readRefuse", "verify", "refuse"} => pending[h].evidence \in Evidence

(* Only a row that exists is updated, and rows are never deleted: a        *)
(* trader without a row has no event.                                      *)
RowsExist == \A h \in Requests : pending[h].step \notin {"idle", "insert"} =>
  traders[pending[h].trader].onboarding # "NONE"
NoRowNoEvent == \A t \in Applicants : traders[t].onboarding = "NONE" =>
  trail[t] = Nothing /\ t \notin submitted

(* Once read, the evidence of a decision is evidence of its trader.        *)
DecisionOwnsEvidence == \A h \in Requests : pending[h].step \in {"verify", "refuse"} =>
  evidence[pending[h].evidence].trader = pending[h].trader

IInv ==
  /\ MarketTypeOK
  /\ TaskNamed
  /\ DecisionOwnsEvidence
  /\ PublishedIsGated
  /\ VerifiedIsBacked
  /\ TrailReplays
  /\ RowsExist
  /\ NoRowNoEvent

-----------------------------------------------------------------------------
(* What each column update leaves behind.                                  *)

LEMMA ReviewedRow ==
  ASSUME NEW row \in TraderRows, NEW d \in Decisions
  PROVE  /\ Reviewed(row, d) \in TraderRows /\ ~Reviewed(row, d).published
         /\ Reviewed(row, d).onboarding # "NONE"
         /\ ~Reviewed(row, d).verified
BY DEF TraderRows, Decisions, Reviewed, Onboarding, Status, Verification

LEMMA VerifiedRow ==
  ASSUME NEW row \in TraderRows, NEW e \in Evidence
  PROVE  /\ Verified(row, e) \in TraderRows /\ ~Verified(row, e).published
         /\ Verified(row, e).reference = e /\ Verified(row, e).onboarding = row.onboarding
BY DEF TraderRows, Verified, Onboarding, Status, Verification

LEMMA RefusedRow ==
  ASSUME NEW row \in TraderRows
  PROVE  /\ Refused(row) \in TraderRows /\ ~Refused(row).published
         /\ ~Refused(row).verified /\ Refused(row).onboarding = row.onboarding
BY DEF TraderRows, Refused, Onboarding, Status, Verification

LEMMA EventType ==
  ASSUME NEW old \in TraderRows, NEW new \in TraderRows
  PROVE  /\ Control(new) \in Controls
         /\ [kind |-> Kind(old, new), after |-> Control(new)] \in Events
BY DEF TraderRows, Control, Controls, Events, Kinds, Kind

(* What an UPDATE keeps: a change the trigger does not report is no change *)
(* of the columns a reader replays, and a publication is reported as one.  *)
LEMMA UpdateReplays ==
  ASSUME MarketTypeOK, TrailReplays, NoRowNoEvent,
         NEW t \in Applicants, NEW new \in TraderRows, UpdateTrader(t, new),
         traders[t].onboarding # "NONE", new.onboarding # "NONE",
         new.published => GateOpen(new) /\ new = [traders[t] EXCEPT !.published = TRUE]
  PROVE  /\ traders' = [traders EXCEPT ![t] = new]
         /\ traders' \in [Applicants -> TraderRows]
         /\ trail' \in [Applicants -> Events \cup {Nothing}] /\ submitted' = submitted
         /\ TrailReplays' /\ NoRowNoEvent'
         /\ \A u \in Applicants : traders[u].onboarding # "NONE" => traders'[u].onboarding # "NONE"
<1> DEFINE old == traders[t]
           event == [kind |-> Kind(old, new), after |-> Control(new)]
<1>1. /\ traders' = [traders EXCEPT ![t] = new] /\ traders' \in [Applicants -> TraderRows]
      /\ submitted' = submitted
  BY DEF UpdateTrader, MarketTypeOK
<1>2. old \in TraderRows /\ event \in Events /\ event # Nothing
  <2>1. old \in TraderRows
    BY DEF MarketTypeOK
  <2> QED BY <2>1, EventType, NothingIsNoValue
<1>3. NoRowNoEvent' /\ \A u \in Applicants : traders[u].onboarding # "NONE" => traders'[u].onboarding # "NONE"
  <2>1. \A u \in Applicants : u # t => trail'[u] = trail[u] /\ traders'[u] = traders[u]
    BY <1>1 DEF UpdateTrader, MarketTypeOK
  <2> QED BY <1>1, <2>1 DEF NoRowNoEvent, MarketTypeOK
<1>4. CASE Kind(old, new) = "NONE"
  <2>1. trail' = trail
    BY <1>4 DEF UpdateTrader
  <2>2. Control(new) = Control(old) /\ new.published = old.published
    BY <1>4 DEF Kind, Control
  <2>3. new.published => new = old
    BY <1>2, <2>2 DEF TraderRows
  <2>4. TrailReplays'
    <3> SUFFICES ASSUME NEW u \in Applicants
                 PROVE  /\ traders'[u].onboarding # "NONE" => Control(traders'[u]) = Replayed(u)'
                        /\ traders'[u].published => /\ trail'[u] # Nothing /\ trail'[u].kind = "PUBLICATION"
                                                    /\ GateOpen(traders'[u]) /\ trail'[u].after.verified
                        /\ u \in submitted' => traders'[u].onboarding # "NONE"
      BY DEF TrailReplays
    <3>1. Replayed(u)' = Replayed(u)
      BY <2>1 DEF Replayed
    <3>2. CASE u = t
      BY <1>1, <2>1, <2>2, <2>3, <3>1, <3>2 DEF TrailReplays, MarketTypeOK
    <3>3. CASE u # t
      <4>1. traders'[u] = traders[u]
        BY <1>1, <3>3 DEF MarketTypeOK
      <4> QED BY <1>1, <2>1, <3>1, <4>1 DEF TrailReplays
    <3> QED BY <3>2, <3>3
  <2> QED BY <1>1, <1>3, <2>1, <2>4 DEF MarketTypeOK
<1>5. CASE Kind(old, new) # "NONE"
  <2>1. trail' = [trail EXCEPT ![t] = event]
    BY <1>5 DEF UpdateTrader
  <2>2. trail' \in [Applicants -> Events \cup {Nothing}] /\ trail'[t] = event
    BY <1>2, <2>1 DEF MarketTypeOK
  <2>3. new.published => Kind(old, new) = "PUBLICATION" /\ GateOpen(new) /\ Control(new).verified
    <3> SUFFICES ASSUME new.published
                 PROVE  Kind(old, new) = "PUBLICATION" /\ GateOpen(new) /\ Control(new).verified
      OBVIOUS
    <3>1. GateOpen(new) /\ new = [old EXCEPT !.published = TRUE]
      OBVIOUS
    <3>2. /\ new.verification = old.verification /\ new.verified = old.verified
          /\ new.onboarding = old.onboarding /\ new.status = old.status
      BY <1>2, <3>1 DEF TraderRows
    <3> QED BY <1>5, <3>1, <3>2 DEF Kind, Control, GateOpen
  <2>4. TrailReplays'
    <3> SUFFICES ASSUME NEW u \in Applicants
                 PROVE  /\ traders'[u].onboarding # "NONE" => Control(traders'[u]) = Replayed(u)'
                        /\ traders'[u].published => /\ trail'[u] # Nothing /\ trail'[u].kind = "PUBLICATION"
                                                    /\ GateOpen(traders'[u]) /\ trail'[u].after.verified
                        /\ u \in submitted' => traders'[u].onboarding # "NONE"
      BY DEF TrailReplays
    <3>1. CASE u = t
      <4>1. Replayed(t)' = Control(new)
        BY <1>2, <2>2 DEF Replayed
      <4>2. traders'[t] = new
        BY <1>1 DEF MarketTypeOK
      <4> QED BY <1>2, <2>2, <2>3, <3>1, <4>1, <4>2
    <3>2. CASE u # t
      <4>1. traders'[u] = traders[u] /\ trail'[u] = trail[u]
        BY <1>1, <2>1, <3>2 DEF MarketTypeOK
      <4>2. Replayed(u)' = Replayed(u)
        BY <4>1 DEF Replayed
      <4> QED BY <1>1, <4>1, <4>2 DEF TrailReplays
    <3> QED BY <3>1, <3>2
  <2> QED BY <1>1, <1>3, <2>2, <2>4
<1> QED BY <1>4, <1>5

(* A step that writes no table keeps what the tables say.                  *)
LEMMA TablesStay ==
  ASSUME IInv, UNCHANGED <<traders, trail, submitted>>
  PROVE  /\ PublishedIsGated' /\ TrailReplays' /\ NoRowNoEvent'
         /\ evidence' = evidence => VerifiedIsBacked'
BY DEF IInv, PublishedIsGated, GateOpen, VerifiedIsBacked, TrailReplays, Replayed, NoRowNoEvent

(* Requests that go idle or keep what they remember leave RowsExist alone. *)
LEMMA RowsStay ==
  ASSUME IInv, \A g \in Requests : pending'[g] = pending[g] \/ pending'[g] = Idle,
         \A u \in Applicants : traders[u].onboarding # "NONE" => traders'[u].onboarding # "NONE"
  PROVE  RowsExist'
BY DEF IInv, RowsExist, TaskNamed, Idle

-----------------------------------------------------------------------------
LEMMA InitIInv == MarketInit => IInv
<1> SUFFICES ASSUME MarketInit PROVE IInv
  OBVIOUS
<1>1. MarketTypeOK
  BY DEF MarketInit, MarketTypeOK, TraderRows, NoRow, EvidenceRows, NoEvidence,
     Pending, Idle, Steps, Onboarding, Status, Verification
<1> QED BY <1>1 DEF MarketInit, IInv, TaskNamed, DecisionOwnsEvidence, PublishedIsGated,
     VerifiedIsBacked, TrailReplays, RowsExist, NoRowNoEvent, NoRow, NoEvidence, Idle

(* Remembering a decision, forgetting it or reading the evidence touches   *)
(* no table.                                                               *)
LEMMA PlanIInv ==
  ASSUME IInv, NEW h \in Requests, NEW step \in Steps, NEW t \in Applicants,
         NEW e \in Evidence \cup {Nothing}, Plan(h, step, t, e),
         step \notin {"verify", "refuse"},
         step \in {"readVerify", "readRefuse"} => e \in Evidence,
         step # "insert" => traders[t].onboarding # "NONE"
  PROVE  IInv'
<1>1. pending' \in [Requests -> Pending]
  BY DEF IInv, MarketTypeOK, Pending, Plan
<1> QED BY <1>1 DEF IInv, MarketTypeOK, TaskNamed, DecisionOwnsEvidence, PublishedIsGated,
     VerifiedIsBacked, TrailReplays, Replayed, RowsExist, NoRowNoEvent, Plan, Pending

LEMMA BeginIInv == ASSUME IInv, NEW h \in Requests, Begin(h) PROVE IInv'
<1> PICK t \in Applicants :
      \/ Apply(h, t)
      \/ \E decision \in Decisions : Review(h, t, decision)
      \/ RecordEvidence(h, t)
      \/ \E e \in Evidence, step \in {"readVerify", "readRefuse"} : ReviewVerification(h, t, e, step)
      \/ \E step \in {"publish", "unpublish"} : SetPublished(h, t, step)
  BY DEF Begin
<1>1. CASE Apply(h, t)
  BY <1>1, PlanIInv DEF Apply, Steps
<1>2. ASSUME NEW d \in Decisions, Review(h, t, d) PROVE IInv'
  BY <1>2, PlanIInv DEF Review, ReviewAllowed, Steps, Decisions
<1>3. CASE RecordEvidence(h, t)
  BY <1>3, PlanIInv DEF RecordEvidence, Steps
<1>4. ASSUME NEW e \in Evidence, NEW step \in {"readVerify", "readRefuse"},
             ReviewVerification(h, t, e, step)
      PROVE IInv'
  BY <1>4, PlanIInv DEF ReviewVerification, Steps
<1>5. ASSUME NEW step \in {"publish", "unpublish"}, SetPublished(h, t, step) PROVE IInv'
  BY <1>5, PlanIInv DEF SetPublished, Steps
<1> QED BY <1>1, <1>2, <1>3, <1>4, <1>5

(* A handler that sends its statement goes idle, and the others keep what  *)
(* they remember.                                                          *)
LEMMA SendsTask ==
  ASSUME IInv, NEW h \in Requests, NEW steps, Sends(h, steps), "idle" \notin steps
  PROVE  /\ pending' \in [Requests -> Pending] /\ TaskNamed'
         /\ pending[h].step \in steps /\ pending[h].trader \in Applicants
         /\ \A g \in Requests : pending'[g] = pending[g] \/ pending'[g] = Idle
<1>1. Idle \in Pending
  BY DEF Idle, Pending, Steps
<1> QED BY <1>1 DEF IInv, MarketTypeOK, TaskNamed, Sends, Idle

LEMMA WriteReviewIInv == ASSUME IInv, NEW h \in Requests, WriteReview(h) PROVE IInv'
<1> DEFINE t == pending[h].trader
           new == Reviewed(traders[t], pending[h].step)
<1>1. /\ pending' \in [Requests -> Pending] /\ TaskNamed' /\ t \in Applicants /\ pending[h].step \in Decisions
      /\ \A g \in Requests : pending'[g] = pending[g] \/ pending'[g] = Idle
  BY SendsTask DEF WriteReview, Decisions
<1>2. traders[t] \in TraderRows
  BY <1>1 DEF IInv, MarketTypeOK
<1>3. new \in TraderRows /\ ~new.published /\ ~new.verified /\ new.onboarding # "NONE"
  BY <1>1, <1>2, ReviewedRow
<1>4. UpdateTrader(t, new) /\ evidence' = evidence
  BY DEF WriteReview
<1>5. /\ traders' = [traders EXCEPT ![t] = new]
      /\ MarketTypeOK' /\ TrailReplays' /\ NoRowNoEvent' /\ RowsExist'
  <2>1. traders[t].onboarding # "NONE"
    BY <1>1 DEF IInv, RowsExist, Decisions
  <2> HIDE DEF new
  <2> QED BY <1>1, <1>3, <1>4, <2>1, UpdateReplays, RowsStay DEF IInv, MarketTypeOK
<1>6. PublishedIsGated' /\ VerifiedIsBacked'
  BY <1>1, <1>3, <1>4, <1>5 DEF IInv, MarketTypeOK, PublishedIsGated, VerifiedIsBacked
<1>7. DecisionOwnsEvidence'
  BY <1>1, <1>4 DEF IInv, DecisionOwnsEvidence, Idle
<1> QED BY <1>1, <1>5, <1>6, <1>7 DEF IInv

LEMMA CommitVerifyIInv == ASSUME IInv, NEW h \in Requests, CommitVerify(h) PROVE IInv'
<1> DEFINE t == pending[h].trader
           e == pending[h].evidence
           new == Verified(traders[t], e)
<1>1. /\ pending' \in [Requests -> Pending] /\ TaskNamed' /\ t \in Applicants /\ pending[h].step = "verify"
      /\ \A g \in Requests : pending'[g] = pending[g] \/ pending'[g] = Idle
  BY SendsTask DEF CommitVerify
<1>2. e \in Evidence /\ traders[t] \in TraderRows /\ evidence[e].trader = t /\ evidence[e] \in EvidenceRows
  BY <1>1 DEF IInv, MarketTypeOK, TaskNamed, DecisionOwnsEvidence
<1>3. /\ new \in TraderRows /\ ~new.published /\ new.reference = e
      /\ new.onboarding = traders[t].onboarding
  BY <1>2, VerifiedRow
<1>4. UpdateTrader(t, new) /\ evidence' = [evidence EXCEPT ![e].status = "VERIFIED"]
  BY DEF CommitVerify
<1>5. /\ evidence' \in [Evidence -> EvidenceRows]
      /\ evidence'[e] = [trader |-> t, status |-> "VERIFIED"]
      /\ \A x \in Evidence : evidence'[x].trader = evidence[x].trader /\ (x # e => evidence'[x] = evidence[x])
  BY <1>2, <1>4 DEF IInv, MarketTypeOK, EvidenceRows
<1>6. /\ traders' = [traders EXCEPT ![t] = new]
      /\ MarketTypeOK' /\ TrailReplays' /\ NoRowNoEvent' /\ RowsExist'
  <2>1. traders[t].onboarding # "NONE"
    BY <1>1 DEF IInv, RowsExist
  <2>2. new.onboarding # "NONE"
    BY <1>3, <2>1
  <2> HIDE DEF new
  <2> QED BY <1>1, <1>3, <1>4, <1>5, <2>1, <2>2, UpdateReplays, RowsStay DEF IInv, MarketTypeOK
<1>7. PublishedIsGated'
  BY <1>1, <1>3, <1>6 DEF IInv, MarketTypeOK, PublishedIsGated
<1>8. VerifiedIsBacked'
  BY <1>1, <1>2, <1>3, <1>5, <1>6 DEF IInv, MarketTypeOK, VerifiedIsBacked
<1>9. DecisionOwnsEvidence'
  BY <1>1, <1>5 DEF IInv, TaskNamed, DecisionOwnsEvidence, Idle
<1> QED BY <1>1, <1>6, <1>7, <1>8, <1>9 DEF IInv

LEMMA CommitRefusalIInv == ASSUME IInv, NEW h \in Requests, CommitRefusal(h) PROVE IInv'
<1> DEFINE t == pending[h].trader
           e == pending[h].evidence
           new == Refused(traders[t])
<1>1. /\ pending' \in [Requests -> Pending] /\ TaskNamed' /\ t \in Applicants /\ pending[h].step = "refuse"
      /\ \A g \in Requests : pending'[g] = pending[g] \/ pending'[g] = Idle
  BY SendsTask DEF CommitRefusal
<1>2. e \in Evidence /\ traders[t] \in TraderRows /\ evidence[e].trader = t /\ evidence[e] \in EvidenceRows
  BY <1>1 DEF IInv, MarketTypeOK, TaskNamed, DecisionOwnsEvidence
<1>3. /\ new \in TraderRows /\ ~new.published /\ ~new.verified
      /\ new.onboarding = traders[t].onboarding
  BY <1>2, RefusedRow
<1>4. UpdateTrader(t, new) /\ evidence' = [evidence EXCEPT ![e].status = "REJECTED"]
  BY DEF CommitRefusal
<1>5. /\ evidence' \in [Evidence -> EvidenceRows]
      /\ \A x \in Evidence : evidence'[x].trader = evidence[x].trader /\ (x # e => evidence'[x] = evidence[x])
  BY <1>2, <1>4 DEF IInv, MarketTypeOK, EvidenceRows
<1>6. /\ traders' = [traders EXCEPT ![t] = new]
      /\ MarketTypeOK' /\ TrailReplays' /\ NoRowNoEvent' /\ RowsExist'
  <2>1. traders[t].onboarding # "NONE"
    BY <1>1 DEF IInv, RowsExist
  <2>2. new.onboarding # "NONE"
    BY <1>3, <2>1
  <2> HIDE DEF new
  <2> QED BY <1>1, <1>3, <1>4, <1>5, <2>1, <2>2, UpdateReplays, RowsStay DEF IInv, MarketTypeOK
<1>7. PublishedIsGated'
  BY <1>1, <1>3, <1>6 DEF IInv, MarketTypeOK, PublishedIsGated
<1>8. VerifiedIsBacked'
  <2> SUFFICES ASSUME NEW u \in Applicants, traders'[u].verified
               PROVE  /\ traders'[u].reference \in Evidence
                      /\ evidence'[traders'[u].reference] = [trader |-> u, status |-> "VERIFIED"]
    BY DEF VerifiedIsBacked
  <2>1. u # t /\ traders'[u] = traders[u]
    BY <1>1, <1>3, <1>6 DEF IInv, MarketTypeOK
  <2>2. /\ traders[u].reference \in Evidence
        /\ evidence[traders[u].reference] = [trader |-> u, status |-> "VERIFIED"]
    BY <2>1 DEF IInv, VerifiedIsBacked
  <2>3. traders[u].reference # e
    BY <1>2, <2>1, <2>2
  <2> QED BY <1>5, <2>1, <2>2, <2>3
<1>9. DecisionOwnsEvidence'
  BY <1>1, <1>5 DEF IInv, TaskNamed, DecisionOwnsEvidence, Idle
<1> QED BY <1>1, <1>6, <1>7, <1>8, <1>9 DEF IInv

LEMMA WritePublishedIInv == ASSUME IInv, NEW h \in Requests, WritePublished(h) PROVE IInv'
<1> DEFINE t == pending[h].trader
           b == pending[h].step = "publish"
           new == [traders[t] EXCEPT !.published = b]
<1>1. /\ pending' \in [Requests -> Pending] /\ TaskNamed' /\ t \in Applicants
      /\ \A g \in Requests : pending'[g] = pending[g] \/ pending'[g] = Idle
  BY SendsTask DEF WritePublished
<1>2. evidence' = evidence /\ pending[h].step \in {"publish", "unpublish"}
  BY DEF WritePublished, Sends
<1>3. DecisionOwnsEvidence'
  BY <1>1, <1>2 DEF IInv, DecisionOwnsEvidence, Idle
<1>4. CASE ~GuardAccepts(traders[t], new)
  <2>1. UNCHANGED <<traders, trail, submitted>>
    BY <1>4 DEF WritePublished
  <2> HIDE DEF new
  <2>2. RowsExist'
    BY <1>1, <2>1, RowsStay
  <2> QED BY <1>1, <1>2, <1>3, <2>1, <2>2, TablesStay DEF IInv, MarketTypeOK
<1>5. CASE GuardAccepts(traders[t], new)
  <2>1. traders[t] \in TraderRows /\ b \in BOOLEAN
    BY <1>1 DEF IInv, MarketTypeOK
  <2>2. new \in TraderRows /\ new.verified = traders[t].verified /\ new.reference = traders[t].reference
    BY <2>1 DEF TraderRows
  <2>3. UpdateTrader(t, new)
    BY <1>5 DEF WritePublished
  <2>4. /\ traders' = [traders EXCEPT ![t] = new]
        /\ MarketTypeOK' /\ TrailReplays' /\ NoRowNoEvent' /\ RowsExist'
    <3>1. traders[t].onboarding # "NONE" /\ new.onboarding # "NONE"
      BY <1>1, <1>2, <2>1 DEF IInv, RowsExist, TraderRows
    <3>2. new.published => GateOpen(new) /\ new = [traders[t] EXCEPT !.published = TRUE]
      BY <1>5, <2>1 DEF GuardAccepts, TraderRows
    <3> HIDE DEF new
    <3> QED BY <1>1, <1>2, <2>2, <2>3, <3>1, <3>2, UpdateReplays, RowsStay DEF IInv, MarketTypeOK
  <2>5. PublishedIsGated'
    BY <1>1, <1>5, <2>4 DEF IInv, MarketTypeOK, PublishedIsGated, GuardAccepts
  <2>6. VerifiedIsBacked'
    BY <1>1, <1>2, <2>2, <2>4 DEF IInv, MarketTypeOK, VerifiedIsBacked
  <2> QED BY <1>1, <1>3, <2>4, <2>5, <2>6 DEF IInv
<1> QED BY <1>4, <1>5

LEMMA InsertApplicationIInv == ASSUME IInv, NEW h \in Requests, InsertApplication(h) PROVE IInv'
<1> DEFINE t == pending[h].trader
           k == [pending[h] EXCEPT !.step = "submit"]
<1>1. /\ pending[h].step = "insert" /\ t \in Applicants /\ pending[h] \in Pending
      /\ UNCHANGED <<evidence, trail, submitted>>
  BY DEF InsertApplication, IInv, MarketTypeOK, TaskNamed
<1>2. CASE traders[t].onboarding # "NONE"
  <2>1. UNCHANGED traders /\ pending' = [pending EXCEPT ![h] = Idle] /\ Idle \in Pending
    BY <1>2 DEF InsertApplication, Idle, Pending, Steps
  <2>2. \A g \in Requests : pending'[g] = pending[g] \/ pending'[g] = Idle
    BY <2>1 DEF IInv, MarketTypeOK
  <2>3. RowsExist'
    BY <2>1, <2>2, RowsStay
  <2> QED BY <1>1, <2>1, <2>2, <2>3, TablesStay DEF IInv, MarketTypeOK, TaskNamed, DecisionOwnsEvidence, Idle
<1>3. CASE traders[t].onboarding = "NONE"
  <2>1. traders' = [traders EXCEPT ![t] = NewApplication] /\ pending' = [pending EXCEPT ![h] = k]
    BY <1>3 DEF InsertApplication
  <2>2. /\ NewApplication \in TraderRows /\ ~NewApplication.verified /\ ~NewApplication.published
        /\ NewApplication.onboarding # "NONE"
    BY DEF NewApplication, TraderRows, Onboarding, Status, Verification
  <2>3. k \in Pending /\ k.step = "submit" /\ k.trader = t
    BY <1>1 DEF Pending, Steps
  <2> HIDE DEF k
  <2>4. MarketTypeOK' /\ TaskNamed' /\ DecisionOwnsEvidence'
    BY <1>1, <2>1, <2>2, <2>3 DEF IInv, MarketTypeOK, TaskNamed, DecisionOwnsEvidence
  <2>5. PublishedIsGated' /\ VerifiedIsBacked' /\ NoRowNoEvent' /\ RowsExist'
    BY <1>1, <2>1, <2>2, <2>3
       DEF IInv, MarketTypeOK, TaskNamed, PublishedIsGated, VerifiedIsBacked, NoRowNoEvent, RowsExist
  <2>6. trail[t] = Nothing
    BY <1>1, <1>3 DEF IInv, NoRowNoEvent
  <2>7. TrailReplays'
    <3>1. \A u \in Applicants : Replayed(u)' = Replayed(u)
      BY <1>1 DEF Replayed
    <3>2. Replayed(t) = Control(NewApplication)
      BY <2>6 DEF Replayed
    <3>3. \A u \in Applicants : traders'[u] = IF u = t THEN NewApplication ELSE traders[u]
      BY <2>1 DEF IInv, MarketTypeOK
    <3> QED BY <1>1, <2>2, <3>1, <3>2, <3>3 DEF IInv, TrailReplays
  <2> QED BY <2>4, <2>5, <2>7 DEF IInv
<1> QED BY <1>2, <1>3

LEMMA AppendSubmittedIInv == ASSUME IInv, NEW h \in Requests, AppendSubmitted(h) PROVE IInv'
<1> DEFINE t == pending[h].trader
<1>1. /\ pending' \in [Requests -> Pending] /\ TaskNamed' /\ t \in Applicants /\ pending[h].step = "submit"
      /\ \A g \in Requests : pending'[g] = pending[g] \/ pending'[g] = Idle
  BY SendsTask DEF AppendSubmitted
<1>2. submitted' = submitted \cup {t} /\ UNCHANGED <<traders, evidence, trail>>
  BY DEF AppendSubmitted
<1>3. traders[t].onboarding # "NONE"
  BY <1>1 DEF IInv, RowsExist
<1>4. RowsExist'
  BY <1>1, <1>2, RowsStay
<1>5. MarketTypeOK' /\ PublishedIsGated' /\ VerifiedIsBacked' /\ DecisionOwnsEvidence'
  BY <1>1, <1>2 DEF IInv, MarketTypeOK, PublishedIsGated, GateOpen, VerifiedIsBacked, DecisionOwnsEvidence, Idle
<1>6. NoRowNoEvent' /\ TrailReplays'
  BY <1>1, <1>2, <1>3 DEF IInv, NoRowNoEvent, TrailReplays, Replayed
<1> QED BY <1>1, <1>4, <1>5, <1>6 DEF IInv

LEMMA InsertEvidenceIInv ==
  ASSUME IInv, NEW h \in Requests, NEW e \in Evidence, InsertEvidence(h, e) PROVE IInv'
<1> DEFINE new == [trader |-> pending[h].trader, status |-> "RECORDED"]
<1>1. /\ pending' \in [Requests -> Pending] /\ TaskNamed' /\ pending[h].trader \in Applicants
      /\ \A g \in Requests : pending'[g] = pending[g] \/ pending'[g] = Idle
  BY SendsTask DEF InsertEvidence
<1>2. evidence[e] = NoEvidence /\ evidence' = [evidence EXCEPT ![e] = new] /\ UNCHANGED <<traders, trail, submitted>>
  BY DEF InsertEvidence
<1>3. new \in EvidenceRows
  BY <1>1 DEF EvidenceRows
<1>4. MarketTypeOK' /\ TrailReplays' /\ NoRowNoEvent' /\ PublishedIsGated' /\ RowsExist'
  BY <1>1, <1>2, <1>3, TablesStay, RowsStay DEF IInv, MarketTypeOK
<1>5. VerifiedIsBacked'
  BY <1>2 DEF IInv, MarketTypeOK, VerifiedIsBacked, NoEvidence
<1>6. DecisionOwnsEvidence'
  <2> SUFFICES ASSUME NEW g \in Requests, pending'[g].step \in {"verify", "refuse"}
               PROVE  evidence'[pending'[g].evidence].trader = pending'[g].trader
    BY DEF DecisionOwnsEvidence
  <2>1. pending'[g] = pending[g]
    BY <1>1 DEF Idle
  <2>2. /\ pending[g].trader \in Applicants /\ pending[g].evidence \in Evidence
        /\ evidence[pending[g].evidence].trader = pending[g].trader
    BY <2>1 DEF IInv, TaskNamed, DecisionOwnsEvidence
  <2>3. pending[g].evidence # e
    BY <1>2, <2>2, NothingIsNoValue DEF NoEvidence
  <2> QED BY <1>2, <2>1, <2>2, <2>3 DEF IInv, MarketTypeOK
<1> QED BY <1>1, <1>4, <1>5, <1>6 DEF IInv

LEMMA ReadEvidenceIInv == ASSUME IInv, NEW h \in Requests, ReadEvidence(h) PROVE IInv'
<1> DEFINE k == pending[h]
           next == IF ~EvidenceAllows(evidence[k.evidence], k.trader, k.step) THEN Idle
                   ELSE [k EXCEPT !.step = IF k.step = "readVerify" THEN "verify" ELSE "refuse"]
<1>1. k \in Pending /\ k.step \in {"readVerify", "readRefuse"} /\ k.trader \in Applicants /\ k.evidence \in Evidence
  BY DEF IInv, MarketTypeOK, TaskNamed, ReadEvidence
<1>2. pending' = [pending EXCEPT ![h] = next] /\ UNCHANGED <<traders, evidence, trail, submitted>>
  BY DEF ReadEvidence
<1>3. CASE ~EvidenceAllows(evidence[k.evidence], k.trader, k.step)
  <2>1. next = Idle /\ Idle \in Pending
    BY <1>3 DEF Idle, Pending, Steps
  <2> HIDE DEF next
  <2> QED BY <1>2, <2>1 DEF IInv, MarketTypeOK, TaskNamed, DecisionOwnsEvidence, PublishedIsGated,
       VerifiedIsBacked, TrailReplays, Replayed, RowsExist, NoRowNoEvent, Idle
<1>4. CASE EvidenceAllows(evidence[k.evidence], k.trader, k.step)
  <2>1. /\ next \in Pending /\ next.step \in {"verify", "refuse"}
        /\ next.trader = k.trader /\ next.evidence = k.evidence
    BY <1>1, <1>4 DEF Pending, Steps
  <2>2. evidence[k.evidence].trader = k.trader
    BY <1>4 DEF EvidenceAllows
  <2> HIDE DEF next
  <2> QED BY <1>1, <1>2, <2>1, <2>2 DEF IInv, MarketTypeOK, TaskNamed, DecisionOwnsEvidence,
       PublishedIsGated, VerifiedIsBacked, TrailReplays, Replayed, RowsExist, NoRowNoEvent
<1> QED BY <1>3, <1>4

LEMMA AbandonIInv == ASSUME IInv, NEW h \in Requests, Abandon(h) PROVE IInv'
<1>1. Idle \in Pending
  BY DEF Idle, Pending, Steps
<1> QED BY <1>1 DEF IInv, MarketTypeOK, TaskNamed, DecisionOwnsEvidence, PublishedIsGated,
     VerifiedIsBacked, TrailReplays, Replayed, RowsExist, NoRowNoEvent, Abandon, Idle

LEMMA NextIInv == IInv /\ [MarketNext]_marketVars => IInv'
<1> SUFFICES ASSUME IInv, [MarketNext]_marketVars PROVE IInv'
  OBVIOUS
<1>1. CASE UNCHANGED marketVars
  BY <1>1 DEF marketVars, IInv, MarketTypeOK, TaskNamed, DecisionOwnsEvidence, PublishedIsGated,
     VerifiedIsBacked, TrailReplays, Replayed, RowsExist, NoRowNoEvent
<1>2. ASSUME NEW h \in Requests, Begin(h) PROVE IInv'
  BY <1>2, BeginIInv
<1>3. ASSUME NEW h \in Requests, Finish(h) PROVE IInv'
  BY <1>3, InsertApplicationIInv, AppendSubmittedIInv, WriteReviewIInv, InsertEvidenceIInv, ReadEvidenceIInv,
     CommitVerifyIInv, CommitRefusalIInv, WritePublishedIInv, AbandonIInv DEF Finish
<1> QED BY <1>1, <1>2, <1>3 DEF MarketNext

LEMMA SpecIInv == MarketSpec => []IInv
BY InitIInv, NextIInv, PTL DEF MarketSpec

(* The tables and the requests in flight keep their types.                 *)
THEOREM TypeCorrect == MarketSpec => []MarketTypeOK
BY SpecIInv, PTL DEF IInv

(* PublishedIsGated for any number of racing requests.                     *)
THEOREM PublicationGated == MarketSpec => []PublishedIsGated
BY SpecIInv, PTL DEF IInv

(* VerifiedIsBacked for any number of racing requests.                     *)
THEOREM VerificationBacked == MarketSpec => []VerifiedIsBacked
BY SpecIInv, PTL DEF IInv

(* TrailReplays for any number of racing requests.                         *)
THEOREM TrailStandsAlone == MarketSpec => []TrailReplays
BY SpecIInv, PTL DEF IInv

-----------------------------------------------------------------------------
(* The refinement of ListingGate.  An UPDATE of t moves the abstract       *)
(* listing at t and nowhere else; each handler's write is then one         *)
(* abstract step or none.                                                  *)

Listed == {t \in Applicants : traders[t].published}
Backing == [t \in Applicants |-> IF GateOpen(traders[t]) THEN traders[t].reference ELSE Nothing]

LEMMA RowMoves ==
  ASSUME NEW t \in Applicants, NEW new \in TraderRows, MarketTypeOK, traders' = [traders EXCEPT ![t] = new]
  PROVE  /\ new.published => Listed' = Listed \cup {t}
         /\ ~new.published => Listed' = Listed \ {t}
         /\ Backing' = [Backing EXCEPT ![t] = IF GateOpen(new) THEN new.reference ELSE Nothing]
<1>1. traders'[t] = new /\ \A u \in Applicants : u # t => traders'[u] = traders[u]
  BY DEF MarketTypeOK
<1>2. \A u \in Applicants : u # t => GateOpen(traders[u])' = GateOpen(traders[u])
  BY <1>1 DEF GateOpen
<1>3. GateOpen(traders[t])' = GateOpen(new)
  BY <1>1 DEF GateOpen
<1>4. new.published => Listed' = Listed \cup {t}
  BY <1>1 DEF Listed
<1>5. ~new.published => Listed' = Listed \ {t}
  BY <1>1 DEF Listed
<1>6. Backing' = [Backing EXCEPT ![t] = IF GateOpen(new) THEN new.reference ELSE Nothing]
  <2> DEFINE Back(u) == IF GateOpen(traders[u]) THEN traders[u].reference ELSE Nothing
  <2>1. \A u \in Applicants : u # t => Back(u)' = Back(u)
    BY <1>1, <1>2
  <2>2. Back(t)' = IF GateOpen(new) THEN new.reference ELSE Nothing
    BY <1>1, <1>3
  <2>3. Backing = [u \in Applicants |-> Back(u)]
    BY DEF Backing
  <2>4. Backing' = [u \in Applicants |-> Back(u)']
    BY DEF Backing
  <2> HIDE DEF Back
  <2> QED BY <2>1, <2>2, <2>3, <2>4
<1> QED BY <1>4, <1>5, <1>6

(* A write that leaves t unpublished and its gate closed is a withdrawal.  *)
LEMMA ClosedGateWithdraws ==
  ASSUME IInv, NEW t \in Applicants, NEW new \in TraderRows, traders' = [traders EXCEPT ![t] = new],
         ~new.published, ~GateOpen(new)
  PROVE  Gate!Next
<1>1. Listed' = Listed \ {t} /\ Backing' = [Backing EXCEPT ![t] = Nothing]
  BY RowMoves DEF IInv
<1>2. Gate!Withdraw(t)
  BY <1>1 DEF Gate!Withdraw, Listed, Backing
<1> QED BY <1>2 DEF Gate!Next

(* Any of the abstract actions at one trader is an abstract step.          *)
LEMMA GateStep ==
  ASSUME NEW t \in Applicants
  PROVE  /\ \A e \in Evidence : Gate!Verify(t, e) => Gate!Next
         /\ Gate!Publish(t) => Gate!Next
         /\ Gate!Unpublish(t) => Gate!Next
         /\ Gate!Withdraw(t) => Gate!Next
BY DEF Gate!Next

LEMMA UnchangedTraders == ASSUME traders' = traders PROVE UNCHANGED Gate!gateVars
<1>1. \A t \in Applicants : GateOpen(traders[t])' = GateOpen(traders[t])
  BY DEF GateOpen
<1> QED BY <1>1 DEF Gate!gateVars

LEMMA WriteReviewListing == ASSUME IInv, NEW h \in Requests, WriteReview(h) PROVE Gate!Next
<1> DEFINE t == pending[h].trader
           new == Reviewed(traders[t], pending[h].step)
<1>1. t \in Applicants /\ pending[h].step \in Decisions /\ traders[t] \in TraderRows
  BY SendsTask DEF WriteReview, Decisions, IInv, MarketTypeOK
<1>2. new \in TraderRows /\ ~new.published /\ ~new.verified
  BY <1>1, ReviewedRow
<1>3. traders' = [traders EXCEPT ![t] = new]
  BY DEF WriteReview, UpdateTrader
<1>4. ~GateOpen(new)
  BY <1>2 DEF GateOpen
<1> HIDE DEF new
<1> QED BY <1>1, <1>2, <1>3, <1>4, ClosedGateWithdraws

LEMMA CommitRefusalListing == ASSUME IInv, NEW h \in Requests, CommitRefusal(h) PROVE Gate!Next
<1> DEFINE t == pending[h].trader
           new == Refused(traders[t])
<1>1. t \in Applicants /\ traders[t] \in TraderRows
  BY SendsTask DEF CommitRefusal, IInv, MarketTypeOK
<1>2. new \in TraderRows /\ ~new.published /\ ~new.verified
  BY <1>1, RefusedRow
<1>3. traders' = [traders EXCEPT ![t] = new]
  BY DEF CommitRefusal, UpdateTrader
<1>4. ~GateOpen(new)
  BY <1>2 DEF GateOpen
<1> HIDE DEF new
<1> QED BY <1>1, <1>2, <1>3, <1>4, ClosedGateWithdraws

(* A verification that commits on an approved trader is the abstract one;  *)
(* on a trader suspended since it was read, it opens no gate.              *)
LEMMA CommitVerifyListing == ASSUME IInv, NEW h \in Requests, CommitVerify(h) PROVE Gate!Next
<1> PICK t \in Applicants, e \in Evidence : t = pending[h].trader /\ e = pending[h].evidence
  BY SendsTask DEF CommitVerify, IInv, TaskNamed
<1> DEFINE new == Verified(traders[t], e)
<1>1. traders[t] \in TraderRows
  BY DEF IInv, MarketTypeOK
<1>2. new \in TraderRows /\ ~new.published /\ new.reference = e
  BY <1>1, VerifiedRow
<1>3. traders' = [traders EXCEPT ![t] = new]
  BY DEF CommitVerify, UpdateTrader
<1> HIDE DEF new
<1>4. CASE GateOpen(new)
  <2>1. Listed' = Listed \ {t} /\ Backing' = [Backing EXCEPT ![t] = e]
    BY <1>1, <1>2, <1>3, <1>4, RowMoves DEF IInv
  <2>2. Gate!Verify(t, e)
    BY <2>1 DEF Gate!Verify, Listed, Backing
  <2> QED BY <1>1, <2>2, GateStep
<1>5. CASE ~GateOpen(new)
  BY <1>1, <1>2, <1>3, <1>5, ClosedGateWithdraws
<1> QED BY <1>4, <1>5

LEMMA WritePublishedListing ==
  ASSUME IInv, NEW h \in Requests, WritePublished(h) PROVE [Gate!Next]_(Gate!gateVars)
<1> PICK t \in Applicants : t = pending[h].trader
  BY SendsTask DEF WritePublished
<1> DEFINE b == pending[h].step = "publish"
           new == [traders[t] EXCEPT !.published = b]
<1>1. traders[t] \in TraderRows
  BY DEF IInv, MarketTypeOK
<1>2. CASE ~GuardAccepts(traders[t], new)
  BY <1>2, UnchangedTraders DEF WritePublished
<1>3. CASE GuardAccepts(traders[t], new)
  <2>1. /\ new \in TraderRows /\ new.published = b
        /\ new.reference = traders[t].reference /\ GateOpen(new) = GateOpen(traders[t])
    BY <1>1 DEF TraderRows, GateOpen
  <2>2. traders' = [traders EXCEPT ![t] = new]
    BY <1>3 DEF WritePublished, UpdateTrader
  <2>3. b => GateOpen(traders[t])
    BY <1>3, <2>1 DEF GuardAccepts
  <2> HIDE DEF new
  <2>4. Backing' = [Backing EXCEPT ![t] = Backing[t]]
    BY <1>1, <2>1, <2>2, RowMoves DEF IInv, Backing
  <2>5. UNCHANGED Backing
    BY <2>4, <1>1 DEF Backing
  <2>6. CASE b
    <3>1. Listed' = Listed \cup {t}
      BY <1>1, <2>1, <2>2, <2>6, RowMoves DEF IInv
    <3>2. Backing[t] # Nothing
      BY <1>1, <2>3, <2>6 DEF Backing, GateOpen
    <3>3. Gate!Publish(t)
      BY <2>5, <3>1, <3>2 DEF Gate!Publish, Listed, Backing
    <3> QED BY <1>1, <3>3, GateStep
  <2>7. CASE ~b
    <3>1. Listed' = Listed \ {t}
      BY <1>1, <2>1, <2>2, <2>7, RowMoves DEF IInv
    <3>2. Gate!Unpublish(t)
      BY <2>5, <3>1 DEF Gate!Unpublish, Listed, Backing
    <3> QED BY <1>1, <3>2, GateStep
  <2> QED BY <2>6, <2>7
<1> QED BY <1>2, <1>3

LEMMA InsertApplicationListing ==
  ASSUME IInv, NEW h \in Requests, InsertApplication(h) PROVE [Gate!Next]_(Gate!gateVars)
<1> DEFINE t == pending[h].trader
<1>1. t \in Applicants
  BY DEF InsertApplication, IInv, TaskNamed
<1>2. CASE traders[t].onboarding # "NONE"
  BY <1>2, UnchangedTraders DEF InsertApplication
<1>3. CASE traders[t].onboarding = "NONE"
  <2>1. traders' = [traders EXCEPT ![t] = NewApplication]
    BY <1>3 DEF InsertApplication
  <2>2. NewApplication \in TraderRows /\ ~NewApplication.published /\ ~GateOpen(NewApplication)
    BY DEF NewApplication, GateOpen, TraderRows, Onboarding, Status, Verification
  <2> QED BY <1>1, <2>1, <2>2, ClosedGateWithdraws
<1> QED BY <1>2, <1>3

LEMMA StepListing == IInv /\ [MarketNext]_marketVars => [Gate!Next]_(Gate!gateVars)
<1> SUFFICES ASSUME IInv, [MarketNext]_marketVars PROVE [Gate!Next]_(Gate!gateVars)
  OBVIOUS
<1>1. CASE UNCHANGED marketVars
  BY <1>1, UnchangedTraders DEF marketVars
<1>2. ASSUME NEW h \in Requests, Begin(h) PROVE UNCHANGED Gate!gateVars
  BY <1>2, UnchangedTraders DEF Begin, Apply, Review, RecordEvidence, ReviewVerification,
     SetPublished, Plan
<1>3. ASSUME NEW h \in Requests, Finish(h) PROVE [Gate!Next]_(Gate!gateVars)
  <2>1. CASE \/ \E e \in Evidence : InsertEvidence(h, e)
             \/ AppendSubmitted(h)
             \/ ReadEvidence(h)
             \/ Abandon(h)
    BY <2>1, UnchangedTraders DEF InsertEvidence, AppendSubmitted, ReadEvidence, Abandon
  <2> QED BY <1>3, <2>1, WriteReviewListing, CommitVerifyListing, CommitRefusalListing,
       WritePublishedListing, InsertApplicationListing DEF Finish
<1> QED BY <1>1, <1>2, <1>3 DEF MarketNext

LEMMA InitListing == MarketInit => Gate!Init
BY DEF MarketInit, Gate!Init, NoRow, GateOpen

(* The marketplace implements its abstract listing: ListingIsGated for     *)
(* any sets of traders, evidence and handlers.                             *)
THEOREM MarketplaceImplementsListing == MarketSpec => ListingIsGated
BY InitListing, StepListing, SpecIInv, PTL DEF MarketSpec, Gate!Spec, ListingIsGated

=============================================================================
