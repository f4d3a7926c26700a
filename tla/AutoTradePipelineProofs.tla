---------------------- MODULE AutoTradePipelineProofs ----------------------
(***************************************************************************)
(* An evaluation splits no decision from its audit event, and the daily    *)
(* limit is exceeded by no more than the requests that counted before it   *)
(* was reached, for any pool and any number of requests.  The argument: a  *)
(* request that has read a count below the limit and has not committed     *)
(* (Eligible) holds its transaction's connection, and held another one     *)
(* while it read.                                                          *)
(***************************************************************************)
EXTENDS AutoTradePipeline, Integers, FiniteSetTheorems, TLAPS

Early == {"idle", "session", "touch", "connect"}
Late == {"assess", "risk", "pnl", "mandate", "record", "audit", "commit", "release"}

LEMMA AsksOf ==
  /\ Stages = Early \cup Late
  /\ \A stage \in Stages : Asks[stage] \subseteq Queries
  /\ Asks.idle = {} /\ Asks.session = {"session"} /\ Asks.touch = {"touch"} /\ Asks.connect = {"client"}
  /\ Asks.assess = {"assess"} /\ Asks.risk = {"reserve", "history", "accounting"} /\ Asks.pnl = {"pnl"}
  /\ Asks.mandate = {} /\ Asks.record = {} /\ Asks.audit = {} /\ Asks.commit = {}
  /\ Asks.release = {}
  BY DEF Stages, Asks, Early, Late, Queries

(* Where a request is, and what it holds there.                            *)
Shape(r) ==
  /\ r.needs \subseteq Asks[r.stage]
  /\ r.open \subseteq Asks[r.stage] \cup {"client"}
  /\ r.stage \in Early => "client" \notin r.open /\ r.limited
  /\ r.stage \notin {"record", "audit", "commit", "release"} => r.action = "none"
  /\ r.stage \in Late => "client" \in r.open
  /\ r.action = "BUY" => ShadowUnlimited \/ ~r.limited
  /\ r.stage = "audit" => r.wrote = {"decision"}
  /\ r.stage = "commit" => r.wrote = {"decision", "audit"}

Sound == TypeOK /\ (\A h \in Handlers : Shape(req[h])) /\ DecisionAudited

LEMMA EnterType ==
  ASSUME NEW r \in Requests, NEW stage \in Stages
  PROVE  /\ Enter(r, stage) \in Requests
         /\ Enter(r, stage).stage = stage /\ Enter(r, stage).needs = Asks[stage]
         /\ Enter(r, stage).open = r.open /\ Enter(r, stage).limited = r.limited
         /\ Enter(r, stage).ready = r.ready /\ Enter(r, stage).action = r.action
         /\ Enter(r, stage).wrote = r.wrote
<1>1. Asks[stage] \in SUBSET Queries
  BY AsksOf
<1> QED  BY <1>1 DEF Enter, Requests

LEMMA IdleType == Idle \in Requests /\ Shape(Idle)
<1>1. Idle \in Requests
  BY AsksOf DEF Idle, Requests, Early
<1>2. Shape(Idle)
  BY AsksOf DEF Idle, Shape, Early, Late
<1> QED  BY <1>1, <1>2

LEMMA SoundInit == Init => Sound
  BY IdleType DEF Init, Sound, TypeOK, DecisionAudited

(* A request that may still store a trade.                                 *)
Counts(r) == ~r.limited /\ r.stage # "release"

LEMMA QueriesFinite == IsFiniteSet(Queries)
<1>1. IsFiniteSet({"session", "touch", "client"}) /\ IsFiniteSet({"assess", "reserve", "history", "accounting", "pnl"})
  <2>1. IsFiniteSet({}) /\ \A S : IsFiniteSet(S) => \A x : IsFiniteSet(S \cup {x})
    BY FS_EmptySet, FS_AddElement
  <2>2. IsFiniteSet({} \cup {"session"} \cup {"touch"} \cup {"client"})
    BY <2>1
  <2>3. IsFiniteSet({} \cup {"assess"} \cup {"reserve"} \cup {"history"} \cup {"accounting"} \cup {"pnl"})
    BY <2>1
  <2>4. /\ {} \cup {"session"} \cup {"touch"} \cup {"client"} = {"session", "touch", "client"}
        /\ {} \cup {"assess"} \cup {"reserve"} \cup {"history"} \cup {"accounting"} \cup {"pnl"}
             = {"assess", "reserve", "history", "accounting", "pnl"}
    OBVIOUS
  <2> QED  BY <2>2, <2>3, <2>4
<1>2. Queries = {"session", "touch", "client"} \cup {"assess", "reserve", "history", "accounting", "pnl"}
  BY DEF Queries
<1> QED  BY <1>1, <1>2, FS_Union
(* A step of one request.                                                  *)
LEMMA BecomeSound ==
  ASSUME Sound, NEW h \in Handlers, NEW r \in Requests, Shape(r), Become(h, r)
  PROVE  Sound'
  BY DEF Sound, Become, TypeOK, DecisionAudited, Shape

LEMMA AcquireStep ==
  ASSUME Sound, NEW h \in Handlers, NEW q \in Queries, Acquire(h, q)
  PROVE  \E r \in Requests : /\ Become(h, r) /\ Shape(r) /\ r.open = req[h].open \cup {q}
                             /\ Counts(r) => Counts(req[h])
<1> DEFINE r == [req[h] EXCEPT !.needs = req[h].needs \ {q}, !.open = req[h].open \cup {q}]
<1>1. req[h] \in Requests /\ Shape(req[h]) /\ q \in req[h].needs
  BY DEF Sound, TypeOK, Acquire
<1>2. /\ r \in Requests /\ r.stage = req[h].stage /\ r.needs = req[h].needs \ {q} /\ r.open = req[h].open \cup {q}
      /\ r.limited = req[h].limited /\ r.action = req[h].action /\ r.wrote = req[h].wrote
  BY <1>1 DEF Requests
<1>3. Become(h, IF q = "client" THEN Enter(r, "assess") ELSE r)
  BY DEF Acquire
<1>4. "assess" \in Stages /\ req[h].stage \in Stages
  BY <1>1, AsksOf DEF Late, Requests
<1> HIDE DEF r
<1>5. CASE q = "client"
  <2>1. req[h].stage = "connect"
    BY <1>1, <1>4, <1>5, AsksOf DEF Shape, Early, Late
  <2> DEFINE e == Enter(r, "assess")
  <2>2. /\ e \in Requests /\ e.stage = "assess" /\ e.needs = {"assess"} /\ e.open = req[h].open \cup {q}
        /\ e.limited = req[h].limited /\ e.action = req[h].action
    BY <1>2, <1>4, EnterType, AsksOf
  <2>3. Become(h, e)
    BY <1>3, <1>5
  <2> HIDE DEF e
  <2>4. Shape(e)
    BY <1>1, <1>5, <2>1, <2>2, AsksOf DEF Shape, Early, Late
  <2> QED  BY <2>1, <2>2, <2>3, <2>4 DEF Counts
<1>6. CASE q # "client"
  <2>1. Shape(r)
    BY <1>1, <1>2, <1>4, <1>6 DEF Shape
  <2> QED  BY <1>2, <1>3, <1>6, <2>1 DEF Counts
<1> QED  BY <1>5, <1>6

LEMMA AnswerStep ==
  ASSUME Sound, NEW h \in Handlers, NEW q \in Queries, Answer(h, q)
  PROVE  \E r \in Requests :
           /\ Become(h, r) /\ Shape(r) /\ r.open = req[h].open \ {q}
           /\ Counts(r) => Counts(req[h]) \/ (q = "history" /\ ~Limited /\ "client" \in r.open)
<1> DEFINE open == req[h].open \ {q}
           r == [req[h] EXCEPT !.open = open,
                   !.limited = IF q = "history" THEN Limited ELSE req[h].limited,
                   !.ready = IF q = "accounting" THEN ready ELSE req[h].ready]
<1>1. req[h] \in Requests /\ Shape(req[h]) /\ q \in req[h].open /\ q # "client" /\ ready \in BOOLEAN
  BY DEF Sound, TypeOK, Answer
<1>2. Limited \in BOOLEAN
  BY DEF Limited
<1>3. /\ r \in Requests /\ r.stage = req[h].stage /\ r.needs = req[h].needs /\ r.open = open
      /\ r.limited = (IF q = "history" THEN Limited ELSE req[h].limited)
      /\ r.action = req[h].action /\ r.wrote = req[h].wrote
  BY <1>1, <1>2 DEF Requests
<1>4. Become(h, IF r.needs \cup open \subseteq {"client"} THEN Enter(r, Following(r)) ELSE r)
  BY DEF Answer
<1>5. req[h].stage \in {"session", "touch", "assess", "risk", "pnl"}
  <2>1. req[h].stage \in Stages
    BY <1>1 DEF Requests
  <2> QED  BY <1>1, <2>1, AsksOf DEF Shape, Early, Late
<1>6. q = "history" => req[h].stage = "risk"
  BY <1>1, <1>5, AsksOf DEF Shape
<1>7. req[h].stage = "risk" => "client" \in req[h].open
  BY <1>1 DEF Shape, Late
<1>8. req[h].action = "none"
  BY <1>1, <1>5 DEF Shape
<1> HIDE DEF r
<1>9. CASE ~(r.needs \cup open \subseteq {"client"})
  <2>1. Shape(r)
    BY <1>1, <1>3, <1>5, <1>6, <1>8 DEF Shape, Early, Late
  <2> QED  BY <1>1, <1>3, <1>4, <1>6, <1>7, <1>9, <2>1 DEF Counts
<1>10. CASE r.needs \cup open \subseteq {"client"}
  <2> DEFINE e == Enter(r, Following(r))
  <2>1. /\ Following(r) \in Stages
        /\ Following(r) \in Early => req[h].stage \in Early /\ Following(r) \in {"touch", "connect"}
        /\ Following(r) \in Late => req[h].stage \in Late /\ Following(r) \in {"risk", "pnl", "mandate"}
        /\ Following(r) \in Early \cup Late
    BY <1>3, <1>5, AsksOf DEF Following, Early, Late
  <2>2. /\ e \in Requests /\ e.stage = Following(r) /\ e.needs = Asks[Following(r)] /\ e.open = open
        /\ e.limited = r.limited /\ e.action = "none"
    BY <1>3, <1>8, <2>1, EnterType
  <2>3. Become(h, e)
    BY <1>4, <1>10
  <2> HIDE DEF e
  <2>4. Shape(e)
    BY <1>1, <1>3, <1>6, <1>10, <2>1, <2>2 DEF Shape, Early, Late
  <2> QED  BY <1>1, <1>3, <1>5, <1>6, <1>7, <2>2, <2>3, <2>4 DEF Counts
<1> QED  BY <1>9, <1>10

(* The steps in the transaction keep the connection, and what it counted.  *)
LEMMA RequestStep ==
  ASSUME Sound, NEW h \in Handlers, ReadMandate(h) \/ RecordDecision(h) \/ AppendAudit(h) \/ Release(h)
  PROVE  \E r \in Requests : /\ Become(h, r) /\ Shape(r)
                             /\ r.open \subseteq req[h].open
                             /\ Counts(r) => Counts(req[h])
<1>1. req[h] \in Requests /\ Shape(req[h])
  BY DEF Sound, TypeOK
<1>2. ASSUME NEW r \in Requests, NEW stage \in {"record", "audit", "commit", "release"}, Become(h, Enter(r, stage)),
             r.open = req[h].open, "client" \in r.open, r.open \subseteq {"client"}, r.limited = req[h].limited, req[h].stage # "release",
             r.action = "BUY" => ShadowUnlimited \/ ~r.limited,
             stage # "release" \/ r.action = "none", stage = "audit" => r.wrote = {"decision"}, stage = "commit" => r.wrote = {"decision", "audit"}
      PROVE  \E e \in Requests : Become(h, e) /\ Shape(e) /\ e.open \subseteq req[h].open /\ (Counts(e) => Counts(req[h]))
  <2> DEFINE e == Enter(r, stage)
  <2>1. stage \in Stages /\ Asks[stage] = {}
    BY AsksOf DEF Late
  <2>2. /\ e \in Requests /\ e.stage = stage /\ e.needs = {} /\ e.open = r.open /\ e.limited = r.limited
        /\ e.action = r.action /\ e.wrote = r.wrote
    BY <2>1, EnterType
  <2>3. Become(h, e)
    BY <1>2
  <2> HIDE DEF e
  <2>4. Shape(e)
    BY <1>2, <2>1, <2>2 DEF Shape, Early, Late
  <2> QED  BY <1>2, <2>2, <2>3, <2>4 DEF Counts
<1>3. req[h].stage \in {"mandate", "record", "audit"} => "client" \in req[h].open /\ req[h].open \subseteq {"client"}
  BY <1>1, AsksOf DEF Shape, Late
<1>4. CASE Release(h)
  BY <1>4, IdleType DEF Release, Idle, Counts
<1>5. CASE ReadMandate(h)
  <2>1. ASSUME NEW action \in {"REJECT", "BUY"}, action = "BUY" => MayBuy(req[h]),
               Become(h, Enter([req[h] EXCEPT !.action = action], "record"))
        PROVE  \E e \in Requests : Become(h, e) /\ Shape(e) /\ e.open \subseteq req[h].open /\ (Counts(e) => Counts(req[h]))
    <3> DEFINE r == [req[h] EXCEPT !.action = action]
    <3>1. r \in Requests /\ r.open = req[h].open /\ r.limited = req[h].limited /\ r.action = action
      BY <1>1 DEF Requests
    <3>2. Become(h, Enter(r, "record"))
      BY <2>1
    <3> HIDE DEF r
    <3> QED  BY <1>2, <1>3, <1>5, <2>1, <3>1, <3>2 DEF ReadMandate, MayBuy
  <2>2. CASE Become(h, Enter(req[h], "release"))
    <3>1. req[h].action = "none" /\ req[h].stage = "mandate"
      BY <1>1, <1>5 DEF ReadMandate, Shape
    <3> QED  BY <1>1, <1>2, <1>3, <2>2, <3>1
  <2> QED  BY <1>5, <2>1, <2>2 DEF ReadMandate
<1>6. CASE RecordDecision(h)
  <2> DEFINE r == [req[h] EXCEPT !.wrote = {"decision"}]
  <2>1. r \in Requests /\ r.open = req[h].open /\ r.limited = req[h].limited /\ r.action = req[h].action
        /\ r.wrote = {"decision"}
    BY <1>1 DEF Requests
  <2>2. Become(h, Enter(r, "audit"))
    BY <1>6 DEF RecordDecision
  <2> HIDE DEF r
  <2>3. req[h].action = "BUY" => ShadowUnlimited \/ ~req[h].limited
    BY <1>1 DEF Shape
  <2> QED  BY <1>2, <1>3, <1>6, <2>1, <2>2, <2>3 DEF RecordDecision
<1>7. CASE AppendAudit(h)
  <2> DEFINE r == [req[h] EXCEPT !.wrote = req[h].wrote \cup {"audit"}]
  <2>1. req[h].wrote = {"decision"}
    BY <1>1, <1>7 DEF AppendAudit, Shape
  <2>2. r \in Requests /\ r.open = req[h].open /\ r.limited = req[h].limited /\ r.action = req[h].action
        /\ r.wrote = {"decision", "audit"}
    BY <1>1, <2>1 DEF Requests
  <2>3. Become(h, Enter(r, "commit"))
    BY <1>7 DEF AppendAudit
  <2> HIDE DEF r
  <2>4. req[h].action = "BUY" => ShadowUnlimited \/ ~req[h].limited
    BY <1>1 DEF Shape
  <2> QED  BY <1>2, <1>3, <1>7, <2>2, <2>3, <2>4 DEF AppendAudit
<1> QED  BY <1>4, <1>5, <1>6, <1>7

(* COMMIT stores the decision with its audit event.                        *)
LEMMA CommitStep ==
  ASSUME Sound, NEW h \in Handlers, Commit(h)
  PROVE  /\ \E r \in Requests : /\ req' = [req EXCEPT ![h] = r] /\ Shape(r) /\ r.open = req[h].open
                                /\ r.stage = "release"
         /\ req[h].stage = "commit"
         /\ req[h].action = "BUY" => ShadowUnlimited \/ ~req[h].limited
         /\ today' \in [decisions : Nat, buys : Nat, audits : Nat]
         /\ today'.decisions = today.decisions + 1 /\ today'.audits = today.audits + 1
         /\ today'.buys = today.buys + (IF req[h].action = "BUY" THEN 1 ELSE 0)
<1>1. Shape(req[h]) /\ req[h].wrote = {"decision", "audit"} /\ today \in [decisions : Nat, buys : Nat, audits : Nat]
  BY DEF Sound, TypeOK, Commit, Shape
<1>2. today' = [Stored(req[h].action) EXCEPT !.audits = today.audits + 1]
  BY <1>1 DEF Commit
<1>3. req[h].action = "BUY" => ShadowUnlimited \/ ~req[h].limited
  BY <1>1 DEF Shape
<1> DEFINE bought == IF req[h].action = "BUY" THEN 1 ELSE 0
<1>4. bought \in Nat
  OBVIOUS
<1>5. Stored(req[h].action) = [today EXCEPT !.decisions = today.decisions + 1, !.buys = today.buys + bought]
  BY DEF Stored
<1> HIDE DEF bought
<1>6. today' = [decisions |-> today.decisions + 1, buys |-> today.buys + bought, audits |-> today.audits + 1]
  BY <1>1, <1>2, <1>5
<1>7. /\ today' \in [decisions : Nat, buys : Nat, audits : Nat]
      /\ today'.decisions = today.decisions + 1 /\ today'.audits = today.audits + 1
      /\ today'.buys = today.buys + bought
  BY <1>1, <1>4, <1>6
<1>8. \E r \in Requests : req' = [req EXCEPT ![h] = r] /\ Shape(r) /\ r.open = req[h].open /\ r.stage = "release"
  <2> DEFINE e == Enter(req[h], "release")
  <2>1. "release" \in Stages /\ req[h] \in Requests
    BY AsksOf DEF Late, Sound, TypeOK
  <2>2. /\ e \in Requests /\ e.stage = "release" /\ e.needs = {} /\ e.open = req[h].open
        /\ e.limited = req[h].limited /\ e.action = req[h].action /\ e.wrote = req[h].wrote
    BY <2>1, EnterType, AsksOf
  <2>3. req' = [req EXCEPT ![h] = e]
    BY DEF Commit
  <2>4. req[h].stage = "commit" /\ req[h].open \subseteq {"client"} /\ "client" \in req[h].open
    BY <1>1, AsksOf DEF Commit, Shape, Late
  <2> HIDE DEF e
  <2>5. Shape(e)
    BY <1>3, <2>2, <2>4, AsksOf DEF Shape, Early, Late
  <2> QED  BY <2>2, <2>3, <2>5
<1> QED  BY <1>3, <1>7, <1>8 DEF bought, Commit

(* A failed request gives up what it counted, and leaves queries behind.   *)
LEMMA FailStep ==
  ASSUME Sound, NEW h \in Handlers, Fail(h)
  PROVE  /\ \E r \in Requests : /\ req' = [req EXCEPT ![h] = r] /\ Shape(r)
                                /\ r.open \subseteq req[h].open /\ r.limited = TRUE
         /\ left' \in [waiting : Nat, open : Nat]
         /\ UNCHANGED <<today, recent, mandate, ready>>
<1>1. /\ req[h] \in Requests /\ left \in [waiting : Nat, open : Nat]
      /\ UNCHANGED <<today, recent, mandate, ready>>
  BY DEF Sound, TypeOK, Fail
<1>2. PICK failed \in SUBSET Outstanding(h) :
        /\ left' = [waiting |-> left.waiting + Cardinality((req[h].needs \ {"client"}) \ failed),
                    open |-> left.open + Cardinality((req[h].open \ {"client"}) \ failed)]
        /\ req' = [req EXCEPT ![h] = IF InTransaction(h)
                      THEN Enter([Idle EXCEPT !.open = {"client"}], "release") ELSE Idle]
  BY DEF Fail
<1>3. left' \in [waiting : Nat, open : Nat]
  <2> DEFINE w == (req[h].needs \ {"client"}) \ failed  o == (req[h].open \ {"client"}) \ failed
  <2>1. w \subseteq Queries /\ o \subseteq Queries
    BY <1>1 DEF Requests
  <2> HIDE DEF w, o
  <2>2. Cardinality(w) \in Nat /\ Cardinality(o) \in Nat
    BY <2>1, QueriesFinite, FS_Subset, FS_CardinalityType
  <2> DEFINE m == Cardinality(w)  k == Cardinality(o)
  <2>3. left' = [waiting |-> left.waiting + m, open |-> left.open + k]
    BY <1>2 DEF w, o
  <2>4. m \in Nat /\ k \in Nat
    BY <2>2
  <2> HIDE DEF m, k
  <2> QED  BY <1>1, <2>3, <2>4
<1>4. CASE ~InTransaction(h)
  BY <1>1, <1>2, <1>3, <1>4, IdleType DEF Idle
<1>5. CASE InTransaction(h)
  <2> DEFINE i == [Idle EXCEPT !.open = {"client"}]  e == Enter(i, "release")
  <2>1. /\ i \in Requests /\ i.open = {"client"} /\ i.limited = TRUE /\ i.action = "none"
        /\ "release" \in Stages
    BY IdleType, AsksOf DEF Idle, Requests, Queries, Late
  <2>2. req' = [req EXCEPT ![h] = e]
    BY <1>2, <1>5
  <2> HIDE DEF i
  <2>3. /\ e \in Requests /\ e.stage = "release" /\ e.needs = {} /\ e.open = {"client"}
        /\ e.limited = TRUE /\ e.action = "none"
    BY <2>1, EnterType, AsksOf
  <2> HIDE DEF e
  <2>4. Shape(e)
    BY <2>3, AsksOf DEF Shape, Early, Late
  <2>5. e.open \subseteq req[h].open
    BY <1>5, <2>3 DEF InTransaction
  <2> QED  BY <1>1, <1>3, <2>2, <2>3, <2>4, <2>5
<1> QED  BY <1>4, <1>5

LEMMA SoundStep == Sound /\ [Next]_vars => Sound'
<1> SUFFICES ASSUME Sound, [Next]_vars  PROVE Sound'
  OBVIOUS
<1>1. CASE UNCHANGED vars
  BY <1>1 DEF vars, Sound, TypeOK, DecisionAudited, Shape
<1>2. CASE Environment
  <2>1. req' = req
    BY <1>2 DEF Environment, MandateChanges, AccountingChanges, CooldownPasses, NewDay
  <2>2. \A h \in Handlers : Shape(req'[h])
    BY <2>1 DEF Sound
  <2>3. CASE MandateChanges
    BY <2>1, <2>2, <2>3 DEF MandateChanges, Sound, TypeOK, DecisionAudited
  <2>4. CASE AccountingChanges
    BY <2>1, <2>2, <2>4 DEF AccountingChanges, Sound, TypeOK, DecisionAudited
  <2>5. CASE CooldownPasses
    <3>1. recent' \in SUBSET {"decision", "buy"}
      BY <2>5 DEF CooldownPasses
    <3> QED  BY <2>1, <2>2, <2>5, <3>1 DEF CooldownPasses, Sound, TypeOK, DecisionAudited
  <2>6. CASE NewDay
    <3>1. today' = [decisions |-> 0, buys |-> 0, audits |-> 0]
      BY <2>6 DEF NewDay
    <3>2. today' \in [decisions : Nat, buys : Nat, audits : Nat] /\ DecisionAudited'
      BY <3>1 DEF DecisionAudited
    <3> QED  BY <2>1, <2>2, <2>6, <3>2 DEF NewDay, Sound, TypeOK
  <2> QED  BY <1>2, <2>3, <2>4, <2>5, <2>6 DEF Environment
<1>3. ASSUME NEW h \in Handlers, Arrive(h)  PROVE Sound'
  <2> DEFINE e == Enter(Idle, "session")
  <2>1. "session" \in Stages
    BY AsksOf DEF Early
  <2>2. /\ e \in Requests /\ e.stage = "session" /\ e.needs = {"session"} /\ e.open = {} /\ e.limited
        /\ e.action = "none"
    BY <2>1, EnterType, IdleType, AsksOf DEF Idle
  <2>3. Become(h, e)
    BY <1>3 DEF Arrive
  <2> HIDE DEF e
  <2>4. Shape(e)
    BY <2>2, AsksOf DEF Shape, Early, Late
  <2> QED  BY <2>2, <2>3, <2>4, BecomeSound
<1>4. ASSUME NEW h \in Handlers, NEW q \in Queries, Acquire(h, q) \/ Answer(h, q)  PROVE Sound'
  BY <1>4, AcquireStep, AnswerStep, BecomeSound
<1>5. ASSUME NEW h \in Handlers, ReadMandate(h) \/ RecordDecision(h) \/ AppendAudit(h) \/ Release(h)  PROVE Sound'
  BY <1>5, RequestStep, BecomeSound
<1>6. ASSUME NEW h \in Handlers, Commit(h)  PROVE Sound'
  <2>1. recent' \in SUBSET {"decision", "buy"} /\ mandate' = mandate /\ ready' = ready /\ left' = left
    BY <1>6 DEF Commit, Sound, TypeOK
  <2>2. req' \in [Handlers -> Requests] /\ \A g \in Handlers : Shape(req'[g])
    BY <1>6, CommitStep DEF Sound, TypeOK
  <2> QED  BY <1>6, <2>1, <2>2, CommitStep DEF Sound, TypeOK, DecisionAudited
<1>7. ASSUME NEW h \in Handlers, Fail(h)  PROVE Sound'
  <2>1. req' \in [Handlers -> Requests] /\ \A g \in Handlers : Shape(req'[g])
    <3>1. PICK r \in Requests : req' = [req EXCEPT ![h] = r] /\ Shape(r)
      BY <1>7, FailStep
    <3> QED  BY <3>1 DEF Sound, TypeOK
  <2> QED  BY <1>7, <2>1, FailStep DEF Sound, TypeOK, DecisionAudited
<1>8. CASE ServeLeft
  <2>1. left' \in [waiting : Nat, open : Nat]
    <3> DEFINE w == left.waiting  o == left.open
    <3>1. /\ left \in [waiting : Nat, open : Nat] /\ w \in Nat /\ o \in Nat
          /\ (w > 0 /\ left' = [waiting |-> w - 1, open |-> o + 1]) \/ (o > 0 /\ left' = [waiting |-> w, open |-> o - 1])
      BY <1>8 DEF ServeLeft, AcquireLeft, AnswerLeft, Sound, TypeOK
    <3> HIDE DEF w, o
    <3> QED  BY <3>1
  <2>2. UNCHANGED <<req, today, recent, mandate, ready>>
    BY <1>8 DEF ServeLeft, AcquireLeft, AnswerLeft
  <2> QED  BY <2>1, <2>2 DEF Sound, TypeOK, DecisionAudited, Shape
<1> QED
  BY <1>1, <1>2, <1>3, <1>4, <1>5, <1>6, <1>7, <1>8 DEF Next, Serve

LEMMA SoundAlways == Spec => []Sound
  BY SoundInit, SoundStep, PTL DEF Spec

(* The requests, what is stored and the environment keep their types.      *)
THEOREM TypeCorrect == Spec => []TypeOK
<1>1. Sound => TypeOK
  BY DEF Sound
<1> QED  BY <1>1, SoundAlways, PTL

(* A decision and its audit event are stored together or not at all.       *)
THEOREM DecisionsAudited == Spec => []DecisionAudited
<1>1. Sound => DecisionAudited
  BY DEF Sound
<1> QED  BY <1>1, SoundAlways, PTL

-----------------------------------------------------------------------------
(* The daily limit.                                                        *)
Eligible == {h \in Handlers : Counts(req[h])}
Clients == {h \in Handlers : InTransaction(h)}

Budgeted ==
  /\ Cardinality(InUse) <= PoolSize
  /\ ~ShadowUnlimited =>
       /\ today.buys <= today.decisions
       /\ today.buys + Cardinality(Eligible) <= MaxTrades + PoolSize - 2
       /\ today.buys + Cardinality(Eligible) <= MaxTrades + Cardinality(Handlers) - 1

LEMMA EligibleFinite ==
  /\ IsFiniteSet(Eligible) /\ Cardinality(Eligible) \in Nat
  /\ Cardinality(Eligible) <= Cardinality(Handlers) /\ Cardinality(Handlers) \in Nat
  /\ IsFiniteSet(InUse) /\ Cardinality(InUse) \in Nat
<1>1. Eligible \subseteq Handlers /\ IsFiniteSet(Handlers)
  BY HandlersFinite DEF Eligible
<1>2. IsFiniteSet(Queries)
  BY QueriesFinite
<1>3. IsFiniteSet(Handlers \X Queries)
  BY <1>1, <1>2, FS_Product
<1>4. InUse \subseteq Handlers \X Queries
  BY DEF InUse
<1> QED  BY <1>1, <1>3, <1>4, FS_Subset, FS_CardinalityType

(* A request that counted less than the limit is in its transaction.       *)
LEMMA EligibleInTransaction == Sound => Eligible \subseteq Clients
<1> SUFFICES ASSUME Sound, NEW h \in Handlers, ~req[h].limited  PROVE "client" \in req[h].open
  BY DEF Eligible, Counts, Clients, InTransaction
<1>1. req[h] \in Requests /\ Shape(req[h])
  BY DEF Sound, TypeOK
<1>2. req[h].stage \in Early \cup Late
  BY <1>1, AsksOf DEF Requests
<1> QED  BY <1>1, <1>2 DEF Shape

(* While one request reads its history, at most PoolSize - 1 are in theirs *)
(* (each holds a connection, and the read holds one more).                 *)
LEMMA ClientsBounded ==
  ASSUME Sound, NEW h \in Handlers, "history" \in req[h].open
  PROVE  IsFiniteSet(Clients) /\ Cardinality(Clients) \in Nat /\ Cardinality(Clients) + 1 <= Cardinality(InUse)
<1> DEFINE held == {<<g, "client">> : g \in Clients}
           f == [g \in Clients |-> <<g, "client">>]
<1>1. Clients \subseteq Handlers /\ IsFiniteSet(Clients)
  <2>1. Clients \subseteq Handlers
    BY DEF Clients
  <2> QED  BY <2>1, HandlersFinite, FS_Subset
<1>2. f \in Bijection(Clients, held)
  BY DEF Bijection, Injection, Surjection, IsInjective
<1>3. IsFiniteSet(held) /\ Cardinality(held) = Cardinality(Clients)
  <2>1. ExistsBijection(Clients, held)
    BY <1>2 DEF ExistsBijection
  <2> HIDE DEF held, f
  <2> QED  BY <1>1, <2>1, FS_Bijection
<1>4. held \cup {<<h, "history">>} \subseteq InUse
  <2>1. "client" \in Queries /\ "history" \in Queries
    BY DEF Queries
  <2> QED  BY <1>1, <2>1 DEF InUse, Clients, InTransaction
<1>5. <<h, "history">> \notin held
  OBVIOUS
<1> HIDE DEF held
<1>6. IsFiniteSet(held \cup {<<h, "history">>}) /\ Cardinality(held \cup {<<h, "history">>}) = Cardinality(held) + 1
  BY <1>3, <1>5, FS_AddElement
<1>7. Cardinality(held \cup {<<h, "history">>}) <= Cardinality(InUse)
  BY <1>4, EligibleFinite, FS_Subset
<1> QED  BY <1>1, <1>3, <1>6, <1>7, FS_CardinalityType

(* A step of one request that opens no connection and counts no trade.     *)
LEMMA KeepsBudget ==
  ASSUME Sound, Budgeted, NEW h \in Handlers, NEW r \in Requests, req' = [req EXCEPT ![h] = r], today' = today,
         r.open \subseteq req[h].open, Counts(r) => Counts(req[h])
  PROVE  Budgeted'
<1>1. req \in [Handlers -> Requests] /\ req' = [req EXCEPT ![h] = r] /\ today' = today
  BY DEF Sound, TypeOK
<1>2. InUse' \subseteq InUse
  BY <1>1 DEF InUse
<1>3. Eligible' \subseteq Eligible
  BY <1>1 DEF Eligible
<1>4. Cardinality(InUse') <= Cardinality(InUse) /\ Cardinality(InUse') \in Nat
  BY <1>2, EligibleFinite, FS_Subset, FS_CardinalityType
<1>5. Cardinality(Eligible') <= Cardinality(Eligible) /\ Cardinality(Eligible') \in Nat
  BY <1>3, EligibleFinite, FS_Subset, FS_CardinalityType
<1>6. today \in [decisions : Nat, buys : Nat, audits : Nat]
  BY DEF Sound, TypeOK
<1>7. /\ today.buys \in Nat /\ MaxTrades \in Nat /\ PoolSize \in Nat /\ Cardinality(Eligible) \in Nat
      /\ Cardinality(InUse) \in Nat /\ Cardinality(Handlers) \in Nat
  BY <1>6, EligibleFinite, MaxTradesPositive, PoolSizePositive
<1> DEFINE few == Cardinality(Eligible)  less == Cardinality(Eligible')  used == Cardinality(InUse)  now == Cardinality(InUse')
<1>8. /\ now <= used /\ less <= few /\ now \in Nat /\ less \in Nat /\ few \in Nat /\ used \in Nat
      /\ used <= PoolSize
      /\ ~ShadowUnlimited =>
           /\ today.buys <= today.decisions
           /\ today.buys + few <= MaxTrades + PoolSize - 2
           /\ today.buys + few <= MaxTrades + Cardinality(Handlers) - 1
  BY <1>4, <1>5, <1>7 DEF Budgeted
<1> HIDE DEF few, less, used, now
<1>9. /\ now <= PoolSize
      /\ ~ShadowUnlimited =>
           /\ today.buys <= today.decisions
           /\ today.buys + less <= MaxTrades + PoolSize - 2
           /\ today.buys + less <= MaxTrades + Cardinality(Handlers) - 1
  BY <1>7, <1>8
<1> QED  BY <1>1, <1>9 DEF less, now, Budgeted

LEMMA AcquireBudget ==
  ASSUME Sound, Budgeted, NEW h \in Handlers, NEW q \in Queries, Acquire(h, q)
  PROVE  Budgeted'
<1>1. PICK r \in Requests : Become(h, r) /\ r.open = req[h].open \cup {q} /\ (Counts(r) => Counts(req[h]))
  BY AcquireStep
<1>2. req \in [Handlers -> Requests] /\ req' = [req EXCEPT ![h] = r] /\ today' = today
  BY <1>1 DEF Sound, TypeOK, Become
<1>3. InUse' \subseteq InUse \cup {<<h, q>>} /\ Eligible' \subseteq Eligible
  BY <1>1, <1>2 DEF InUse, Eligible
<1>4. Cardinality(InUse) + 1 <= PoolSize
  <2>1. left.open \in Nat /\ Cardinality(InUse) + left.open < PoolSize
    BY DEF Acquire, FreeConnection, Sound, TypeOK
  <2> QED  BY <2>1, EligibleFinite, PoolSizePositive
<1>5. IsFiniteSet(InUse \cup {<<h, q>>}) /\ Cardinality(InUse \cup {<<h, q>>}) <= Cardinality(InUse) + 1
  <2>1. CASE <<h, q>> \in InUse
    <3>1. InUse \cup {<<h, q>>} = InUse
      BY <2>1
    <3> QED  BY <3>1, EligibleFinite
  <2>2. CASE <<h, q>> \notin InUse
    <3>1. /\ IsFiniteSet(InUse \cup {<<h, q>>})
          /\ Cardinality(InUse \cup {<<h, q>>}) = Cardinality(InUse) + 1
      BY <2>2, EligibleFinite, FS_AddElement
    <3> QED  BY <3>1, EligibleFinite
  <2> QED  BY <2>1, <2>2
<1>6. Cardinality(InUse') <= Cardinality(InUse \cup {<<h, q>>}) /\ Cardinality(InUse') \in Nat
  BY <1>3, <1>5, FS_Subset, FS_CardinalityType
<1>7. Cardinality(InUse \cup {<<h, q>>}) \in Nat
  BY <1>5, FS_CardinalityType
<1>8. Cardinality(InUse') <= PoolSize
  <2> DEFINE a == Cardinality(InUse')  b == Cardinality(InUse \cup {<<h, q>>})  c == Cardinality(InUse)
  <2>1. a \in Nat /\ b \in Nat /\ c \in Nat /\ PoolSize \in Nat /\ c + 1 <= PoolSize /\ b <= c + 1 /\ a <= b
    BY <1>4, <1>5, <1>6, <1>7, EligibleFinite, PoolSizePositive
  <2> HIDE DEF a, b, c
  <2>2. a <= PoolSize
    BY <2>1
  <2> QED  BY <2>2 DEF a
<1>9. Cardinality(Eligible') <= Cardinality(Eligible) /\ Cardinality(Eligible') \in Nat
  BY <1>3, EligibleFinite, FS_Subset, FS_CardinalityType
<1> DEFINE few == Cardinality(Eligible)  less == Cardinality(Eligible')  n == Cardinality(Handlers)
<1>10. /\ few \in Nat /\ less \in Nat /\ less <= few /\ n \in Nat /\ today.buys \in Nat /\ MaxTrades \in Nat
       /\ PoolSize \in Nat
       /\ ~ShadowUnlimited => /\ today.buys <= today.decisions
                              /\ today.buys + few <= MaxTrades + PoolSize - 2
                              /\ today.buys + few <= MaxTrades + n - 1
  BY <1>2, <1>9, EligibleFinite, MaxTradesPositive, PoolSizePositive DEF Budgeted, Sound, TypeOK
<1> HIDE DEF few, less, n
<1>11. ~ShadowUnlimited => /\ today.buys <= today.decisions
                           /\ today.buys + less <= MaxTrades + PoolSize - 2
                           /\ today.buys + less <= MaxTrades + n - 1
  BY <1>10
<1> QED  BY <1>2, <1>8, <1>11 DEF Budgeted, less, n

(* A count below the limit makes the request eligible; so far no more      *)
(* trades are stored than decisions.                                       *)
LEMMA CountBudget ==
  ASSUME Sound, Sound', Budgeted, NEW h \in Handlers, Answer(h, "history")
  PROVE  Budgeted'
<1>1. PICK r \in Requests : /\ Become(h, r) /\ r.open = req[h].open \ {"history"}
                            /\ Counts(r) => Counts(req[h]) \/ ~Limited
  <2>1. "history" \in Queries
    BY DEF Queries
  <2> QED  BY <2>1, AnswerStep
<1>2. req \in [Handlers -> Requests] /\ req' = [req EXCEPT ![h] = r] /\ today' = today
      /\ today \in [decisions : Nat, buys : Nat, audits : Nat]
  BY <1>1 DEF Sound, TypeOK, Become
<1>3. CASE Counts(r) => Counts(req[h])
  BY <1>1, <1>2, <1>3, KeepsBudget
<1>4. CASE ~Limited
  <2>1. today.decisions < MaxTrades
    <3>1. ~(today.decisions >= MaxTrades)
      BY <1>4 DEF Limited
    <3> QED  BY <1>2, <3>1, MaxTradesPositive
  <2>2. InUse' \subseteq InUse
    BY <1>1, <1>2 DEF InUse
  <2>3. Cardinality(InUse') <= Cardinality(InUse) /\ Cardinality(InUse') \in Nat
    BY <2>2, EligibleFinite, FS_Subset, FS_CardinalityType
  <2>4. Clients' \subseteq Clients
    BY <1>1, <1>2 DEF Clients, InTransaction
  <2>5. Eligible' \subseteq Clients' /\ Eligible' \subseteq Handlers
    <3>1. (Eligible \subseteq Clients)'
      BY EligibleInTransaction, PTL
    <3> QED  BY <3>1 DEF Eligible
  <2>6. "history" \in req[h].open
    BY DEF Answer
  <2>7. IsFiniteSet(Clients) /\ Cardinality(Clients) \in Nat /\ Cardinality(Clients) + 1 <= Cardinality(InUse)
    BY <2>6, ClientsBounded
  <2>8. Eligible' \subseteq Clients
    BY <2>4, <2>5
  <2>9. Cardinality(Eligible') <= Cardinality(Clients) /\ Cardinality(Eligible') <= Cardinality(Handlers)
        /\ Cardinality(Eligible') \in Nat
    BY <2>5, <2>7, <2>8, HandlersFinite, FS_Subset, FS_CardinalityType
  <2> DEFINE e == Cardinality(Eligible')  c == Cardinality(Clients)  u == Cardinality(InUse)  v == Cardinality(InUse')
             n == Cardinality(Handlers)
  <2>10. /\ e \in Nat /\ c \in Nat /\ u \in Nat /\ v \in Nat /\ n \in Nat /\ PoolSize \in Nat /\ MaxTrades \in Nat
         /\ today.buys \in Nat /\ today.decisions \in Nat /\ today.decisions < MaxTrades
         /\ v <= u /\ u <= PoolSize /\ c + 1 <= u /\ e <= c /\ e <= n
         /\ ~ShadowUnlimited => today.buys <= today.decisions
    BY <1>2, <2>1, <2>3, <2>7, <2>9, EligibleFinite, PoolSizePositive, MaxTradesPositive DEF Budgeted
  <2> HIDE DEF e, c, u, v, n
  <2>11. /\ v <= PoolSize
         /\ ~ShadowUnlimited => /\ today.buys <= today.decisions
                                /\ today.buys + e <= MaxTrades + PoolSize - 2
                                /\ today.buys + e <= MaxTrades + n - 1
    BY <2>10
  <2> QED  BY <1>2, <2>11 DEF e, v, n, Budgeted
<1> QED  BY <1>1, <1>3, <1>4

(* An eligible request stops being one when its trade is stored.           *)
LEMMA CommitBudget ==
  ASSUME Sound, Budgeted, NEW h \in Handlers, Commit(h)
  PROVE  Budgeted'
<1> PICK r \in Requests : req' = [req EXCEPT ![h] = r] /\ r.open = req[h].open /\ r.stage = "release"
  BY CommitStep
<1>1. /\ req \in [Handlers -> Requests] /\ req' = [req EXCEPT ![h] = r]
      /\ today \in [decisions : Nat, buys : Nat, audits : Nat]
      /\ r.open = req[h].open /\ r.stage = "release"
  BY DEF Sound, TypeOK
<1>2. InUse' \subseteq InUse
  BY <1>1 DEF InUse
<1>3. Cardinality(InUse') <= Cardinality(InUse) /\ Cardinality(InUse') \in Nat
  BY <1>2, EligibleFinite, FS_Subset, FS_CardinalityType
<1>4. Eligible' = Eligible \ {h}
  BY <1>1 DEF Eligible, Counts
<1>5. Cardinality(Eligible') = (IF h \in Eligible THEN Cardinality(Eligible) - 1 ELSE Cardinality(Eligible))
  BY <1>4, EligibleFinite, FS_RemoveElement
<1>6. Cardinality(Eligible') \in Nat
  BY <1>4, EligibleFinite, FS_RemoveElement, FS_CardinalityType
<1>7. req[h].action = "BUY" /\ ~ShadowUnlimited => h \in Eligible
  BY CommitStep DEF Eligible, Counts
<1> DEFINE e == Cardinality(Eligible)  f == Cardinality(Eligible')  u == Cardinality(InUse)  v == Cardinality(InUse')
           n == Cardinality(Handlers)
<1>8. /\ e \in Nat /\ f \in Nat /\ u \in Nat /\ v \in Nat /\ n \in Nat /\ PoolSize \in Nat /\ MaxTrades \in Nat
      /\ today.buys \in Nat /\ today.decisions \in Nat /\ today'.buys \in Nat
      /\ v <= u /\ u <= PoolSize /\ today'.decisions = today.decisions + 1
      /\ today'.buys <= today.buys + 1
      /\ ~ShadowUnlimited => today'.buys + f <= today.buys + e
  <2>1. CASE req[h].action = "BUY"
    BY <1>1, <1>3, <1>5, <1>6, <1>7, <2>1, CommitStep, EligibleFinite, PoolSizePositive, MaxTradesPositive DEF Budgeted
  <2>2. CASE req[h].action # "BUY"
    BY <1>1, <1>3, <1>5, <1>6, <2>2, CommitStep, EligibleFinite, PoolSizePositive, MaxTradesPositive DEF Budgeted
  <2> QED  BY <2>1, <2>2
<1>9. ~ShadowUnlimited => /\ today.buys <= today.decisions
                          /\ today.buys + e <= MaxTrades + PoolSize - 2
                          /\ today.buys + e <= MaxTrades + n - 1
  BY DEF Budgeted
<1> HIDE DEF e, f, u, v, n
<1>10. /\ v <= PoolSize
       /\ ~ShadowUnlimited => /\ today'.buys <= today'.decisions
                              /\ today'.buys + f <= MaxTrades + PoolSize - 2
                              /\ today'.buys + f <= MaxTrades + n - 1
  BY <1>8, <1>9
<1> QED  BY <1>10 DEF f, v, n, Budgeted

LEMMA BudgetInit == Init => Budgeted
<1> SUFFICES ASSUME Init  PROVE Budgeted
  OBVIOUS
<1>1. InUse = {} /\ Eligible = {} /\ today.buys = 0 /\ today.decisions = 0
  BY DEF Init, Idle, InUse, Eligible, Counts
<1>2. Cardinality(InUse) = 0 /\ Cardinality(Eligible) = 0
  BY <1>1, FS_EmptySet
<1> QED  BY <1>1, <1>2, EligibleFinite, PoolSizePositive, MaxTradesPositive DEF Budgeted

LEMMA BudgetStep == Sound /\ Sound' /\ Budgeted /\ [Next]_vars => Budgeted'
<1> SUFFICES ASSUME Sound, Sound', Budgeted, [Next]_vars  PROVE Budgeted'
  OBVIOUS
<1>1. CASE UNCHANGED vars
  BY <1>1 DEF vars, Budgeted, InUse, Eligible, Counts
<1>2. CASE Environment
  <2>1. InUse' = InUse /\ Eligible' = Eligible
    BY <1>2 DEF Environment, MandateChanges, AccountingChanges, CooldownPasses, NewDay, InUse, Eligible, Counts
  <2>2. CASE today' = today
    BY <2>1, <2>2 DEF Budgeted
  <2>3. CASE NewDay
    <3>1. \A g \in Handlers : req[g] \in Requests /\ Shape(req[g])
      BY DEF Sound, TypeOK
    <3>2. Eligible = {}
      BY <2>3, <3>1 DEF NewDay, InFlight, Eligible, Counts, Shape, Early
    <3>3. Cardinality(Eligible) = 0 /\ today'.buys = 0 /\ today'.decisions = 0
      BY <2>3, <3>2, FS_EmptySet DEF NewDay
    <3> QED  BY <2>1, <3>3, EligibleFinite, PoolSizePositive, MaxTradesPositive DEF Budgeted
  <2> QED  BY <1>2, <2>2, <2>3 DEF Environment, MandateChanges, AccountingChanges, CooldownPasses
<1>3. ASSUME NEW h \in Handlers, Arrive(h)  PROVE Budgeted'
  <2> DEFINE e == Enter(Idle, "session")
  <2>1. "session" \in Stages
    BY AsksOf DEF Early
  <2>2. e \in Requests /\ e.open = {} /\ e.limited = TRUE
    BY <2>1, EnterType, IdleType DEF Idle
  <2>3. Become(h, e)
    BY <1>3 DEF Arrive
  <2> HIDE DEF e
  <2> QED  BY <2>2, <2>3, KeepsBudget DEF Become, Counts
<1>4. ASSUME NEW h \in Handlers, NEW q \in Queries, Acquire(h, q)  PROVE Budgeted'
  BY <1>4, AcquireBudget
<1>5. ASSUME NEW h \in Handlers, NEW q \in Queries, Answer(h, q)  PROVE Budgeted'
  <2>1. CASE q = "history"
    BY <1>5, <2>1, CountBudget
  <2>2. CASE q # "history"
    <3>1. PICK r \in Requests : /\ Become(h, r) /\ r.open = req[h].open \ {q}
                                /\ Counts(r) => Counts(req[h]) \/ q = "history"
      BY <1>5, AnswerStep
    <3> QED  BY <2>2, <3>1, KeepsBudget DEF Become
  <2> QED  BY <2>1, <2>2
<1>6. ASSUME NEW h \in Handlers, ReadMandate(h) \/ RecordDecision(h) \/ AppendAudit(h) \/ Release(h)  PROVE Budgeted'
  BY <1>6, RequestStep, KeepsBudget DEF Become
<1>7. ASSUME NEW h \in Handlers, Commit(h)  PROVE Budgeted'
  BY <1>7, CommitBudget
<1>8. ASSUME NEW h \in Handlers, Fail(h)  PROVE Budgeted'
  BY <1>8, FailStep, KeepsBudget DEF Counts
<1>9. CASE ServeLeft
  <2>1. InUse' = InUse /\ Eligible' = Eligible /\ today' = today
    BY <1>9 DEF ServeLeft, AcquireLeft, AnswerLeft, InUse, Eligible, Counts
  <2> QED  BY <2>1 DEF Budgeted
<1> QED
  BY <1>1, <1>2, <1>3, <1>4, <1>5, <1>6, <1>7, <1>8, <1>9 DEF Next, Serve

(* With the shadow mode's exemption off, no more than one trade per        *)
(* request at once, and PoolSize - 2 in all, exceeds the daily limit.      *)
THEOREM OvershootIsBounded == Spec => []OvershootBounded
<1>1. Sound /\ Budgeted => OvershootBounded
  <2> SUFFICES ASSUME Sound, Budgeted, ~ShadowUnlimited  PROVE OvershootBounded
    BY DEF OvershootBounded
  <2> DEFINE e == Cardinality(Eligible)  n == Cardinality(Handlers)
  <2>1. /\ today.buys + e <= MaxTrades + PoolSize - 2 /\ today.buys + e <= MaxTrades + n - 1
        /\ e \in Nat /\ n \in Nat /\ today.buys \in Nat /\ MaxTrades \in Nat /\ PoolSize \in Nat
    BY EligibleFinite, MaxTradesPositive, PoolSizePositive DEF Budgeted, Sound, TypeOK
  <2> HIDE DEF e, n
  <2>2. today.buys < MaxTrades + n /\ today.buys <= MaxTrades + PoolSize - 2
    BY <2>1
  <2> QED  BY <2>2 DEF OvershootBounded, n
<1>2. Init => Budgeted
  BY BudgetInit
<1>3. Sound /\ Sound' /\ Budgeted /\ [Next]_vars => Budgeted'
  BY BudgetStep
<1> QED  BY <1>1, <1>2, <1>3, SoundAlways, PTL DEF Spec
=============================================================================
