--------------------------- MODULE ServicesProofs ---------------------------
(***************************************************************************)
(* What the small components that fetch, probe, simulate, dispatch, deploy,*)
(* report and show keep, for any keys, candidates, followers and tokens.   *)
(***************************************************************************)
EXTENDS MarketCache, EvidenceCollection, MarketProbe, Rollout, ShadowSimulation, FollowerSnapshot,
        ExecutionDispatch, WebPages, FiniteSetTheorems, SequenceTheorems, TLAPS

-----------------------------------------------------------------------------
(* Caches.  A market entry is as old as its request and so older than what *)
(* it holds; a portfolio is younger than that by a fetch at most.          *)
Entry == [read : Int, since : Int]
Aged(k, entry) == entry # Empty =>
  /\ entry.read >= 0
  /\ Cache[k] = "portfolio" => entry.since <= entry.read + Latency
  /\ Cache[k] # "portfolio" => entry.since <= entry.read

Fetches == [key : Keys, start : Nat, entry : Entry, read : Int]

Timely(r) ==
  /\ r.start <= time /\ time <= r.start + Latency
  /\ r.read # -1 => r.start <= r.read /\ r.read <= time
  /\ Aged(r.key, r.entry)

CacheKept ==
  /\ time \in Nat
  /\ entries \in [Keys -> Entry] /\ \A k \in Keys : Aged(k, entries[k])
  /\ order \in Seq(Keys) /\ Len(order) <= Entries

TimelyAt(a) == Asks(a) => Timely(asker[a])

CacheInv ==
  /\ CacheKept
  /\ asker \in [Askers -> Fetches \cup {NoRequest}]
  /\ \A a \in Askers : TimelyAt(a)
  /\ AnswersAged

(* A request is made, goes on or ends.                                     *)
LEMMA AskerStep ==
  ASSUME CacheInv, NEW a \in Askers, NEW r \in Fetches \cup {NoRequest}, asker' = [asker EXCEPT ![a] = r],
         time' = time, r # NoRequest => Timely(r), CacheKept', AnswersAged'
  PROVE  CacheInv'
<1>1. asker \in [Askers -> Fetches \cup {NoRequest}]
  BY DEF CacheInv
<1>2. asker' \in [Askers -> Fetches \cup {NoRequest}] /\ \A b \in Askers : asker'[b] = IF b = a THEN r ELSE asker[b]
  BY <1>1
<1>3. ASSUME NEW b \in Askers  PROVE TimelyAt(b)'
  <2>1. CASE b = a
    <3>1. asker'[b] = r
      BY <1>2, <2>1
    <3>2. r # NoRequest => Timely(asker[b])'
      BY <3>1 DEF Timely, Aged
    <3> QED  BY <3>1, <3>2 DEF TimelyAt, Asks
  <2>2. CASE b # a
    <3>1. asker'[b] = asker[b] /\ TimelyAt(b)
      BY <1>2, <2>2 DEF CacheInv
    <3> QED  BY <3>1 DEF TimelyAt, Timely, Asks, Aged
  <2> QED  BY <2>1, <2>2
<1> QED  BY <1>2, <1>3 DEF CacheInv

LEMMA CacheStep == CacheInv /\ [CacheNext]_cacheVars => CacheInv'
<1> SUFFICES ASSUME CacheInv, [CacheNext]_cacheVars  PROVE CacheInv'
  OBVIOUS
<1>t. /\ time \in Nat /\ Fresh \in Nat /\ Stale \in Nat /\ Latency \in Nat /\ Entries \in Nat \ {0}
      /\ entries \in [Keys -> Entry] /\ asker \in [Askers -> Fetches \cup {NoRequest}]
      /\ order \in Seq(Keys) /\ Len(order) <= Entries
      /\ \A k \in Keys : Aged(k, entries[k])
      /\ CacheKept
  BY TimesNat, EntriesNat DEF CacheInv, CacheKept
<1>a. ASSUME NEW a \in Askers, Asks(a)  PROVE Timely(asker[a]) /\ asker[a] \in Fetches
  BY <1>a DEF CacheInv, TimelyAt, Asks
<1>c. \A k \in Keys : Cache[k] \in {"token", "discovery", "portfolio"}
  BY KeysHaveCaches
<1>1. CASE UNCHANGED cacheVars
  BY <1>1 DEF cacheVars, CacheInv, CacheKept, TimelyAt, Timely, Aged, Asks, AnswersAged
<1>2. CASE Clock
  <2>1. time' = time + 1 /\ entries' = entries /\ order' = order /\ asker' = asker /\ answer' = NoAnswer
    BY <1>2 DEF Clock
  <2>2. AnswersAged'
    BY <1>t, <2>1 DEF AnswersAged, NoAnswer
  <2>3. ASSUME NEW a \in Askers, Asks(a)'  PROVE Timely(asker[a])'
    <3>1. Asks(a) /\ asker'[a] = asker[a] /\ time < asker[a].start + Latency
      BY <1>2, <2>1, <2>3 DEF Clock, Asks
    <3>2. asker[a] \in Fetches /\ Timely(asker[a])
      BY <1>a, <3>1
    <3>3. asker[a].start \in Nat /\ asker[a].read \in Int
      BY <3>2 DEF Fetches
    <3> QED  BY <1>t, <2>1, <3>1, <3>2, <3>3 DEF Timely, Aged
  <2>4. CacheKept'
    BY <1>t, <2>1 DEF CacheKept, Aged
  <2> QED  BY <1>t, <2>1, <2>2, <2>3, <2>4 DEF CacheInv, TimelyAt
<1>3. ASSUME NEW a \in Askers, NEW k \in Keys, NEW force \in BOOLEAN, Ask(a, k, force)  PROVE CacheInv'
  <2>1. time' = time /\ entries' = entries /\ order' = order
    BY <1>3 DEF Ask
  <2>2. CacheKept'
    BY <1>t, <2>1 DEF CacheKept, Aged
  <2>3. CASE Hit(entries[k]) /\ ~force
    <3>1. asker' = asker /\ answer' = [label |-> Cache[k], age |-> time - entries[k].read]
      BY <1>3, <2>3 DEF Ask
    <3>2. entries[k] \in Entry /\ Aged(k, entries[k]) /\ entries[k] # Empty /\ time < entries[k].since + Fresh
      BY <1>t, <2>3 DEF Hit
    <3>3. entries[k].read \in Int /\ entries[k].since \in Int
      BY <3>2 DEF Entry
    <3>4. Cache[k] # "portfolio" => time - entries[k].read < Fresh
      BY <1>t, <3>2, <3>3 DEF Aged
    <3>5. Cache[k] = "portfolio" => time - entries[k].read < Fresh + Latency
      BY <1>t, <3>2, <3>3 DEF Aged
    <3>6. answer'.label = Cache[k] /\ answer'.age = time - entries[k].read
      BY <3>1
    <3>7. AnswersAged'
      BY <1>c, <1>t, <2>1, <3>4, <3>5, <3>6 DEF AnswersAged
    <3>8. \A b \in Askers : TimelyAt(b)'
      BY <2>1, <3>1 DEF CacheInv, TimelyAt, Timely, Asks, Aged
    <3> QED  BY <1>t, <2>2, <3>1, <3>7, <3>8 DEF CacheInv
  <2>4. CASE ~(Hit(entries[k]) /\ ~force)
    <3> DEFINE r == [key |-> k, start |-> time, entry |-> entries[k], read |-> -1]
    <3>1. asker' = [asker EXCEPT ![a] = r] /\ answer' = NoAnswer
      BY <1>3, <2>4 DEF Ask
    <3>2. r \in Fetches /\ Timely(r)
      BY <1>t DEF Fetches, Timely
    <3>3. AnswersAged'
      BY <1>t, <2>1, <3>1 DEF AnswersAged, NoAnswer
    <3> HIDE DEF r
    <3> QED  BY <2>1, <2>2, <3>1, <3>2, <3>3, AskerStep
  <2> QED  BY <2>3, <2>4
<1>4. ASSUME NEW a \in Askers, SourceReads(a)  PROVE CacheInv'
  <2> DEFINE r == [asker[a] EXCEPT !.read = time]
  <2>1. /\ time' = time /\ entries' = entries /\ order' = order /\ answer' = NoAnswer /\ Asks(a)
        /\ asker' = [asker EXCEPT ![a] = r]
    BY <1>4 DEF SourceReads
  <2>2. asker[a] \in Fetches /\ Timely(asker[a])
    BY <1>a, <2>1
  <2>3. r \in Fetches /\ r.read = time /\ r.start = asker[a].start /\ r.key = asker[a].key /\ r.entry = asker[a].entry
    BY <1>t, <2>2 DEF Fetches
  <2> HIDE DEF r
  <2>4. Timely(r)
    BY <1>t, <2>2, <2>3 DEF Timely
  <2>5. CacheKept' /\ AnswersAged'
    BY <1>t, <2>1 DEF CacheKept, Aged, AnswersAged, NoAnswer
  <2> QED  BY <2>1, <2>3, <2>4, <2>5, AskerStep
<1>5. ASSUME NEW a \in Askers, Deliver(a)  PROVE CacheInv'
  <2> DEFINE r == asker[a]  keys == Inserted(r.key)  new == [read |-> r.read, since |-> Since(r)]
  <2>1. /\ Asks(a) /\ r.read # -1 /\ time' = time /\ order' = Kept(keys)
        /\ entries' = [k \in Keys |-> IF k = r.key THEN new
                                     ELSE IF Cache[k] = "token" /\ ~Contained(Kept(keys), k) THEN Empty ELSE entries[k]]
        /\ answer' = [label |-> "fetched", age |-> time - r.read]
        /\ asker' = [asker EXCEPT ![a] = NoRequest]
    BY <1>5 DEF Deliver
  <2>2. r \in Fetches /\ Timely(r)
    BY <1>a, <2>1
  <2>3. r.read \in Int /\ r.start \in Nat /\ r.key \in Keys
    BY <2>2 DEF Fetches
  <2>4. r.start <= r.read /\ r.read <= time /\ time <= r.start + Latency
    BY <2>1, <2>2 DEF Timely
  <2> HIDE DEF r
  <2>5. new \in Entry /\ Aged(r.key, new)
    <3>1. Since(r) = IF Cache[r.key] = "portfolio" THEN time ELSE r.start
      BY DEF Since
    <3> DEFINE since == Since(r)
    <3>2. since \in Int /\ (Cache[r.key] = "portfolio" => since <= r.read + Latency)
          /\ (Cache[r.key] # "portfolio" => since <= r.read)
      BY <1>t, <2>3, <2>4, <3>1
    <3> HIDE DEF since
    <3>3. [read |-> r.read, since |-> since] \in Entry /\ Aged(r.key, [read |-> r.read, since |-> since])
      BY <2>3, <2>4, <3>2 DEF Entry, Aged
    <3> QED  BY <3>3 DEF since
  <2>6. Empty \in Entry
    BY DEF Empty, Entry
  <2> HIDE DEF new
  <2>7. entries' \in [Keys -> Entry]
    BY <1>t, <2>1, <2>5, <2>6
  <2>8. ASSUME NEW k \in Keys  PROVE Aged(k, entries'[k])
    <3>1. entries'[k] \in {Empty, entries[k]} \/ (k = r.key /\ entries'[k] = new)
      BY <2>1
    <3> QED  BY <1>t, <2>5, <3>1 DEF Aged
  <2>9. order' \in Seq(Keys) /\ Len(order') <= Entries
    <3>1. keys \in Seq(Keys) /\ Len(keys) <= Entries + 1
      BY <1>t, <2>3 DEF Inserted
    <3> HIDE DEF keys
    <3> QED  BY <1>t, <2>1, <3>1 DEF Kept
  <2>10. CacheKept'
    BY <1>t, <2>1, <2>7, <2>8, <2>9 DEF CacheKept, Aged
  <2>11. AnswersAged'
    <3>1. answer'.label = "fetched" /\ answer'.age = time - r.read
      BY <2>1
    <3>2. time - r.read <= Latency
      BY <1>t, <2>3, <2>4
    <3> QED  BY <2>9, <3>1, <3>2 DEF AnswersAged
  <2> QED  BY <2>1, <2>10, <2>11, AskerStep
<1>6. ASSUME NEW a \in Askers, NEW mismatch \in BOOLEAN, FailFetch(a, mismatch)  PROVE CacheInv'
  <2> DEFINE r == asker[a]
             stale == r.entry # Empty /\ r.start < r.entry.since + Fresh + Stale /\ Excused(r.key, mismatch)
  <2>1. /\ Asks(a) /\ time' = time /\ entries' = entries /\ order' = order
        /\ answer' = (IF stale THEN [label |-> "stale", age |-> time - r.entry.read] ELSE NoAnswer)
        /\ asker' = [asker EXCEPT ![a] = NoRequest]
    BY <1>6 DEF FailFetch
  <2>2. r \in Fetches /\ Timely(r)
    BY <1>a, <2>1
  <2>3. r.start \in Nat /\ r.key \in Keys /\ r.entry \in Entry /\ r.entry.read \in Int /\ r.entry.since \in Int
    BY <2>2 DEF Fetches, Entry
  <2>4. stale => time - r.entry.read < Fresh + Stale + Latency
    <3> SUFFICES ASSUME stale  PROVE time - r.entry.read < Fresh + Stale + Latency
      OBVIOUS
    <3>1. r.entry # Empty /\ r.start < r.entry.since + Fresh + Stale /\ Cache[r.key] # "portfolio"
      BY <1>c, <2>3 DEF Excused
    <3>2. time <= r.start + Latency /\ Aged(r.key, r.entry)
      BY <2>2 DEF Timely
    <3> HIDE DEF r
    <3>3. r.entry.since <= r.entry.read
      BY <3>1, <3>2 DEF Aged
    <3> DEFINE s == r.start  e == r.entry.since  d == r.entry.read
    <3>4. s \in Nat /\ e \in Int /\ d \in Int /\ s < e + Fresh + Stale /\ time <= s + Latency /\ e <= d
      BY <2>3, <3>1, <3>2, <3>3
    <3> HIDE DEF s, e, d
    <3>5. time - d < Fresh + Stale + Latency
      BY TimesNat, <1>t, <3>4
    <3> QED  BY <3>5 DEF d
  <2> HIDE DEF r, stale
  <2>5. AnswersAged'
    BY <1>t, <2>1, <2>4 DEF AnswersAged, NoAnswer
  <2>6. CacheKept'
    BY <1>t, <2>1 DEF CacheKept, Aged
  <2> QED  BY <2>1, <2>5, <2>6, AskerStep
<1> QED
  BY <1>1, <1>2, <1>3, <1>4, <1>5, <1>6 DEF CacheNext

(* Every answer is as young as its label says, for any keys, caches, times *)
(* and number of requests.                                                 *)
THEOREM AnswersAreAged == CacheSpec => []AnswersAged
<1>1. CacheInit => CacheInv
  <2> SUFFICES ASSUME CacheInit  PROVE CacheInv
    OBVIOUS
  <2>1. entries \in [Keys -> Entry] /\ \A k \in Keys : Aged(k, entries[k])
    BY DEF CacheInit, Entry, Aged, Empty
  <2>2. AnswersAged
    BY EntriesNat DEF CacheInit, AnswersAged, NoAnswer
  <2> QED  BY <2>1, <2>2, EntriesNat DEF CacheInit, CacheInv, CacheKept, TimelyAt, Asks
<1>2. CacheInv => AnswersAged
  BY DEF CacheInv
<1> QED  BY <1>1, <1>2, CacheStep, PTL DEF CacheSpec

-----------------------------------------------------------------------------
(* Deployments.  At each step of vm-deploy-current-main-shadow.sh, what the *)
(* steps before it have made sure of.                                      *)
Jobs == [script : Scripts \cup {"none"}, at : Nat, expected : Nat, fetched : Nat, backup : BOOLEAN,
         before : Nat, armed : BOOLEAN]

Whole(commit) == [head |-> commit, api |-> commit, index |-> commit, caddyfile |-> commit]

Careful ==
  /\ job.at \in 1 .. 8 /\ ~job.armed
  /\ job.at >= 3 => job.backup
  /\ job.at >= 4 => job.fetched = job.expected
  /\ job.at >= 5 => tree = Whole(job.expected)
  /\ job.at >= 7 => job.expected \in tested

Deploys == job.script = "current_main"

RolloutInv ==
  /\ main \in Nat /\ job \in Jobs
  /\ tree \in [head : Nat, api : Nat, index : Nat, caddyfile : Nat]
  /\ Deploys => Careful

LEMMA DeploySteps ==
  ASSUME Deploys, job.at \in 1 .. 8
  PROVE  /\ Len(Steps["current_main"]) = 8
         /\ job # NoJob
         /\ IsAt("require") => job.at = 1
         /\ IsAt("backup") => job.at = 2
         /\ IsAt("fetch") => job.at = 3
         /\ IsAt("merge") => job.at = 4
         /\ IsAt("smoke") => job.at = 6
         /\ IsAt("build") => job.at = 7
         /\ IsAt("validate") \/ IsAt("verify") => job.at \in {5, 8}
         /\ ~IsAt("checkout") /\ ~IsAt("arm") /\ ~IsAt("disarm") /\ ~IsAt("install") /\ ~IsAt("reload")
<1>1. Steps["current_main"] = CurrentMain
  BY DEF Steps
<1>2. job # NoJob
  BY DEF Deploys, NoJob
<1>3. Current = CurrentMain[job.at]
  BY <1>1 DEF Current, Deploys
<1>4. /\ CurrentMain[1] = "require" /\ CurrentMain[2] = "backup" /\ CurrentMain[3] = "fetch"
      /\ CurrentMain[4] = "merge" /\ CurrentMain[5] = "validate" /\ CurrentMain[6] = "smoke"
      /\ CurrentMain[7] = "build" /\ CurrentMain[8] = "verify" /\ Len(CurrentMain) = 8
  BY DEF CurrentMain
<1>5. job.at \in {1, 2, 3, 4, 5, 6, 7, 8}
  OBVIOUS
<1> QED  BY <1>1, <1>2, <1>3, <1>4, <1>5 DEF IsAt

(* The script goes on with what the step established, or has ended.        *)
LEMMA DeployGoes ==
  ASSUME NEW next \in Jobs, Go(next),
         next.script = "current_main" => /\ next.at \in 1 .. 8 /\ ~next.armed
                                         /\ next.at >= 2 => next.backup
                                         /\ next.at >= 3 => next.fetched = next.expected
                                         /\ next.at >= 4 => tree' = Whole(next.expected)
                                         /\ next.at >= 6 => next.expected \in tested'
  PROVE  job' \in Jobs /\ (Deploys' => Careful')
<1>0. Len(Steps["current_main"]) = 8
  BY DEF Steps, CurrentMain
<1>1. CASE job' = NoJob
  BY <1>1 DEF Jobs, NoJob, Deploys
<1>2. CASE job' # NoJob
  <2>1. job' = [next EXCEPT !.at = next.at + 1] /\ next.at < Len(Steps[next.script])
    BY <1>2 DEF Go
  <2>2. /\ job' \in Jobs /\ job'.script = next.script /\ job'.at = next.at + 1 /\ job'.armed = next.armed
        /\ job'.backup = next.backup /\ job'.fetched = next.fetched /\ job'.expected = next.expected
    BY <2>1 DEF Jobs
  <2>3. CASE next.script = "current_main"
    <3>1. next.at < 8
      BY <1>0, <2>1, <2>3
    <3>2. next.at \in 1 .. 7 /\ job'.at \in 2 .. 8
      BY <2>2, <2>3, <3>1
    <3> QED  BY <2>2, <2>3, <3>1, <3>2 DEF Careful
  <2> QED  BY <2>2, <2>3 DEF Deploys
<1> QED  BY <1>1, <1>2

LEMMA RolloutStep == RolloutInv /\ [RolloutNext]_rolloutVars => RolloutInv'
<1> SUFFICES ASSUME RolloutInv, [RolloutNext]_rolloutVars  PROVE RolloutInv'
  OBVIOUS
<1> USE DEF RolloutInv
<1>0. ASSUME Deploys  PROVE job.at \in 1 .. 8 /\ Careful
  BY <1>0 DEF Careful
<1>1. CASE UNCHANGED rolloutVars
  BY <1>1 DEF rolloutVars, Deploys, Careful
<1>2. CASE Push
  BY <1>2 DEF Push, Deploys, Careful
<1>3. ASSUME NEW script \in Scripts, NEW expected \in 1 .. MaxMain, StartScript(script, expected)  PROVE RolloutInv'
  <2>1. job' = [NoJob EXCEPT !.script = script, !.at = 1, !.expected = expected] /\ main' = main /\ tree' = tree
    BY <1>3 DEF StartScript
  <2>2. job' \in Jobs /\ job'.at = 1 /\ ~job'.armed
    <3>1. job' = [script |-> script, at |-> 1, expected |-> expected, fetched |-> 0, backup |-> FALSE,
                  before |-> 0, armed |-> FALSE]
      BY <2>1 DEF NoJob
    <3>2. expected \in Nat
      BY RolloutBounds
    <3>3. job' \in Jobs
      BY <3>1, <3>2 DEF Jobs
    <3> QED  BY <3>1, <3>3
  <2> QED  BY <2>1, <2>2 DEF Careful
<1>4. CASE Look
  <2>1. Go(job) /\ main' = main /\ tree' = tree /\ tested' = tested
        /\ (IsAt("require") \/ IsAt("validate") \/ IsAt("verify"))
    BY <1>4 DEF Look
  <2>2. Deploys => job.at \in {1, 5, 8}
    BY <1>0, <2>1, DeploySteps
  <2> QED  BY <1>0, <2>1, <2>2, DeployGoes DEF Deploys, Careful
<1>5. CASE Backup
  <2> DEFINE next == [job EXCEPT !.backup = TRUE]
  <2>1. Go(next) /\ main' = main /\ tree' = tree /\ tested' = tested /\ IsAt("backup")
    BY <1>5 DEF Backup
  <2>2. Deploys => job.at = 2
    BY <1>0, <2>1, DeploySteps
  <2>3. next \in Jobs /\ next.script = job.script /\ next.at = job.at /\ next.armed = job.armed /\ next.backup
        /\ next.fetched = job.fetched /\ next.expected = job.expected
    BY DEF Jobs
  <2> HIDE DEF next
  <2> QED  BY <1>0, <2>1, <2>2, <2>3, DeployGoes DEF Deploys, Careful
<1>6. CASE Fetch
  <2> DEFINE next == [job EXCEPT !.fetched = main]
  <2>1. Go(next) /\ main' = main /\ tree' = tree /\ tested' = tested /\ IsAt("fetch") /\ Approved(main)
    BY <1>6 DEF Fetch
  <2>2. Deploys => job.at = 3 /\ main = job.expected
    BY <1>0, <2>1, DeploySteps DEF Approved, Deploys
  <2>3. next \in Jobs /\ next.script = job.script /\ next.at = job.at /\ next.armed = job.armed /\ next.fetched = main
        /\ next.backup = job.backup /\ next.expected = job.expected
    BY DEF Jobs
  <2> HIDE DEF next
  <2> QED  BY <1>0, <2>1, <2>2, <2>3, DeployGoes DEF Deploys, Careful
<1>7. CASE Merge
  <2>1. Go(job) /\ main' = main /\ tree' = Whole(job.fetched) /\ tested' = tested /\ IsAt("merge")
    BY <1>7 DEF Merge, Whole
  <2>2. Deploys => job.at = 4
    BY <1>0, <2>1, DeploySteps
  <2>3. tree' \in [head : Nat, api : Nat, index : Nat, caddyfile : Nat]
    BY <2>1 DEF Whole, Jobs
  <2> QED  BY <1>0, <2>1, <2>2, <2>3, DeployGoes DEF Deploys, Careful
<1>8. CASE Checkout
  <2> DEFINE next == [job EXCEPT !.before = tree.api]
  <2>1. Go(next) /\ main' = main /\ tested' = tested /\ IsAt("checkout") /\ tree' \in [head : Nat, api : Nat, index : Nat, caddyfile : Nat]
    BY <1>8 DEF Checkout, Jobs
  <2>2. ~Deploys
    BY <1>0, <2>1, DeploySteps
  <2>3. next \in Jobs /\ next.script = job.script
    BY DEF Jobs
  <2> HIDE DEF next
  <2> QED  BY <2>1, <2>2, <2>3, DeployGoes DEF Deploys
<1>9. CASE Smoke
  <2>1. Go(job) /\ main' = main /\ tree' = tree /\ tested' = tested \cup {tree.head} /\ IsAt("smoke")
    BY <1>9 DEF Smoke
  <2>2. Deploys => job.at = 6
    BY <1>0, <2>1, DeploySteps
  <2>3. Deploys => tree.head = job.expected
    BY <1>0, <2>2 DEF Careful, Whole
  <2> QED  BY <1>0, <2>1, <2>2, <2>3, DeployGoes DEF Deploys, Careful
<1>10. CASE Build
  <2>1. Go(job) /\ main' = main /\ tree' = tree /\ tested' = tested /\ IsAt("build")
    BY <1>10 DEF Build
  <2>2. Deploys => job.at = 7
    BY <1>0, <2>1, DeploySteps
  <2> QED  BY <1>0, <2>1, <2>2, DeployGoes DEF Deploys, Careful
<1>11. CASE Install \/ Reload
  <2>1. Go(job) /\ main' = main /\ tree' = tree /\ tested' = tested /\ (IsAt("install") \/ IsAt("reload"))
    BY <1>11 DEF Install, Reload
  <2>2. ~Deploys
    BY <1>0, <2>1, DeploySteps
  <2> QED  BY <2>1, <2>2, DeployGoes DEF Deploys
<1>12. CASE Arm
  <2> DEFINE next == [job EXCEPT !.armed = (Current = "arm")]
  <2>1. Go(next) /\ main' = main /\ tree' = tree /\ tested' = tested /\ (IsAt("arm") \/ IsAt("disarm"))
    BY <1>12 DEF Arm
  <2>2. ~Deploys
    BY <1>0, <2>1, DeploySteps
  <2>3. next \in Jobs /\ next.script = job.script
    BY DEF Jobs
  <2> HIDE DEF next
  <2> QED  BY <2>1, <2>2, <2>3, DeployGoes DEF Deploys
<1>13. CASE Err \/ FailCheck \/ Terminate
  <2>1. main' = main /\ (job' = NoJob \/ job' = job)
    BY <1>13 DEF Err, FailCheck, Terminate, Stop, Unchanged, RestoreSource, RestoreCaddyfile
  <2>2. tree' = tree \/ tree' = [tree EXCEPT !.api = job.before]
    BY <1>13 DEF Err, FailCheck, Terminate, Unchanged, RestoreSource, RestoreCaddyfile
  <2>3. tree' \in [head : Nat, api : Nat, index : Nat, caddyfile : Nat]
    BY <2>2 DEF Jobs
  <2>4. CASE job' = NoJob
    BY <2>1, <2>3, <2>4 DEF NoJob, Jobs, Deploys
  <2>5. CASE job' # NoJob
    <3>1. job.armed /\ job' = job
      BY <1>13, <2>5 DEF Err, FailCheck, Terminate, Stop
    <3>2. ~Deploys
      BY <1>0, <3>1 DEF Careful
    <3> QED  BY <2>1, <2>3, <3>1, <3>2 DEF Deploys
  <2> QED  BY <2>4, <2>5
<1> QED
  BY <1>1, <1>2, <1>3, <1>4, <1>5, <1>6, <1>7, <1>8, <1>9, <1>10, <1>11, <1>12, <1>13 DEF RolloutNext

(* vm-deploy-current-main-shadow.sh recreates the API only of the whole    *)
(* approved and smoke-tested commit, after a backup, however many commits  *)
(* are pushed and scripts run.                                             *)
THEOREM DeploysAreTested == RolloutSpec => RolloutTested
<1>1. RolloutInit => RolloutInv
  BY DEF RolloutInit, RolloutInv, NoJob, Jobs, Deploys
<1>2. ASSUME RolloutInv, [RolloutNext]_rolloutVars, Deploys, served' # served
      PROVE  /\ served' = [head |-> job.expected, api |-> job.expected]
             /\ job.expected \in tested /\ job.backup
  <2>1. Careful /\ job.at \in 1 .. 8 /\ ~job.armed
    BY <1>2 DEF RolloutInv, Careful
  <2>2. Build
    BY <1>2, <2>1 DEF RolloutNext, rolloutVars, Push, StartScript, Look, Backup, Fetch, Merge, Checkout, Smoke,
         Install, Arm, Reload, Err, FailCheck, Terminate, Unchanged, RestoreCaddyfile
  <2>3. job.at = 7 /\ served' = [head |-> tree.head, api |-> tree.api]
    BY <1>2, <2>1, <2>2, DeploySteps DEF Build
  <2> QED  BY <2>1, <2>3 DEF Careful, Whole
<1> QED  BY <1>1, <1>2, RolloutStep, PTL DEF RolloutSpec, RolloutTested, Deploys
-----------------------------------------------------------------------------
(* Evidence.  The pages read so far are the newest signatures of the       *)
(* moment of the first one, down to a depth of so many pages.              *)
Collection == [pc : {"none", "page", "record", "recorded"}, top : Nat, rows : SUBSET Nat, before : Int, pages : Nat,
               complete : BOOLEAN, newest : Nat]

Depth(r) == r.pages * PageSize
Newest(top, depth) == {n \in 1 .. top : n > top - depth}

Paged(r) ==
  /\ r.pc = "page" => /\ r.pages < MaxPages
                      /\ r.pages = 0 => r.rows = {}
                      /\ r.pages > 0 => /\ r.top <= chain /\ Depth(r) <= r.top
                                        /\ r.rows = Newest(r.top, Depth(r)) /\ r.before = r.top - Depth(r) + 1
  /\ r.pc \in {"record", "recorded"} =>
       /\ r.pages <= MaxPages /\ r.rows = Newest(r.top, Depth(r))
       /\ r.complete => r.top < Depth(r)
       /\ ~r.complete => r.pages = MaxPages /\ Depth(r) <= r.top
  /\ r.pc = "recorded" => (r.rows # {} => Slot(r.newest) = Slot(r.top))

PagedAt(c) == Paged(coll[c])

CollectionInv == chain \in Nat /\ coll \in [Collections -> Collection] /\ \A c \in Collections : PagedAt(c)

LEMMA PagesNat == {PageSize, MaxPages} \subseteq Nat \ {0} /\ PageSize \in Nat /\ MaxPages \in Nat /\ PageSize > 0 /\ MaxPages > 0
BY CollectionBounds

(* A page below a signature: the PageSize signatures from it on, or all.   *)
LEMMA PageBelow ==
  ASSUME NEW top \in Nat, NEW above \in Nat, above <= top
  PROVE  LET page == {n \in 1 .. top : n <= above /\ n > above - PageSize} IN
         /\ (Cardinality(page) = PageSize) <=> above >= PageSize
         /\ above >= PageSize => Oldest(page) = above - PageSize + 1
<1> DEFINE page == {n \in 1 .. top : n <= above /\ n > above - PageSize}
<1>1. CASE above >= PageSize
  <2>1. page = (above - PageSize + 1) .. above
    BY <1>1, PagesNat
  <2> DEFINE low == above - PageSize + 1
  <2>2. Cardinality(page) = PageSize
    <3>1. low \in Int /\ low <= above /\ above - low + 1 = PageSize
      BY <1>1, PagesNat
    <3> HIDE DEF low
    <3>2. Cardinality(low .. above) = above - low + 1
      BY <3>1, FS_Interval
    <3> QED  BY <2>1, <3>1, <3>2 DEF low
  <2>3. low \in page /\ \A m \in page : low <= m
    BY <1>1, <2>1, PagesNat
  <2>4. \A n \in page : (\A m \in page : n <= m) => n = low
    BY <1>1, <2>1, <2>3, PagesNat
  <2> HIDE DEF page, low
  <2>5. Oldest(page) = low
    BY <2>3, <2>4 DEF Oldest
  <2> QED  BY <1>1, <2>2, <2>5 DEF page, low
<1>2. CASE above < PageSize
  <2>1. page = 1 .. above
    BY <1>2, PagesNat
  <2>2. Cardinality(1 .. above) = above
    BY FS_Interval
  <2>3. Cardinality(page) = above
    BY <2>1, <2>2
  <2> HIDE DEF page
  <2>4. Cardinality(page) # PageSize
    BY <1>2, <2>3, PagesNat
  <2> QED  BY <1>2, <2>4, PagesNat DEF page
<1> QED  BY <1>1, <1>2, PagesNat

LEMMA Deeper == ASSUME NEW pages \in Nat  PROVE (pages + 1) * PageSize = pages * PageSize + PageSize
BY PagesNat

LEMMA NoDeeper == ASSUME NEW pages \in Nat, pages <= MaxPages
                  PROVE  pages * PageSize <= PageSize * MaxPages /\ MaxPages * PageSize = PageSize * MaxPages
                         /\ pages * PageSize \in Nat
BY PagesNat

LEMMA CollectionRows ==
  ASSUME CollectionInv, NEW c \in Collections, NEW r \in Collection, Paged(r), CollectionStep(c, r)
  PROVE  CollectionInv'
<1>1. coll' = [coll EXCEPT ![c] = r] /\ chain' = chain /\ coll \in [Collections -> Collection]
  BY DEF CollectionStep, CollectionInv
<1>2. coll' \in [Collections -> Collection] /\ \A d \in Collections : coll'[d] = IF d = c THEN r ELSE coll[d]
  BY <1>1
<1>3. ASSUME NEW d \in Collections  PROVE PagedAt(d)'
  <2>1. CASE d = c
    <3>1. coll'[d] = r
      BY <1>2, <2>1
    <3> QED  BY <1>1, <3>1 DEF PagedAt, Paged
  <2>2. CASE d # c
    <3>1. coll'[d] = coll[d] /\ PagedAt(d)
      BY <1>2, <2>2 DEF CollectionInv
    <3> QED  BY <1>1, <3>1 DEF PagedAt, Paged
  <2> QED  BY <2>1, <2>2
<1> QED  BY <1>1, <1>2, <1>3 DEF CollectionInv

LEMMA FetchKept == ASSUME CollectionInv, NEW c \in Collections, FetchPage(c)  PROVE CollectionInv'
<1> DEFINE r == coll[c]
           page == Page(r)
           full == Cardinality(page) = PageSize
           top == IF r.pages = 0 THEN chain ELSE r.top
           above == top - Depth(r)
           new == [r EXCEPT
             !.top = IF r.pages = 0 THEN chain ELSE @,
             !.rows = @ \cup page,
             !.before = IF full THEN Oldest(page) ELSE @,
             !.pages = @ + 1,
             !.complete = ~full,
             !.pc = IF full /\ r.pages + 1 < MaxPages THEN "page" ELSE "record"]
<1>1. r \in Collection /\ Paged(r) /\ chain \in Nat
  BY DEF CollectionInv, PagedAt
<1>2. r.pc = "page" /\ CollectionStep(c, new)
  BY DEF FetchPage
<1>3. r.pages \in Nat /\ r.top \in Nat /\ r.rows \in SUBSET Nat /\ r.before \in Int
  BY <1>1 DEF Collection
<1> HIDE DEF r
<1>4. Depth(r) \in Nat /\ (r.pages = 0 => Depth(r) = 0)
  BY <1>3, PagesNat DEF Depth
<1>5. top \in Nat /\ above \in Nat /\ above <= top /\ top <= chain /\ r.pages < MaxPages
      /\ r.rows = Newest(top, Depth(r)) /\ page = {n \in 1 .. chain : n <= above /\ n > above - PageSize}
  <2>1. CASE r.pages = 0
    <3>1. above = chain /\ top = chain
      BY <1>1, <1>4, <2>1
    <3>2. page = {n \in 1 .. chain : n <= chain /\ n > chain - PageSize}
      BY <2>1 DEF Page
    <3>3. r.rows = {} /\ r.pages < MaxPages
      BY <1>1, <1>2, <2>1 DEF Paged
    <3>4. Newest(chain, 0) = {}
      BY <1>1 DEF Newest
    <3> QED  BY <1>1, <1>4, <2>1, <3>1, <3>2, <3>3, <3>4
  <2>2. CASE r.pages # 0
    <3>1. /\ r.pages < MaxPages /\ r.top <= chain /\ Depth(r) <= r.top
          /\ r.rows = Newest(r.top, Depth(r)) /\ r.before = r.top - Depth(r) + 1
      BY <1>1, <1>2, <1>3, <2>2 DEF Paged
    <3>2. top = r.top /\ above = r.before - 1
      BY <1>3, <1>4, <2>2, <3>1
    <3>3. page = {n \in 1 .. chain : n <= r.before - 1 /\ n > r.before - 1 - PageSize}
      BY <2>2 DEF Page
    <3> QED  BY <1>3, <1>4, <3>1, <3>2, <3>3
  <2> QED  BY <2>1, <2>2
<1>6. /\ full <=> above >= PageSize
      /\ full => Oldest(page) = above - PageSize + 1
  <2>1. above \in Nat /\ above <= chain /\ chain \in Nat
    BY <1>1, <1>5
  <2> QED  BY <1>5, <2>1, PageBelow
<1>7. page \in SUBSET Nat
  BY <1>1, <1>5
<1> DEFINE deep == Depth(r)
<1>8. above = top - deep /\ deep \in Nat
  BY <1>4
<1> HIDE DEF page, above, deep
<1>9. /\ new \in Collection
      /\ new.pc = (IF full /\ r.pages + 1 < MaxPages THEN "page" ELSE "record")
      /\ new.top = top /\ new.rows = r.rows \cup page /\ new.pages = r.pages + 1 /\ new.complete = ~full
      /\ full => new.before = above - PageSize + 1
  <2>1. full => Oldest(page) \in Int
    BY <1>5, <1>6, PagesNat
  <2> DEFINE before == IF full THEN Oldest(page) ELSE r.before  complete == ~full
             pc == IF full /\ r.pages + 1 < MaxPages THEN "page" ELSE "record"
             rows == r.rows \cup page
  <2>2. /\ before \in Int /\ complete \in BOOLEAN /\ pc \in {"page", "record"} /\ top \in Nat
        /\ rows \in SUBSET Nat /\ r.pages + 1 \in Nat
    BY <1>3, <1>5, <1>7, <2>1
  <2>3. full => before = above - PageSize + 1
    BY <1>6
  <2>4. new = [r EXCEPT !.top = top, !.rows = rows, !.before = before, !.pages = r.pages + 1,
                        !.complete = complete, !.pc = pc]
    BY <1>1, <1>3 DEF Collection
  <2> HIDE DEF new, top, before, complete, pc, rows
  <2>5. /\ new \in Collection /\ new.pc = pc /\ new.top = top /\ new.rows = rows
        /\ new.pages = r.pages + 1 /\ new.complete = complete /\ new.before = before
    BY <1>1, <2>2, <2>4 DEF Collection
  <2> QED  BY <2>3, <2>5 DEF pc, complete, rows
<1> HIDE DEF new, top, full
<1>10. Depth(new) = deep + PageSize
  BY <1>3, <1>9, Deeper DEF Depth, deep
<1>11. new.rows = Newest(top, deep + PageSize)
  BY <1>1, <1>5, <1>8, <1>9, PagesNat DEF Newest, deep
<1>12. Paged(new)
  <2>1. CASE full /\ r.pages + 1 < MaxPages
    <3>1. new.pc = "page" /\ new.pages = r.pages + 1 /\ new.pages > 0 /\ new.pages < MaxPages /\ new.top <= chain
      BY <1>3, <1>5, <1>9, <2>1
    <3>2. Depth(new) <= new.top /\ new.before = new.top - Depth(new) + 1
      BY <1>5, <1>6, <1>8, <1>9, <1>10, <2>1, PagesNat
    <3> QED  BY <1>2, <1>9, <1>10, <1>11, <3>1, <3>2 DEF Paged, CollectionStep
  <2>2. CASE ~(full /\ r.pages + 1 < MaxPages)
    <3>1. new.pc = "record" /\ new.pages <= MaxPages
      BY <1>3, <1>5, <1>9, <2>2, PagesNat
    <3>2. (new.complete => ~full) /\ (~new.complete => full)
      BY <1>9
    <3>3. ~full => new.top < Depth(new)
      <4>1. ~full => above < PageSize
        BY <1>5, <1>6, PagesNat
      <4> QED  BY <1>5, <1>8, <1>9, <1>10, <4>1, PagesNat
    <3>4. full => new.pages = MaxPages
      BY <1>3, <1>5, <1>9, <2>2, PagesNat
    <3>5. full => Depth(new) <= new.top
      <4>1. full => above >= PageSize
        BY <1>6
      <4> QED  BY <1>5, <1>8, <1>9, <1>10, <4>1, PagesNat
    <3> QED  BY <1>9, <1>10, <1>11, <3>1, <3>2, <3>3, <3>4, <3>5 DEF Paged
  <2> QED  BY <2>1, <2>2
<1> QED  BY <1>2, <1>9, <1>12, CollectionRows

LEMMA RecordKept == ASSUME CollectionInv, NEW c \in Collections, Record(c)  PROVE CollectionInv'
<1> DEFINE r == coll[c]
<1>1. r \in Collection /\ Paged(r) /\ chain \in Nat
  BY DEF CollectionInv, PagedAt
<1>2. PICK n \in IF r.rows = {} THEN {0} ELSE First(r.rows) : CollectionStep(c, [r EXCEPT !.pc = "recorded", !.newest = n])
  BY DEF Record
<1>3. r.pc = "record"
  BY DEF Record
<1>4. r.top \in Nat /\ r.pages \in Nat /\ r.rows \in SUBSET Nat
  BY <1>1 DEF Collection
<1> HIDE DEF r
<1>5. n \in Nat /\ (r.rows # {} => n \in r.rows /\ \A m \in r.rows : Slot(m) <= Slot(n))
  BY <1>2, <1>4 DEF First
<1> DEFINE new == [r EXCEPT !.pc = "recorded", !.newest = n]
<1>6. /\ new \in Collection /\ new.pc = "recorded" /\ new.newest = n /\ new.top = r.top /\ new.rows = r.rows
      /\ new.pages = r.pages /\ new.complete = r.complete
  BY <1>1, <1>5 DEF Collection
<1>7. r.rows = Newest(r.top, Depth(r)) /\ Depth(r) \in Nat
  BY <1>1, <1>3, <1>4, PagesNat DEF Paged, Depth
<1>8. r.rows # {} => Slot(n) = Slot(r.top)
  <2> SUFFICES ASSUME r.rows # {}  PROVE Slot(n) = Slot(r.top)
    OBVIOUS
  <2>1. n \in 1 .. r.top /\ r.top \in r.rows
    BY <1>4, <1>5, <1>7 DEF Newest
  <2>2. Slot(r.top) <= Slot(n)
    BY <1>5, <2>1
  <2> DEFINE top == r.top
  <2>3. top \in Nat /\ n \in 1 .. top
    BY <1>4, <2>1
  <2> HIDE DEF top
  <2>4. (n + 1) \div 2 <= (top + 1) \div 2
    BY <2>3
  <2>5. (n + 1) \div 2 \in Int /\ (top + 1) \div 2 \in Int
    BY <2>3
  <2> QED  BY <2>2, <2>4, <2>5 DEF Slot, top
<1>9. CollectionStep(c, new)
  BY <1>2
<1> HIDE DEF new
<1>10. Paged(new)
  <2>1. Depth(new) = Depth(r)
    BY <1>6 DEF Depth
  <2> QED  BY <1>1, <1>3, <1>6, <1>8, <2>1 DEF Paged
<1> QED  BY <1>6, <1>9, <1>10, CollectionRows

LEMMA CollectionKept == CollectionInv /\ [CollectionNext]_collectionVars => CollectionInv'
<1> SUFFICES ASSUME CollectionInv, [CollectionNext]_collectionVars  PROVE CollectionInv'
  OBVIOUS
<1>1. CASE UNCHANGED collectionVars
  BY <1>1 DEF collectionVars, CollectionInv, PagedAt, Paged
<1>2. CASE Arrive
  <2>1. chain' = chain + 1 /\ coll' = coll /\ chain \in Nat
    BY <1>2 DEF Arrive, CollectionInv
  <2>2. ASSUME NEW c \in Collections  PROVE PagedAt(c)'
    <3>1. coll[c] \in Collection /\ Paged(coll[c])
      BY DEF CollectionInv, PagedAt
    <3>2. coll[c].top \in Nat
      BY <3>1 DEF Collection
    <3> QED  BY <2>1, <3>1, <3>2 DEF PagedAt, Paged
  <2> QED  BY <2>1, <2>2 DEF CollectionInv
<1>3. CASE ReviewTrader
  BY <1>3 DEF ReviewTrader, CollectionInv, PagedAt, Paged
<1>4. ASSUME NEW c \in Collections, LoadTrader(c)  PROVE CollectionInv'
  <2> DEFINE new == [NoCollection EXCEPT !.pc = "page"]
  <2>1. NoCollection \in Collection /\ NoCollection.pages = 0 /\ NoCollection.rows = {}
    BY DEF NoCollection, Collection
  <2>4. new \in Collection /\ new.pc = "page" /\ new.pages = 0 /\ new.rows = {}
    BY <2>1 DEF Collection
  <2>2. CollectionStep(c, new)
    BY <1>4 DEF LoadTrader
  <2> HIDE DEF new
  <2>3. Paged(new)
    BY <2>4, PagesNat DEF Paged
  <2> QED  BY <2>2, <2>3, <2>4, CollectionRows
<1>5. ASSUME NEW c \in Collections, Abort(c)  PROVE CollectionInv'
  <2>1. NoCollection \in Collection /\ NoCollection.pc = "none"
    BY DEF NoCollection, Collection
  <2>2. CollectionStep(c, NoCollection)
    BY <1>5 DEF Abort
  <2>3. Paged(NoCollection)
    BY <2>1 DEF Paged
  <2> QED  BY <2>1, <2>2, <2>3, CollectionRows
<1> QED  BY <1>1, <1>2, <1>3, <1>4, <1>5, FetchKept, RecordKept DEF CollectionNext

(* A recorded collection holds exactly the newest signatures of the moment *)
(* its first page was read, for any sizes of pages and any number of       *)
(* signatures that arrive meanwhile.                                       *)
THEOREM CollectionsAreComplete == CollectionSpec => []CollectionComplete
<1>1. CollectionInit => CollectionInv
  <2> SUFFICES ASSUME CollectionInit  PROVE CollectionInv
    OBVIOUS
  <2>1. NoCollection \in Collection /\ Paged(NoCollection)
    BY DEF NoCollection, Collection, Paged
  <2> QED  BY <2>1 DEF CollectionInit, CollectionInv, PagedAt
<1>2. CollectionInv => CollectionComplete
  <2> SUFFICES ASSUME CollectionInv, NEW c \in Collections, coll[c].pc = "recorded"
               PROVE  /\ coll[c].rows = {n \in 1 .. coll[c].top : n > coll[c].top - PageSize * MaxPages}
                      /\ coll[c].complete <=> coll[c].top < PageSize * MaxPages
                      /\ coll[c].rows # {} => Slot(coll[c].newest) = Slot(coll[c].top)
    BY DEF CollectionComplete
  <2> DEFINE r == coll[c]
  <2>1. r \in Collection /\ Paged(r) /\ r.pc = "recorded"
    BY DEF CollectionInv, PagedAt
  <2>2. r.top \in Nat /\ r.pages \in Nat /\ r.complete \in BOOLEAN
    BY <2>1 DEF Collection
  <2> HIDE DEF r
  <2>3. /\ r.pages <= MaxPages /\ r.rows = Newest(r.top, Depth(r))
        /\ r.complete => r.top < Depth(r)
        /\ ~r.complete => r.pages = MaxPages /\ Depth(r) <= r.top
        /\ r.rows # {} => Slot(r.newest) = Slot(r.top)
    BY <2>1 DEF Paged
  <2> DEFINE deep == Depth(r)  deepest == PageSize * MaxPages
  <2>4. deep \in Nat /\ deepest \in Nat /\ deep <= deepest /\ (r.pages = MaxPages => deep = deepest)
    BY <2>2, <2>3, NoDeeper, PagesNat DEF Depth
  <2> HIDE DEF deep, deepest
  <2>5. (r.complete => r.top < deep) /\ (~r.complete => deep = deepest /\ deep <= r.top)
    BY <2>3, <2>4 DEF deep
  <2>6. r.complete <=> r.top < deepest
    BY <2>2, <2>4, <2>5
  <2>7. Newest(r.top, deep) = Newest(r.top, deepest)
    BY <2>2, <2>4, <2>5 DEF Newest
  <2> QED  BY <2>3, <2>6, <2>7 DEF r, Newest, deep, deepest
<1> QED  BY <1>1, <1>2, CollectionKept, PTL DEF CollectionSpec
-----------------------------------------------------------------------------
(* The market probe.                                                       *)
Numbers == {number \in SUBSET Int : \A n, k \in number : n = k}
Quotes == {{}} \cup {{quote} : quote \in [impact : Numbers, edge : {-1, 1}]}
Evidence == [of : Candidates, passed : BOOLEAN, top10 : Numbers, quote : Quotes, simulated : Observations]
InRow(pc) == pc \in {"holders", "quote", "simulation", "close"}
Places == {"discovery", "failed", "market", "holders", "quote", "simulation", "close", "done"}
Reasons == {"market", "holders", "impact", "quote", "cost", "fees", "unsimulated", "simulation"}
Probe == [pc : Places, attempt : Nat, left : SUBSET Candidates, row : Evidence \cup {NoRow}, simulations : Nat,
          rows : SUBSET [of : Candidates, evidence : Evidence, rejects : SUBSET Reasons]]

Simulated(rows) == {r \in rows : r.evidence.simulated # {}}

ProbeKept(p) ==
  /\ p \in Probe /\ IsFiniteSet(p.rows)
  /\ \A r \in p.rows : r.of \notin p.left /\ r.rejects = Rejects(r.evidence)
  /\ \A r, s \in p.rows : r.of = s.of => r = s
  /\ InRow(p.pc) => /\ p.row \in Evidence /\ p.row.of \notin p.left
                    /\ \A r \in p.rows : r.of # p.row.of
                    /\ p.pc # "close" => p.row.simulated = {}
  /\ p.pc = "discovery" => p.rows = {}
  /\ slots > 0 => p.simulations <= slots
  /\ Cardinality(Simulated(p.rows)) <= p.simulations
  /\ InRow(p.pc) /\ p.row.simulated # {} => Cardinality(Simulated(p.rows)) + 1 <= p.simulations

ProbeInv == slots \in Nat /\ ProbeKept(probe)

(* Within a row, only its evidence grows.                                  *)
LEMMA RowGoesOn ==
  ASSUME ProbeInv, NEW p \in Probe, InRow(probe.pc), probe.pc # "close", InRow(p.pc), p.row \in Evidence,
         p.row.of = probe.row.of, p.left = probe.left, p.rows = probe.rows,
         \/ p.row.simulated = {} /\ p.simulations = probe.simulations
         \/ p.pc = "close" /\ p.simulations = probe.simulations + 1 /\ (slots = 0 \/ probe.simulations < slots)
  PROVE  ProbeKept(p)
<1>1. /\ slots \in Nat /\ IsFiniteSet(p.rows) /\ p.pc # "discovery"
      /\ \A r \in p.rows : r.of \notin p.left /\ r.rejects = Rejects(r.evidence)
      /\ \A r, s \in p.rows : r.of = s.of => r = s
      /\ p.row.of \notin p.left /\ \A r \in p.rows : r.of # p.row.of
  BY DEF ProbeInv, ProbeKept, InRow
<1> DEFINE count == Cardinality(Simulated(p.rows))  old == probe.simulations  new == p.simulations
<1>2. (slots > 0 => old <= slots) /\ count <= old /\ old \in Nat /\ new \in Nat
  BY DEF ProbeInv, ProbeKept, Probe
<1>3. count \in Nat
  <2>1. IsFiniteSet(Simulated(p.rows))
    BY <1>1, FS_Subset DEF Simulated
  <2> QED  BY <2>1, FS_CardinalityType
<1> HIDE DEF count, old, new
<1>4. CASE p.row.simulated = {} /\ new = old
  BY <1>1, <1>2, <1>4 DEF ProbeKept, count, new
<1>5. CASE p.pc = "close" /\ new = old + 1 /\ (slots = 0 \/ old < slots)
  <2>1. (slots > 0 => new <= slots) /\ count <= new /\ count + 1 <= new
    BY <1>1, <1>2, <1>3, <1>5
  <2> QED  BY <1>1, <1>5, <2>1 DEF ProbeKept, count, new
<1> QED  BY <1>4, <1>5 DEF new, old

LEMMA WorseIsNumber == ASSUME NEW a \in Readings, NEW b \in Readings  PROVE Worse(a, b) \in Numbers
<1>1. CASE a = {} \/ b = {}
  BY <1>1 DEF Worse, Numbers
<1>2. CASE a # {} /\ b # {}
  <2>1. PICK m \in a, k \in b : m \in Int /\ k \in Int /\ a = {m} /\ b = {k}
    BY <1>2, ReadingsAreNumbers
  <2>2. \E n \in a \cup b : \A l \in a \cup b : l <= n
    BY <2>1
  <2> DEFINE worst == CHOOSE n \in a \cup b : \A l \in a \cup b : l <= n
  <2>3. worst \in a \cup b
    BY <2>2
  <2>4. Worse(a, b) = {worst}
    BY <1>2 DEF Worse
  <2> HIDE DEF worst
  <2> QED  BY <2>1, <2>3, <2>4 DEF Numbers
<1> QED  BY <1>1, <1>2

LEMMA CloseRowKept == ASSUME ProbeInv, CloseRow  PROVE ProbeInv'
<1> DEFINE row == probe.row
           report == [of |-> row.of, evidence |-> row, rejects |-> Rejects(row)]
<1>1. /\ probe.pc = "close" /\ slots' = slots /\ providers' = providers
      /\ probe' = [probe EXCEPT !.pc = "market", !.row = NoRow, !.rows = @ \cup {report}]
  BY DEF CloseRow, AtStage
<1>2. /\ slots \in Nat /\ probe \in Probe /\ IsFiniteSet(probe.rows)
      /\ \A r \in probe.rows : r.of \notin probe.left /\ r.rejects = Rejects(r.evidence)
      /\ \A r, s \in probe.rows : r.of = s.of => r = s
      /\ row \in Evidence /\ row.of \notin probe.left
      /\ \A r \in probe.rows : r.of # row.of
      /\ (slots > 0 => probe.simulations <= slots)
      /\ Cardinality(Simulated(probe.rows)) <= probe.simulations
      /\ row.simulated # {} => Cardinality(Simulated(probe.rows)) + 1 <= probe.simulations
  BY <1>1 DEF ProbeInv, ProbeKept, InRow
<1> HIDE DEF row
<1>3. Rejects(row) \in SUBSET Reasons /\ row.of \in Candidates
  BY <1>2 DEF Rejects, Evidence, Reasons
<1>4. /\ report \in [of : Candidates, evidence : Evidence, rejects : SUBSET Reasons]
      /\ report.of = row.of /\ report.evidence = row /\ report.rejects = Rejects(row)
  BY <1>2, <1>3
<1> HIDE DEF report
<1> DEFINE rows == probe.rows \cup {report}
<1>5. /\ probe' \in Probe /\ probe'.pc = "market" /\ probe'.rows = rows /\ probe'.left = probe.left
      /\ probe'.simulations = probe.simulations
  BY <1>1, <1>2, <1>4 DEF Probe, Places
<1>6. IsFiniteSet(rows)
  BY <1>2, FS_AddElement
<1>7. \A r \in rows : r.of \notin probe.left /\ r.rejects = Rejects(r.evidence)
  BY <1>2, <1>4
<1>8. \A r, s \in rows : r.of = s.of => r = s
  BY <1>2, <1>4
<1>9. Cardinality(Simulated(rows)) <= probe.simulations
  <2>1. IsFiniteSet(Simulated(probe.rows)) /\ report \notin Simulated(probe.rows)
    BY <1>2, <1>4, FS_Subset DEF Simulated
  <2>2. CASE row.simulated = {}
    <3>1. Simulated(rows) = Simulated(probe.rows)
      BY <1>4, <2>2 DEF Simulated
    <3> QED  BY <1>2, <3>1
  <2>3. CASE row.simulated # {}
    <3>1. Simulated(rows) = Simulated(probe.rows) \cup {report}
      BY <1>4, <2>3 DEF Simulated
    <3>2. Cardinality(Simulated(rows)) = Cardinality(Simulated(probe.rows)) + 1
      BY <2>1, <3>1, FS_AddElement
    <3> QED  BY <1>2, <2>3, <3>2
  <2> QED  BY <2>2, <2>3
<1> HIDE DEF rows
<1>10. \A r \in rows : (Rejects(r.evidence))' = Rejects(r.evidence)
  BY <1>1 DEF Rejects
<1>11. \A r \in rows : r.rejects = (Rejects(r.evidence))'
  BY <1>7, <1>10
<1> QED
  BY <1>1, <1>2, <1>5, <1>6, <1>7, <1>8, <1>9, <1>11 DEF ProbeInv, ProbeKept, InRow

LEMMA ProbeStep == ProbeInv /\ [MarketProbeNext]_probeVars => ProbeInv'
<1> SUFFICES ASSUME ProbeInv, [MarketProbeNext]_probeVars  PROVE ProbeInv'
  OBVIOUS
<1>0. /\ slots \in Nat /\ probe \in Probe /\ ProbeKept(probe)
      /\ InRow(probe.pc) /\ probe.pc # "close" => probe.row \in Evidence /\ probe.row.simulated = {}
  BY DEF ProbeInv, ProbeKept
<1>k. ASSUME NEW p \in Probe, ProbeKept(p), probe' = p, slots' = slots, providers' = providers  PROVE ProbeInv'
  <2>1. \A r \in p.rows : (Rejects(r.evidence))' = Rejects(r.evidence)
    BY <1>k DEF Rejects
  <2>2. \A r \in p.rows : r.rejects = (Rejects(r.evidence))'
    BY <1>k, <2>1 DEF ProbeKept
  <2> QED  BY <1>0, <1>k, <2>2 DEF ProbeInv, ProbeKept
<1>1. CASE UNCHANGED probeVars
  BY <1>0, <1>1, <1>k DEF probeVars
<1>2. ASSUME NEW listed \in SUBSET Candidates, Discover(listed)  PROVE ProbeInv'
  <2> DEFINE p == [probe EXCEPT !.pc = "market", !.left = listed]
  <2>1. probe' = p /\ slots' = slots /\ providers' = providers /\ probe.pc = "discovery"
    BY <1>2 DEF Discover, AtStage
  <2>2. p \in Probe /\ p.pc = "market" /\ p.rows = probe.rows /\ p.simulations = probe.simulations
    BY <1>0 DEF Probe, Places
  <2>3. probe.rows = {}
    BY <1>0, <2>1 DEF ProbeKept
  <2> HIDE DEF p
  <2>4. ProbeKept(p)
    BY <1>0, <2>2, <2>3 DEF ProbeKept, InRow
  <2> QED  BY <1>k, <2>1, <2>2, <2>4
<1>3. ASSUME NEW limited \in BOOLEAN, FailDiscovery(limited)  PROVE ProbeInv'
  <2>1. PICK p : /\ probe' = p /\ slots' = slots /\ providers' = providers /\ probe.pc = "discovery"
                 /\ p = IF limited /\ probe.attempt < MaxRetries THEN [probe EXCEPT !.attempt = @ + 1]
                        ELSE [probe EXCEPT !.pc = "failed"]
    BY <1>3 DEF FailDiscovery, AtStage
  <2>2. p \in Probe /\ p.pc \in {"discovery", "failed"} /\ p.rows = probe.rows /\ p.simulations = probe.simulations
    BY <1>0, <2>1 DEF Probe, Places
  <2>3. probe.rows = {}
    BY <1>0, <2>1 DEF ProbeKept
  <2>4. ProbeKept(p)
    BY <1>0, <2>2, <2>3 DEF ProbeKept, InRow
  <2> QED  BY <1>k, <2>1, <2>2, <2>4
<1>4. ASSUME NEW t \in Candidates, NEW liquidity \in Readings, NEW volume \in Readings, Screen(t, liquidity, volume)
      PROVE  ProbeInv'
  <2> DEFINE passed == Enough(liquidity) /\ Enough(volume)
             row == [of |-> t, passed |-> passed, top10 |-> {}, quote |-> {}, simulated |-> {}]
             pc == IF passed THEN "holders" ELSE "close"
             p == [probe EXCEPT !.left = @ \ {t}, !.pc = pc, !.row = row]
  <2>1. probe' = p /\ slots' = slots /\ providers' = providers /\ probe.pc = "market" /\ t \in probe.left
    BY <1>4 DEF Screen, AtStage
  <2>2. row \in Evidence /\ row.of = t /\ row.simulated = {} /\ InRow(pc) /\ pc \in Places
    <3>1. passed \in BOOLEAN
      BY DEF Enough
    <3>2. {} \in Numbers /\ {} \in Quotes /\ {} \in Observations
      BY DEF Numbers, Quotes, Observations
    <3>3. pc \in {"holders", "close"}
      OBVIOUS
    <3> HIDE DEF passed
    <3> QED  BY <3>1, <3>2, <3>3 DEF Evidence, InRow, Places
  <2> HIDE DEF row, pc
  <2>3. /\ p \in Probe /\ p.pc = pc /\ p.row = row /\ p.rows = probe.rows /\ p.simulations = probe.simulations
        /\ p.left = probe.left \ {t}
    BY <1>0, <2>2 DEF Probe, Places
  <2> HIDE DEF p
  <2>4. \A r \in probe.rows : r.of # t
    BY <1>0, <2>1 DEF ProbeKept
  <2>5. pc # "discovery"
    BY <2>2 DEF InRow
  <2>6. ProbeKept(p)
    BY <1>0, <2>2, <2>3, <2>4, <2>5 DEF ProbeKept
  <2> QED  BY <1>k, <2>1, <2>3, <2>6
<1>5. ASSUME NEW top10 \in Readings, ReadHolders(top10)  PROVE ProbeInv'
  <2> DEFINE row == [probe.row EXCEPT !.top10 = top10]
             pc == IF HoldersPass(row) THEN "quote" ELSE "close"
             p == [probe EXCEPT !.row = row, !.pc = pc]
  <2>1. probe' = p /\ slots' = slots /\ providers' = providers /\ probe.pc = "holders"
    BY <1>5 DEF ReadHolders, AtStage
  <2>2. top10 \in Numbers
    BY ReadingsAreNumbers DEF Numbers
  <2>3. InRow(probe.pc) /\ probe.pc # "close" /\ InRow(pc) /\ pc \in Places
    BY <2>1 DEF InRow, Places
  <2>4. row \in Evidence /\ row.of = probe.row.of /\ row.simulated = {}
    BY <1>0, <2>2, <2>3 DEF Evidence
  <2> HIDE DEF row, pc
  <2>5. /\ p \in Probe /\ p.pc = pc /\ p.row = row /\ p.rows = probe.rows /\ p.simulations = probe.simulations
        /\ p.left = probe.left
    BY <1>0, <2>3, <2>4 DEF Probe, Places
  <2> HIDE DEF p
  <2>6. ProbeKept(p)
    BY <2>3, <2>4, <2>5, RowGoesOn
  <2> QED  BY <1>k, <2>1, <2>5, <2>6
<1>6. ASSUME NEW buy \in Readings, NEW sell \in Readings, NEW edge \in {-1, 1}, RoundTrip(buy, sell, edge)
      PROVE  ProbeInv'
  <2> DEFINE quote == [impact |-> Worse(buy, sell), edge |-> edge]
             row == [probe.row EXCEPT !.quote = {quote}]
             pc == IF ImpactPasses(quote) THEN "simulation" ELSE "close"
             p == [probe EXCEPT !.row.quote = {quote}, !.pc = pc]
  <2>1. probe' = p /\ slots' = slots /\ providers' = providers /\ probe.pc = "quote"
    BY <1>6 DEF RoundTrip, AtStage
  <2>2. {quote} \in Quotes
    BY WorseIsNumber DEF Quotes
  <2>3. InRow(probe.pc) /\ probe.pc # "close" /\ InRow(pc) /\ pc \in Places
    BY <2>1 DEF InRow, Places
  <2> HIDE DEF quote
  <2>4. row \in Evidence /\ row.of = probe.row.of /\ row.simulated = {}
    BY <1>0, <2>2, <2>3 DEF Evidence
  <2> HIDE DEF pc
  <2>5. p = [probe EXCEPT !.row = row, !.pc = pc]
    BY <1>0 DEF Probe, Places
  <2> HIDE DEF row
  <2>6. /\ p \in Probe /\ p.pc = pc /\ p.row = row /\ p.rows = probe.rows /\ p.simulations = probe.simulations
        /\ p.left = probe.left
    BY <1>0, <2>3, <2>4, <2>5 DEF Probe, Places
  <2> HIDE DEF p
  <2>7. ProbeKept(p)
    BY <2>3, <2>4, <2>6, RowGoesOn
  <2> QED  BY <1>k, <2>1, <2>6, <2>7
<1>7. CASE NoRoundTrip \/ NoSimulation
  <2> DEFINE p == [probe EXCEPT !.pc = "close"]
  <2>1. probe' = p /\ slots' = slots /\ providers' = providers /\ probe.pc \in {"quote", "simulation"}
    BY <1>7 DEF NoRoundTrip, NoSimulation, AtStage
  <2>2. InRow(probe.pc) /\ probe.pc # "close"
    BY <2>1 DEF InRow, Places
  <2>3. /\ p \in Probe /\ p.pc = "close" /\ p.row = probe.row /\ p.rows = probe.rows /\ p.left = probe.left
        /\ p.simulations = probe.simulations
    BY <1>0 DEF Probe, Places
  <2> HIDE DEF p
  <2>4. ProbeKept(p)
    BY <1>0, <2>2, <2>3, RowGoesOn DEF InRow
  <2> QED  BY <1>k, <2>1, <2>3, <2>4
<1>8. ASSUME NEW answers \in Observations, Simulate(answers)  PROVE ProbeInv'
  <2> DEFINE row == [probe.row EXCEPT !.simulated = answers]
             p == [probe EXCEPT !.row.simulated = answers, !.simulations = @ + 1, !.pc = "close"]
  <2>1. probe' = p /\ slots' = slots /\ providers' = providers /\ probe.pc = "simulation" /\ SlotFree
    BY <1>8 DEF Simulate, AtStage
  <2>2. InRow(probe.pc) /\ probe.pc # "close"
    BY <2>1 DEF InRow, Places
  <2>3. row \in Evidence /\ row.of = probe.row.of
    BY <1>0, <2>2 DEF Evidence
  <2> DEFINE simulations == probe.simulations + 1
  <2>4. p = [probe EXCEPT !.row = row, !.simulations = simulations, !.pc = "close"] /\ simulations \in Nat
    BY <1>0 DEF Probe, Places
  <2> HIDE DEF row, simulations
  <2>5. /\ p \in Probe /\ p.pc = "close" /\ p.row = row /\ p.rows = probe.rows /\ p.left = probe.left
        /\ p.simulations = simulations
    BY <1>0, <2>3, <2>4 DEF Probe, Places
  <2> HIDE DEF p
  <2>6. ProbeKept(p)
    BY <1>0, <2>1, <2>2, <2>3, <2>5, RowGoesOn DEF InRow, SlotFree, simulations
  <2> QED  BY <1>k, <2>1, <2>5, <2>6
<1>9. CASE ReportProbe
  <2> DEFINE p == [probe EXCEPT !.pc = "done"]
  <2>1. probe' = p /\ slots' = slots /\ providers' = providers
    BY <1>9 DEF ReportProbe, AtStage
  <2>2. p \in Probe /\ p.pc = "done" /\ p.rows = probe.rows /\ p.left = probe.left /\ p.simulations = probe.simulations
    BY <1>0 DEF Probe, Places
  <2> HIDE DEF p
  <2>3. ProbeKept(p)
    BY <1>0, <2>2 DEF ProbeKept, InRow
  <2> QED  BY <1>k, <2>1, <2>2, <2>3
<1> QED
  BY <1>1, <1>2, <1>3, <1>4, <1>5, <1>6, <1>7, <1>8, <1>9, CloseRowKept DEF MarketProbeNext

(* A row without a reject has its evidence.                                *)
LEMMA UnrejectedProven ==
  ASSUME NEW row \in Evidence, Rejects(row) = {}
  PROVE  /\ row.passed /\ HoldersPass(row) /\ "fees" \in providers
         /\ \E quote \in row.quote : quote.edge >= 0 /\ \A n \in quote.impact : n <= MaxImpact
         /\ row.simulated = {TRUE}
<1> DEFINE impactPassed == \E quote \in row.quote : ImpactPasses(quote)
<1>1. /\ row.passed
      /\ row.passed => HoldersPass(row)
      /\ ~(row.quote # {} /\ ~impactPassed)
      /\ ~(row.passed /\ HoldersPass(row) /\ row.quote = {})
      /\ ~(\E quote \in row.quote : quote.edge < 0)
      /\ "fees" \in providers
      /\ ~(impactPassed /\ row.simulated = {})
      /\ ~(\E ok \in row.simulated : ~ok)
  BY DEF Rejects
<1>2. row.quote # {} /\ impactPassed /\ row.simulated # {}
  BY <1>1
<1>3. PICK quote \in [impact : Numbers, edge : {-1, 1}] : row.quote = {quote}
  BY <1>2 DEF Evidence, Quotes
<1>4. ImpactPasses(quote) /\ ~(quote.edge < 0) /\ quote.edge \in {-1, 1}
  BY <1>1, <1>2, <1>3
<1>5. ASSUME NEW n \in quote.impact  PROVE n <= MaxImpact
  <2>1. quote.impact = {n}
    BY <1>3, <1>5 DEF Numbers
  <2>2. NumberOrZero(quote.impact) = n
    BY <2>1 DEF NumberOrZero
  <2> QED  BY <1>4, <2>2 DEF ImpactPasses
<1>6. row.simulated \in {{}, {TRUE}, {FALSE}}
  BY DEF Evidence, Observations
<1>7. row.simulated = {TRUE}
  BY <1>1, <1>2, <1>6
<1> QED  BY <1>1, <1>3, <1>4, <1>5, <1>7

(* A row of the probe's report without a reject has all its evidence, and  *)
(* no more round trips are simulated than there are slots, for any         *)
(* candidates, limits and answers of the providers.                        *)
THEOREM ReportedRowsProven == MarketProbeSpec => []RowsProven
<1>1. ProbeInit => ProbeInv
  <2> SUFFICES ASSUME ProbeInit  PROVE ProbeInv
    OBVIOUS
  <2>1. /\ probe = [pc |-> "discovery", attempt |-> 0, left |-> {}, row |-> NoRow, simulations |-> 0, rows |-> {}]
        /\ slots \in Nat
    BY ProbeBounds DEF ProbeInit
  <2>2. probe \in Probe
    BY <2>1 DEF Probe, Places
  <2>3. Simulated({}) = {} /\ IsFiniteSet({}) /\ Cardinality({}) = 0
    BY FS_EmptySet DEF Simulated
  <2> QED  BY <2>1, <2>2, <2>3 DEF ProbeInv, ProbeKept, InRow
<1>2. ProbeInv => RowsProven
  <2> SUFFICES ASSUME ProbeInv  PROVE RowsProven
    OBVIOUS
  <2>1. ASSUME NEW r \in probe.rows, r.rejects = {}
        PROVE  /\ r.evidence.passed /\ HoldersPass(r.evidence) /\ "fees" \in providers
               /\ \E quote \in r.evidence.quote : quote.edge >= 0 /\ \A n \in quote.impact : n <= MaxImpact
               /\ r.evidence.simulated = {TRUE}
    <3>1. r.evidence \in Evidence /\ Rejects(r.evidence) = {}
      BY <2>1 DEF ProbeInv, ProbeKept, Probe
    <3> QED  BY <3>1, UnrejectedProven
  <2>2. /\ slots > 0 => probe.simulations <= slots
        /\ Cardinality(Simulated(probe.rows)) <= probe.simulations
        /\ \A r, s \in probe.rows : r.of = s.of => r = s
    BY DEF ProbeInv, ProbeKept
  <2> QED  BY <2>1, <2>2 DEF RowsProven, Simulated
<1> QED  BY <1>1, <1>2, ProbeStep, PTL DEF MarketProbeSpec
-----------------------------------------------------------------------------
(* Simulations.  The policies of a run are those left, the one it is at    *)
(* and the audited ones; a request follows its decision and precedes its   *)
(* audit.                                                                  *)
Stages == {"policies", "event", "decide", "request", "audit", "done", "failed"}
Run == [pc : Stages, amount : Sizes, scope : SUBSET Copiers, left : SUBSET Copiers,
        policies : [Copiers -> [enabled : BOOLEAN, maxCopy : Caps, maxPosition : Caps]],
        of : SUBSET Copiers, count : Nat]

RunOrNone == Run \cup {NoRun}

Requested(r, f, sims) == \E request \in sims : request.key = <<r, f>>
AuditsOf(r, audits) == {b \in audits : b.event = r /\ b.follower # {}}
Decision(r, f, yes) == [event |-> r, follower |-> f, approved |-> yes]
AuditEvent(r, follower, yes, count) == [event |-> r, follower |-> follower, approved |-> yes, count |-> count]

NothingYet(r, sims, audits) == (\A f \in Copiers : ~Requested(r, f, sims)) /\ AuditsOf(r, audits) = {}

Counted(r, run, sims, audits) ==
  /\ IsFiniteSet(AuditsOf(r, audits))
  /\ Cardinality(AuditsOf(r, audits)) + Cardinality(run.left) + Cardinality(run.of) = run.count
  /\ \A b \in AuditsOf(r, audits) : \E f \in Copiers : b.follower = {f} /\ f \notin run.left \cup run.of
  /\ \A f \in run.left : ~Requested(r, f, sims)

AtPolicy(r, run, decisions, sims) ==
  \E f \in Copiers : /\ run.of = {f} /\ f \notin run.left
                     /\ Decision(r, f, Approves(run, f)) \in decisions
                     /\ run.pc = "request" => Approves(run, f) /\ ~Requested(r, f, sims)
                     /\ run.pc = "audit" => (Approves(run, f) <=> Requested(r, f, sims))

RunKept(r, run, decisions, sims, audits) ==
  /\ run.pc \in {"none", "policies"} => NothingYet(r, sims, audits)
  /\ run.pc \in {"event", "decide", "request", "audit"} => Counted(r, run, sims, audits)
  /\ run.pc \in {"policies", "event", "decide"} => run.of = {}
  /\ run.pc \in {"request", "audit"} => AtPolicy(r, run, decisions, sims)
RunKeptAt(r) == RunKept(r, runs[r], decided, simulated, audited)

Finished(r) == runs[r].pc = "done"

TrailKept ==
  /\ \A request \in simulated : Decision(request.key[1], request.key[2], TRUE) \in decided
  /\ \A a \in audited, f \in Copiers : a.follower = {f} =>
       /\ Decision(a.event, f, a.approved) \in decided
       /\ a.approved <=> Requested(a.event, f, simulated)
  /\ \A a \in audited : a.follower = {} => Finished(a.event) /\ Cardinality(AuditsOf(a.event, audited)) = a.count

TrailTypes ==
  /\ runs \in [Runs -> RunOrNone]
  /\ policies \in [Copiers -> [enabled : BOOLEAN, maxCopy : Caps, maxPosition : Caps]]
  /\ \A request \in simulated : request.key \in Runs \X Copiers
  /\ \A a \in audited : a.event \in Runs

TrailInv == TrailTypes /\ TrailKept /\ \A r \in Runs : RunKeptAt(r)

LEMMA ApprovesBoolean == ASSUME NEW run, NEW f  PROVE Approves(run, f) \in BOOLEAN
BY DEF Approves

(* What a step of one run leaves as it is for the others.                  *)
StepOf(r, run) ==
  /\ runs' = [runs EXCEPT ![r] = run]
  /\ decided \subseteq decided'
  /\ simulated \subseteq simulated' /\ \A x \in simulated' \ simulated : x.key \in {r} \X Copiers
  /\ audited \subseteq audited' /\ \A x \in audited' \ audited : x.event = r
  /\ policies' = policies

LEMMA TrailsApart ==
  ASSUME NEW s \in Runs, NEW run \in RunOrNone, NEW decs, NEW decs2, NEW sims, NEW sims2, NEW auds, NEW auds2,
         decs \subseteq decs2, \A f \in Copiers : Requested(s, f, sims2) <=> Requested(s, f, sims),
         AuditsOf(s, auds2) = AuditsOf(s, auds), RunKept(s, run, decs, sims, auds)
  PROVE  RunKept(s, run, decs2, sims2, auds2)
<1>1. run.pc # "none" => run.left \in SUBSET Copiers
  BY DEF RunOrNone, Run, NoRun
<1>2. NothingYet(s, sims, auds) => NothingYet(s, sims2, auds2)
  BY DEF NothingYet
<1>3. run.pc # "none" /\ Counted(s, run, sims, auds) => Counted(s, run, sims2, auds2)
  BY <1>1 DEF Counted
<1>4. AtPolicy(s, run, decs, sims) => AtPolicy(s, run, decs2, sims2)
  BY DEF AtPolicy
<1> QED  BY <1>2, <1>3, <1>4 DEF RunKept

(* The trail after a step of one run, which keeps that of the others.      *)
LEMMA TrailStep ==
  ASSUME TrailInv, NEW r \in Runs, NEW run \in Run, StepOf(r, run),
         RunKept(r, run, decided', simulated', audited'), TrailKept'
  PROVE  TrailInv'
<1>1. runs \in [Runs -> RunOrNone] /\ run \in RunOrNone
  BY DEF TrailInv, TrailTypes, RunOrNone
<1>2. runs' \in [Runs -> RunOrNone] /\ \A s \in Runs : runs'[s] = IF s = r THEN run ELSE runs[s]
  BY <1>1 DEF StepOf
<1>3. ASSUME NEW s \in Runs, s # r  PROVE RunKept(s, runs[s], decided', simulated', audited')
  <2>1. AuditsOf(s, audited') = AuditsOf(s, audited)
    BY <1>3 DEF StepOf, AuditsOf
  <2>2. \A f \in Copiers : Requested(s, f, simulated') <=> Requested(s, f, simulated)
    BY <1>3 DEF StepOf, Requested
  <2>3. RunKept(s, runs[s], decided, simulated, audited) /\ runs[s] \in RunOrNone
    BY <1>1 DEF TrailInv, RunKeptAt
  <2> QED  BY <2>1, <2>2, <2>3, TrailsApart DEF StepOf
<1>4. \A s \in Runs : RunKept(s, runs'[s], decided', simulated', audited')
  BY <1>2, <1>3
<1>5. \A s \in Runs : RunKeptAt(s)'
  BY <1>4 DEF RunKeptAt
<1>6. TrailTypes'
  BY <1>2 DEF TrailInv, TrailTypes, StepOf
<1> QED  BY <1>5, <1>6 DEF TrailInv

(* A step that adds nothing to the trail.                                  *)
LEMMA QuietStep ==
  ASSUME TrailInv, NEW r \in Runs, NEW run \in Run, runs' = [runs EXCEPT ![r] = run], ~Finished(r),
         UNCHANGED <<policies, decided, simulated, audited>>, RunKept(r, run, decided, simulated, audited)
  PROVE  TrailInv'
<1>1. runs \in [Runs -> RunOrNone] /\ decided' = decided /\ simulated' = simulated /\ audited' = audited /\ policies' = policies
  BY DEF TrailInv, TrailTypes
<1>2. StepOf(r, run)
  BY <1>1 DEF StepOf
<1>3. \A s \in Runs : Finished(s) => Finished(s)'
  BY <1>1 DEF Finished
<1>4. TrailKept'
  BY <1>1, <1>3 DEF TrailInv, TrailTypes, TrailKept
<1>5. RunKept(r, run, decided', simulated', audited')
  BY <1>1
<1> QED  BY <1>2, <1>4, <1>5, TrailStep

LEMMA AtRun ==
  ASSUME TrailInv, NEW r \in Runs, runs[r].pc # "none"
  PROVE  /\ runs[r] \in Run /\ RunKept(r, runs[r], decided, simulated, audited) /\ IsFiniteSet(runs[r].left)
         /\ runs[r].count \in Nat /\ runs[r].left \in SUBSET Copiers
<1>1. runs[r] \in Run
  BY DEF TrailInv, TrailTypes, RunOrNone, NoRun
<1>2. runs[r].left \in SUBSET Copiers /\ runs[r].count \in Nat
  BY <1>1 DEF Run
<1>3. RunKept(r, runs[r], decided, simulated, audited)
  BY DEF TrailInv, RunKeptAt
<1> QED  BY <1>1, <1>2, <1>3, CopiersFinite, FS_Subset

LEMMA StartKept ==
  ASSUME TrailInv, NEW r \in Runs, NEW amount \in Sizes, NEW scope \in SUBSET Copiers, StartSimulation(r, amount, scope)
  PROVE  TrailInv'
<1> DEFINE run == [pc |-> "policies", amount |-> amount, scope |-> scope, left |-> {}, policies |-> policies,
                   of |-> {}, count |-> 0]
<1>1. runs[r] = NoRun /\ runs' = [runs EXCEPT ![r] = run] /\ UNCHANGED <<policies, decided, simulated, audited>>
  BY DEF StartSimulation, GoOn
<1>2. run \in Run /\ run.pc = "policies" /\ run.of = {}
  BY DEF TrailInv, TrailTypes, Run, Stages
<1> HIDE DEF run
<1>3. NothingYet(r, simulated, audited) /\ ~Finished(r)
  BY <1>1 DEF TrailInv, RunKeptAt, RunKept, NoRun, Finished
<1>4. RunKept(r, run, decided, simulated, audited)
  BY <1>2, <1>3 DEF RunKept
<1> QED  BY <1>1, <1>2, <1>3, <1>4, QuietStep

LEMMA ReadKept == ASSUME TrailInv, NEW r \in Runs, ReadPolicies(r)  PROVE TrailInv'
<1> DEFINE found == {f \in runs[r].scope : policies[f].enabled}
           count == Cardinality(found)
           run == [runs[r] EXCEPT !.pc = "event", !.left = found, !.policies = policies, !.count = count]
<1>1. /\ runs[r].pc = "policies" /\ runs' = [runs EXCEPT ![r] = run]
      /\ UNCHANGED <<policies, decided, simulated, audited>>
  BY DEF ReadPolicies, Running, GoOn
<1>2. runs[r] \in Run /\ policies \in [Copiers -> [enabled : BOOLEAN, maxCopy : Caps, maxPosition : Caps]]
  BY <1>1, AtRun DEF TrailInv, TrailTypes
<1>3. NothingYet(r, simulated, audited) /\ runs[r].of = {} /\ ~Finished(r)
  BY <1>1 DEF TrailInv, RunKeptAt, RunKept, Finished
<1>4. found \in SUBSET Copiers /\ IsFiniteSet(found)
  <2>1. found \in SUBSET Copiers
    BY <1>2 DEF Run
  <2> HIDE DEF found
  <2> QED  BY <2>1, CopiersFinite, FS_Subset
<1>5. count \in Nat
  BY <1>4, FS_CardinalityType
<1> HIDE DEF found, count
<1>6. run \in Run /\ run.pc = "event" /\ run.left = found /\ run.of = {} /\ run.count = count
  BY <1>2, <1>3, <1>4, <1>5 DEF Run, Stages
<1> HIDE DEF run
<1>7. Counted(r, run, simulated, audited)
  <2>1. Cardinality({}) = 0 /\ IsFiniteSet({})
    BY FS_EmptySet
  <2>2. /\ AuditsOf(r, audited) = {}
        /\ Cardinality(run.of) = 0 /\ Cardinality(run.left) = run.count
    BY <1>3, <1>6, <2>1 DEF NothingYet, count
  <2>3. 0 + run.count + 0 = run.count
    BY <1>5, <1>6
  <2> QED  BY <1>3, <1>4, <1>6, <2>1, <2>2, <2>3 DEF Counted, NothingYet
<1>8. RunKept(r, run, decided, simulated, audited)
  BY <1>6, <1>7 DEF RunKept
<1> QED  BY <1>1, <1>3, <1>6, <1>8, QuietStep

LEMMA DecideKept == ASSUME TrailInv, NEW r \in Runs, NEW f \in Copiers, Decide(r, f)  PROVE TrailInv'
<1> DEFINE old == runs[r]
           ok == Approves(old, f)
           run == [old EXCEPT !.pc = AfterDecision(ok), !.of = {f}, !.left = @ \ {f}]
<1>1. /\ old.pc = "decide" /\ f \in old.left /\ runs' = [runs EXCEPT ![r] = run]
      /\ decided' = decided \cup {Decision(r, f, ok)}
      /\ policies' = policies /\ simulated' = simulated /\ audited' = audited
  BY DEF Decide, Running, GoOn, Decision
<1>2. /\ old \in Run /\ RunKept(r, old, decided, simulated, audited) /\ IsFiniteSet(old.left) /\ old.count \in Nat
      /\ old.left \in SUBSET Copiers
  BY <1>1, AtRun
<1>3. Counted(r, old, simulated, audited) /\ old.of = {} /\ ~Finished(r)
  BY <1>1, <1>2 DEF RunKept, Finished
<1>r. ~Requested(r, f, simulated)
  BY <1>1, <1>3 DEF Counted
<1>4. ok \in BOOLEAN
  BY ApprovesBoolean
<1> DEFINE pc == AfterDecision(ok)
<1>5. (ok => pc = "request") /\ (~ok => pc = "audit") /\ pc \in Stages
  BY DEF AfterDecision, Stages
<1> HIDE DEF ok, old, pc
<1>6. /\ run \in Run /\ run.pc = pc /\ run.of = {f} /\ run.left = old.left \ {f}
      /\ run.count = old.count /\ run.amount = old.amount /\ run.policies = old.policies
  BY <1>2, <1>5 DEF Run, pc
<1> HIDE DEF run
<1>7. Approves(run, f) = ok
  BY <1>6 DEF Approves, ok
<1>8. StepOf(r, run)
  BY <1>1 DEF StepOf
<1>9. Counted(r, run, simulated, audited)
  <2>1. Cardinality(run.left) = Cardinality(old.left) - 1 /\ Cardinality(old.left) \in Nat
    BY <1>1, <1>2, <1>6, FS_RemoveElement, FS_CardinalityType
  <2>2. Cardinality(run.of) = 1 /\ Cardinality(old.of) = 0
    BY <1>3, <1>6, FS_Singleton, FS_EmptySet
  <2>3. Cardinality(AuditsOf(r, audited)) \in Nat
    BY <1>3, FS_CardinalityType DEF Counted
  <2>4. Cardinality(AuditsOf(r, audited)) + Cardinality(old.left) + Cardinality(old.of) = old.count
    BY <1>3 DEF Counted
  <2>5. Cardinality(AuditsOf(r, audited)) + Cardinality(run.left) + Cardinality(run.of) = run.count
    BY <1>6, <2>1, <2>2, <2>3, <2>4
  <2>6. run.left \cup run.of = old.left \cup old.of
    BY <1>1, <1>3, <1>6
  <2> QED  BY <1>3, <1>6, <2>5, <2>6 DEF Counted
<1>10. AtPolicy(r, run, decided', simulated)
  BY <1>r, <1>1, <1>4, <1>5, <1>6, <1>7 DEF AtPolicy
<1>11. RunKept(r, run, decided', simulated', audited')
  <2>1. run.pc \in {"request", "audit"}
    BY <1>4, <1>5, <1>6
  <2> QED  BY <1>1, <1>9, <1>10, <2>1 DEF RunKept
<1>12. TrailKept'
  <2>1. \A s \in Runs : Finished(s) => Finished(s)'
    BY <1>1, <1>3 DEF Finished
  <2> QED  BY <1>1, <2>1 DEF TrailInv, TrailTypes, TrailKept
<1> QED  BY <1>6, <1>8, <1>11, <1>12, TrailStep

(* What is at hand while a run is at a policy.                             *)
LEMMA AtOnePolicy ==
  ASSUME TrailInv, NEW r \in Runs, runs[r].pc \in {"request", "audit"}
  PROVE  \E f \in Copiers :
           /\ runs[r].of = {f} /\ f \notin runs[r].left /\ (CHOOSE g \in runs[r].of : TRUE) = f
           /\ Decision(r, f, Approves(runs[r], f)) \in decided
           /\ runs[r].pc = "request" => Approves(runs[r], f) /\ ~Requested(r, f, simulated)
           /\ runs[r].pc = "audit" => (Approves(runs[r], f) <=> Requested(r, f, simulated))
           /\ \A b \in AuditsOf(r, audited) : b.follower # {f}
<1> DEFINE run == runs[r]
<1>1. RunKept(r, run, decided, simulated, audited)
  BY AtRun
<1>2. AtPolicy(r, run, decided, simulated) /\ Counted(r, run, simulated, audited)
  BY <1>1 DEF RunKept
<1> HIDE DEF run
<1>3. PICK f \in Copiers : /\ run.of = {f} /\ f \notin run.left
                           /\ Decision(r, f, Approves(run, f)) \in decided
                           /\ run.pc = "request" => Approves(run, f) /\ ~Requested(r, f, simulated)
                           /\ run.pc = "audit" => (Approves(run, f) <=> Requested(r, f, simulated))
  BY <1>2 DEF AtPolicy
<1>4. (CHOOSE g \in run.of : TRUE) = f
  BY <1>3
<1>5. \A b \in AuditsOf(r, audited) : b.follower # {f}
  BY <1>2, <1>3 DEF Counted
<1> QED  BY <1>3, <1>4, <1>5 DEF run

LEMMA RequestKept == ASSUME TrailInv, NEW r \in Runs, SimulateRequest(r)  PROVE TrailInv'
<1> DEFINE old == runs[r]
           run == [old EXCEPT !.pc = "audit"]
<1>1. /\ old.pc = "request" /\ runs' = [runs EXCEPT ![r] = run]
      /\ policies' = policies /\ decided' = decided /\ audited' = audited
      /\ simulated' = IF \E request \in simulated : request.key = <<r, CHOOSE f \in old.of : TRUE>> THEN simulated
                      ELSE simulated \cup {[key |-> <<r, CHOOSE f \in old.of : TRUE>>, amount |-> old.amount]}
  BY DEF SimulateRequest, Running, GoOn
<1>2. PICK f \in Copiers :
        /\ old.of = {f} /\ f \notin old.left /\ (CHOOSE g \in old.of : TRUE) = f
        /\ Decision(r, f, Approves(old, f)) \in decided
        /\ Approves(old, f) /\ ~Requested(r, f, simulated)
        /\ \A b \in AuditsOf(r, audited) : b.follower # {f}
  BY <1>1, AtOnePolicy
<1>3. /\ old \in Run /\ RunKept(r, old, decided, simulated, audited) /\ old.left \in SUBSET Copiers /\ ~Finished(r)
  BY <1>1, AtRun DEF Finished
<1>4. Counted(r, old, simulated, audited)
  BY <1>1, <1>3 DEF RunKept
<1> DEFINE request == [key |-> <<r, f>>, amount |-> old.amount]
<1>5. simulated' = simulated \cup {request}
  BY <1>1, <1>2 DEF Requested
<1>6. request.key = <<r, f>>
  OBVIOUS
<1> HIDE DEF old, request
<1>7. /\ run \in Run /\ run.pc = "audit" /\ run.of = old.of /\ run.left = old.left /\ run.count = old.count
      /\ run.amount = old.amount /\ run.policies = old.policies
  BY <1>3 DEF Run, Stages
<1> HIDE DEF run
<1>8. Approves(run, f) <=> Approves(old, f)
  BY <1>7 DEF Approves
<1>9. StepOf(r, run)
  BY <1>1, <1>5, <1>6 DEF StepOf
<1>10. \A s \in Runs, g \in Copiers : Requested(s, g, simulated') <=> Requested(s, g, simulated) \/ (s = r /\ g = f)
  BY <1>5, <1>6 DEF Requested
<1>11. Counted(r, run, simulated', audited)
  <2>1. \A g \in run.left : ~Requested(r, g, simulated')
    BY <1>2, <1>3, <1>4, <1>7, <1>10 DEF Counted
  <2> QED  BY <1>4, <1>7, <2>1 DEF Counted
<1>12. AtPolicy(r, run, decided, simulated')
  <2>1. Requested(r, f, simulated')
    BY <1>10
  <2>2. Decision(r, f, Approves(run, f)) \in decided
    BY <1>2, <1>7 DEF Approves
  <2> QED  BY <1>2, <1>7, <1>8, <2>1, <2>2 DEF AtPolicy
<1>13. RunKept(r, run, decided', simulated', audited')
  BY <1>1, <1>7, <1>11, <1>12 DEF RunKept
<1>14. TrailKept'
  <2>1. \A s \in Runs : Finished(s) => Finished(s)'
    BY <1>1, <1>3 DEF Finished
  <2>2. Decision(r, f, TRUE) \in decided
    <3>1. Approves(old, f) = TRUE
      BY <1>2, ApprovesBoolean
    <3> QED  BY <1>2, <3>1
  <2>3. \A x \in simulated' : Decision(x.key[1], x.key[2], TRUE) \in decided'
    <3>1. Decision(request.key[1], request.key[2], TRUE) \in decided
      <4>1. request.key[1] = r /\ request.key[2] = f
        BY <1>6
      <4> QED  BY <2>2, <4>1
    <3> QED  BY <1>1, <1>5, <3>1 DEF TrailInv, TrailKept
  <2>4. ASSUME NEW a \in audited, NEW g \in Copiers, a.follower = {g}
        PROVE  a.approved <=> Requested(a.event, g, simulated')
    <3>1. a.event \in Runs /\ (a.approved <=> Requested(a.event, g, simulated))
      BY <2>4 DEF TrailInv, TrailTypes, TrailKept
    <3>2. ~(a.event = r /\ g = f)
      BY <1>2, <2>4 DEF AuditsOf
    <3> QED  BY <1>10, <3>1, <3>2
  <2>5. \A a \in audited, g \in Copiers : a.follower = {g} => Decision(a.event, g, a.approved) \in decided
    BY DEF TrailInv, TrailKept
  <2>6. \A a \in audited : a.follower = {} => Finished(a.event)' /\ Cardinality(AuditsOf(a.event, audited)) = a.count
    BY <2>1 DEF TrailInv, TrailTypes, TrailKept
  <2> QED  BY <1>1, <2>3, <2>4, <2>5, <2>6 DEF TrailKept
<1> QED  BY <1>7, <1>9, <1>13, <1>14, TrailStep

LEMMA AuditKept == ASSUME TrailInv, NEW r \in Runs, AuditPolicy(r)  PROVE TrailInv'
<1> DEFINE old == runs[r]
           run == [old EXCEPT !.pc = "decide", !.of = {}]
<1>1. /\ old.pc = "audit" /\ runs' = [runs EXCEPT ![r] = run]
      /\ policies' = policies /\ decided' = decided /\ simulated' = simulated
      /\ audited' = audited \cup {AuditEvent(r, {CHOOSE g \in old.of : TRUE}, Approves(old, CHOOSE g \in old.of : TRUE), 0)}
  BY DEF AuditPolicy, Running, GoOn, AuditEvent
<1>2. PICK f \in Copiers :
        /\ old.of = {f} /\ f \notin old.left /\ (CHOOSE g \in old.of : TRUE) = f
        /\ Decision(r, f, Approves(old, f)) \in decided
        /\ Approves(old, f) <=> Requested(r, f, simulated)
        /\ \A b \in AuditsOf(r, audited) : b.follower # {f}
  BY <1>1, AtOnePolicy
<1>3. /\ old \in Run /\ RunKept(r, old, decided, simulated, audited) /\ IsFiniteSet(old.left)
      /\ old.left \in SUBSET Copiers /\ old.count \in Nat /\ ~Finished(r)
  BY <1>1, AtRun DEF Finished
<1>4. Counted(r, old, simulated, audited)
  BY <1>1, <1>3 DEF RunKept
<1> DEFINE ok == Approves(old, f)
           new == AuditEvent(r, {f}, ok, 0)
<1>5. audited' = audited \cup {new}
  BY <1>1, <1>2
<1> HIDE DEF ok, old
<1>6. new.event = r /\ new.follower = {f} /\ new.approved = ok
  BY DEF AuditEvent
<1> HIDE DEF new
<1>7. run \in Run /\ run.pc = "decide" /\ run.of = {} /\ run.left = old.left /\ run.count = old.count
  BY <1>3 DEF Run, Stages
<1> HIDE DEF run
<1>8. StepOf(r, run)
  BY <1>1, <1>5, <1>6 DEF StepOf
<1>9. AuditsOf(r, audited') = AuditsOf(r, audited) \cup {new} /\ new \notin AuditsOf(r, audited)
  BY <1>2, <1>5, <1>6 DEF AuditsOf
<1>10. \A s \in Runs : s # r => AuditsOf(s, audited') = AuditsOf(s, audited)
  BY <1>5, <1>6 DEF AuditsOf
<1>11. Counted(r, run, simulated, audited')
  <2> DEFINE before == Cardinality(AuditsOf(r, audited))  left == Cardinality(old.left)
  <2>1. IsFiniteSet(AuditsOf(r, audited')) /\ Cardinality(AuditsOf(r, audited')) = before + 1 /\ before \in Nat
    BY <1>4, <1>9, FS_AddElement, FS_CardinalityType DEF Counted
  <2>2. Cardinality(old.of) = 1 /\ Cardinality(run.of) = 0
    BY <1>2, <1>7, FS_Singleton, FS_EmptySet
  <2>3. before + left + Cardinality(old.of) = old.count /\ left \in Nat
    BY <1>3, <1>4, FS_CardinalityType DEF Counted
  <2> HIDE DEF before, left
  <2>4. (before + 1) + left + 0 = old.count
    BY <2>1, <2>2, <2>3
  <2>5. Cardinality(AuditsOf(r, audited')) + Cardinality(run.left) + Cardinality(run.of) = run.count
    BY <1>7, <2>1, <2>2, <2>4 DEF left
  <2>6. \A b \in AuditsOf(r, audited') : \E g \in Copiers : b.follower = {g} /\ g \notin run.left \cup run.of
    BY <1>2, <1>4, <1>6, <1>7, <1>9 DEF Counted
  <2> QED  BY <1>4, <1>7, <2>1, <2>5, <2>6 DEF Counted
<1>12. RunKept(r, run, decided', simulated', audited')
  BY <1>1, <1>7, <1>11 DEF RunKept
<1>13. TrailKept'
  <2>1. \A s \in Runs : Finished(s) => Finished(s)' /\ s # r
    BY <1>1, <1>3 DEF Finished
  <2>2. ASSUME NEW a \in audited', NEW g \in Copiers, a.follower = {g}
        PROVE  Decision(a.event, g, a.approved) \in decided /\ (a.approved <=> Requested(a.event, g, simulated))
    <3>1. CASE a \in audited
      BY <2>2, <3>1 DEF TrailInv, TrailKept
    <3>2. CASE a = new
      <4>1. g = f /\ a.event = r /\ a.approved = ok
        BY <1>6, <2>2, <3>2
      <4> QED  BY <1>2, <4>1 DEF ok
    <3> QED  BY <1>5, <3>1, <3>2
  <2>3. ASSUME NEW a \in audited', a.follower = {}
        PROVE  Finished(a.event)' /\ Cardinality(AuditsOf(a.event, audited')) = a.count
    <3>1. a \in audited
      BY <1>5, <1>6, <2>3
    <3>2. a.event \in Runs /\ Finished(a.event) /\ Cardinality(AuditsOf(a.event, audited)) = a.count
      BY <2>3, <3>1 DEF TrailInv, TrailTypes, TrailKept
    <3> QED  BY <1>10, <2>1, <3>2
  <2>4. \A x \in simulated' : Decision(x.key[1], x.key[2], TRUE) \in decided'
    BY <1>1 DEF TrailInv, TrailKept
  <2> QED  BY <1>1, <2>2, <2>3, <2>4 DEF TrailKept
<1> QED  BY <1>7, <1>8, <1>12, <1>13, TrailStep

LEMMA CloseKept == ASSUME TrailInv, NEW r \in Runs, CloseSimulation(r)  PROVE TrailInv'
<1> DEFINE old == runs[r]
           run == [old EXCEPT !.pc = "done"]
           new == AuditEvent(r, {}, FALSE, old.count)
<1>1. /\ old.pc = "decide" /\ old.left = {} /\ runs' = [runs EXCEPT ![r] = run]
      /\ policies' = policies /\ decided' = decided /\ simulated' = simulated /\ audited' = audited \cup {new}
  BY DEF CloseSimulation, Running, GoOn, AuditEvent
<1>2. old \in Run /\ RunKept(r, old, decided, simulated, audited) /\ old.count \in Nat
  BY <1>1, AtRun
<1>3. Counted(r, old, simulated, audited) /\ old.of = {}
  BY <1>1, <1>2 DEF RunKept
<1>4. Cardinality(AuditsOf(r, audited)) = old.count
  <2>1. Cardinality({}) = 0
    BY FS_EmptySet
  <2>2. Cardinality(AuditsOf(r, audited)) \in Nat
    BY <1>3, FS_CardinalityType DEF Counted
  <2>3. Cardinality(AuditsOf(r, audited)) + 0 + 0 = old.count
    BY <1>1, <1>3, <2>1 DEF Counted
  <2> QED  BY <2>2, <2>3
<1> HIDE DEF old
<1>5. new.event = r /\ new.follower = {} /\ new.count = old.count
  BY DEF AuditEvent
<1> HIDE DEF new
<1>6. run \in Run /\ run.pc = "done"
  BY <1>2 DEF Run, Stages
<1> HIDE DEF run
<1>7. StepOf(r, run)
  BY <1>1, <1>5 DEF StepOf
<1>8. \A s \in Runs : AuditsOf(s, audited') = AuditsOf(s, audited)
  BY <1>1, <1>5 DEF AuditsOf
<1>9. RunKept(r, run, decided', simulated', audited')
  BY <1>6 DEF RunKept
<1>10. TrailKept'
  <2>1. (\A s \in Runs : Finished(s) => Finished(s)') /\ Finished(r)'
    BY <1>1, <1>6 DEF Finished, TrailInv, TrailTypes
  <2>2. ASSUME NEW a \in audited', NEW g \in Copiers, a.follower = {g}
        PROVE  Decision(a.event, g, a.approved) \in decided /\ (a.approved <=> Requested(a.event, g, simulated))
    <3>1. a \in audited
      BY <1>1, <1>5, <2>2
    <3> QED  BY <2>2, <3>1 DEF TrailInv, TrailKept
  <2>3. ASSUME NEW a \in audited', a.follower = {}
        PROVE  Finished(a.event)' /\ Cardinality(AuditsOf(a.event, audited')) = a.count
    <3>1. CASE a \in audited
      <4>1. a.event \in Runs /\ Finished(a.event) /\ Cardinality(AuditsOf(a.event, audited)) = a.count
        BY <2>3, <3>1 DEF TrailInv, TrailTypes, TrailKept
      <4> QED  BY <1>8, <2>1, <4>1
    <3>2. CASE a = new
      BY <1>4, <1>5, <1>8, <2>1, <3>2
    <3> QED  BY <1>1, <3>1, <3>2
  <2>4. \A x \in simulated' : Decision(x.key[1], x.key[2], TRUE) \in decided'
    BY <1>1 DEF TrailInv, TrailKept
  <2> QED  BY <1>1, <2>2, <2>3, <2>4 DEF TrailKept
<1> QED  BY <1>6, <1>7, <1>9, <1>10, TrailStep

LEMMA SimulationStep == TrailInv /\ [SimulationNext]_simulationVars => TrailInv'
<1> SUFFICES ASSUME TrailInv, [SimulationNext]_simulationVars  PROVE TrailInv'
  OBVIOUS
<1>1. ASSUME UNCHANGED <<decided, simulated, audited, runs>>,
             policies' \in [Copiers -> [enabled : BOOLEAN, maxCopy : Caps, maxPosition : Caps]]
      PROVE  TrailInv'
  BY <1>1 DEF TrailInv, TrailTypes, TrailKept, RunKeptAt, Finished
<1>2. CASE UNCHANGED simulationVars \/ TraderChanges
  BY <1>1, <1>2 DEF simulationVars, TraderChanges, TrailInv, TrailTypes
<1>3. ASSUME NEW f \in Copiers, PolicyChanges(f)  PROVE TrailInv'
  <2>1. policies \in [Copiers -> [enabled : BOOLEAN, maxCopy : Caps, maxPosition : Caps]]
    BY DEF TrailInv, TrailTypes
  <2>2. policies' \in [Copiers -> [enabled : BOOLEAN, maxCopy : Caps, maxPosition : Caps]]
    BY <1>3, <2>1 DEF PolicyChanges
  <2> QED  BY <1>1, <1>3, <2>2 DEF PolicyChanges
<1>4. ASSUME NEW r \in Runs, InsertTradeEvent(r)  PROVE TrailInv'
  <2> DEFINE run == [runs[r] EXCEPT !.pc = "decide"]
  <2>1. runs[r].pc = "event" /\ runs' = [runs EXCEPT ![r] = run] /\ UNCHANGED <<policies, decided, simulated, audited>>
    BY <1>4 DEF InsertTradeEvent, Running, GoOn
  <2>2. runs[r] \in Run /\ RunKept(r, runs[r], decided, simulated, audited) /\ ~Finished(r)
    BY <2>1, AtRun DEF Finished
  <2>3. run \in Run /\ run.pc = "decide" /\ run.left = runs[r].left /\ run.of = runs[r].of /\ run.count = runs[r].count
    BY <2>2 DEF Run, Stages
  <2> HIDE DEF run
  <2>4. RunKept(r, run, decided, simulated, audited)
    BY <2>1, <2>2, <2>3 DEF RunKept, Counted
  <2> QED  BY <2>1, <2>2, <2>3, <2>4, QuietStep
<1>5. ASSUME NEW r \in Runs, FailSimulation(r)  PROVE TrailInv'
  <2> DEFINE run == [runs[r] EXCEPT !.pc = "failed"]
  <2>1. runs[r].pc \notin {"none", "done"} /\ runs' = [runs EXCEPT ![r] = run] /\ UNCHANGED <<policies, decided, simulated, audited>>
    BY <1>5 DEF FailSimulation, GoOn
  <2>2. runs[r] \in Run /\ ~Finished(r)
    BY <2>1, AtRun DEF Finished
  <2>3. run \in Run /\ run.pc = "failed"
    BY <2>2 DEF Run, Stages
  <2> HIDE DEF run
  <2>4. RunKept(r, run, decided, simulated, audited)
    BY <2>3 DEF RunKept
  <2> QED  BY <2>1, <2>2, <2>3, <2>4, QuietStep
<1>6. \A f \in Copiers : {f} \in SUBSET Copiers
  OBVIOUS
<1>7. ASSUME NEW r \in Runs, NEW amount \in Sizes, NEW scope \in {Copiers} \cup {{f} : f \in Copiers},
             StartSimulation(r, amount, scope)
      PROVE  TrailInv'
  BY <1>7, StartKept
<1> QED
  BY <1>2, <1>3, <1>4, <1>5, <1>7, ReadKept, DecideKept, RequestKept, AuditKept, CloseKept DEF SimulationNext

(* Wherever the runs of a simulation stop, their trail can be trusted, for *)
(* any number of runs and followers and whatever the policies become       *)
(* meanwhile.                                                              *)
THEOREM TrailsAreComplete == SimulationSpec => []TrailComplete
<1>1. SimulationInit => TrailInv
  <2> SUFFICES ASSUME SimulationInit  PROVE TrailInv
    OBVIOUS
  <2>1. runs \in [Runs -> RunOrNone] /\ \A r \in Runs : runs[r] = NoRun
    BY DEF SimulationInit, RunOrNone
  <2>2. \A r \in Runs : NothingYet(r, simulated, audited)
    BY DEF SimulationInit, NothingYet, Requested, AuditsOf
  <2>3. \A r \in Runs : RunKeptAt(r)
    BY <2>1, <2>2 DEF RunKeptAt, RunKept, NoRun
  <2> QED  BY <2>1, <2>3 DEF SimulationInit, TrailInv, TrailTypes, TrailKept
<1>2. TrailInv => TrailComplete
  BY DEF TrailInv, TrailKept, TrailComplete, Requested, AuditsOf, Decision
<1> QED  BY <1>1, <1>2, SimulationStep, PTL DEF SimulationSpec

-----------------------------------------------------------------------------
(* The snapshot of a follower.  What a reader has counted stays closed, at *)
(* the time it was closed at.                                              *)
Rows == [state : {"none", "OPEN", "CLOSED"}, closed : SUBSET Nat, marked : SUBSET Nat]

Snapshots == [pc : {"state", "pnl", "page", "done"}, observed : Nat, through : SUBSET Nat, counted : SUBSET Holdings,
              shown : SUBSET (Holdings \X {"OPEN", "CLOSED"}), fresh : SUBSET (Holdings \X Nat)]

One(S) == \A t, u \in S : t = u

SnapshotsTyped ==
  /\ now \in Nat
  /\ holding \in [Holdings -> Rows] /\ closing \in [Holdings -> SUBSET Nat] /\ through \in SUBSET Nat
  /\ readers \in [Readers -> Snapshots \cup {NoReader}]
  /\ One(through)
  /\ \A p \in Holdings :
       /\ One(closing[p]) /\ One(holding[p].closed)
       /\ holding[p].state # "CLOSED" => holding[p].closed = {}
       /\ closing[p] # {} => holding[p].state = "OPEN"

Settled(x) == \A p \in x.counted :
  /\ holding[p].state = "CLOSED"
  /\ \A t \in holding[p].closed, c \in x.through : t <= c /\ t \div DayLength >= x.observed \div DayLength

Cited(x) == One(x.through) /\ \A c \in x.through : x.observed - c <= MaxLag

ReadRightly(x) ==
  /\ x.pc \in {"pnl", "page", "done"} => Cited(x)
  /\ x.pc \in {"page", "done"} => Settled(x)
  /\ x.pc = "done" =>
       /\ \A p \in x.counted : <<p, "OPEN">> \notin x.shown
       /\ \A m \in x.fresh : m[2] - x.observed \in -MarkAge .. 1

SnapshotInv == SnapshotsTyped /\ \A r \in Readers : readers[r] # NoReader => ReadRightly(readers[r])

(* A time not before the start of a day is of that day or of a later one. *)
LEMMA DayStarted ==
  ASSUME NEW o \in Nat, NEW t \in Nat, DayStart(o) <= t
  PROVE  t \div DayLength >= o \div DayLength
<1> DEFINE d == DayLength
           a == o \div d
           b == t \div d
           m == o % d
           n == t % d
           da == d * a
           db == d * b
<1>1. d \in Nat \ {0}
  BY SnapshotBounds
<1> HIDE DEF d
<1>2. a \in Nat /\ b \in Nat /\ m \in Nat /\ n \in Nat /\ n < d /\ o = d * a + m /\ t = d * b + n
  BY <1>1
<1>3. o - m <= t
  BY DEF DayStart, d
<1> HIDE DEF a, b, m, n
<1>4. a > b => da >= db + d
  BY <1>1, <1>2
<1>5. da \in Nat /\ db \in Nat /\ o = da + m /\ t = db + n
  BY <1>1, <1>2
<1> HIDE DEF da, db
<1>6. ~(a > b)
  BY <1>1, <1>2, <1>3, <1>4, <1>5
<1>7. b >= a
  BY <1>2, <1>6
<1> QED
  BY <1>7 DEF a, b, d

(* What readers hold is not touched by a step of a position that leaves    *)
(* what is closed as it is.                                                *)
LEMMA ReadersKeep ==
  ASSUME SnapshotInv, readers' = readers,
         \A p \in Holdings : holding[p].state = "CLOSED" => holding'[p] = holding[p]
  PROVE  \A r \in Readers : readers'[r] # NoReader => (ReadRightly(readers[r]))'
<1> SUFFICES ASSUME NEW r \in Readers, readers[r] # NoReader
             PROVE  (ReadRightly(readers[r]))'
  OBVIOUS
<1> DEFINE x == readers[r]
<1>1. ReadRightly(x) /\ x' = x /\ x.counted \in SUBSET Holdings
  BY DEF SnapshotInv, SnapshotsTyped, Snapshots
<1> HIDE DEF x
<1>2. x.pc \in {"page", "done"} => Settled(x)'
  BY <1>1 DEF ReadRightly, Settled
<1> QED
  BY <1>1, <1>2 DEF ReadRightly, Cited, x

LEMMA ReaderStep ==
  ASSUME SnapshotInv, NEW r \in Readers, NEW x \in Snapshots \cup {NoReader}, Resume(r, x),
         x # NoReader => ReadRightly(x)
  PROVE  SnapshotInv'
<1>1. /\ readers' = [readers EXCEPT ![r] = x] /\ readers \in [Readers -> Snapshots \cup {NoReader}]
      /\ now' = now /\ holding' = holding /\ closing' = closing /\ through' = through
  BY DEF Resume, SnapshotInv, SnapshotsTyped
<1>2. SnapshotsTyped'
  BY <1>1 DEF SnapshotInv, SnapshotsTyped
<1>3. ASSUME NEW s \in Readers, readers'[s] # NoReader PROVE ReadRightly(readers'[s])
  BY <1>1, <1>3 DEF SnapshotInv
<1>4. \A s \in Readers : readers'[s] # NoReader => (ReadRightly(readers[s]))'
  BY <1>1, <1>3 DEF ReadRightly, Settled, Cited
<1> QED
  BY <1>2, <1>4 DEF SnapshotInv

LEMMA ReadKeeps ==
  ASSUME SnapshotInv, NEW r \in Readers,
         StartReading(r) \/ AccountingState(r) \/ DailyRealizedPnl(r) \/ ReadPositions(r)
  PROVE  SnapshotInv'
<1> DEFINE x == readers[r]
<1>1. /\ now \in Nat /\ through \in SUBSET Nat /\ One(through)
      /\ x \in Snapshots \cup {NoReader} /\ (x # NoReader => x \in Snapshots /\ ReadRightly(x))
      /\ holding \in [Holdings -> Rows]
      /\ \A p \in Holdings : One(holding[p].closed) /\ (holding[p].state # "CLOSED" => holding[p].closed = {})
  BY DEF SnapshotInv, SnapshotsTyped
<1>2. After("pnl") = "page" /\ After("page") = "done" /\ Order[1] = "pnl"
  BY DEF After, Order
<1>3. CASE StartReading(r)
  <2> DEFINE y == [pc |-> "state", observed |-> now, through |-> {}, counted |-> {}, shown |-> {}, fresh |-> {}]
  <2>1. y \in Snapshots /\ ReadRightly(y)
    BY <1>1 DEF Snapshots, ReadRightly
  <2>2. Resume(r, y)
    BY <1>3 DEF StartReading
  <2> HIDE DEF y
  <2> QED  BY <2>1, <2>2, ReaderStep
<1>4. CASE AccountingState(r)
  <2>1. x # NoReader /\ x \in Snapshots /\ x.observed \in Nat
    BY <1>1, <1>4 DEF AccountingState, Reading, Snapshots
  <2>2. CASE through # {} /\ Lag(r) \subseteq Ahead .. MaxLag
    <3> DEFINE y == [x EXCEPT !.pc = Order[1], !.through = through]
    <3>1. y \in Snapshots /\ y.pc = "pnl" /\ y.through = through /\ y.observed = x.observed
      BY <1>1, <1>2, <2>1 DEF Snapshots
    <3>2. Resume(r, y)
      BY <1>4, <2>2 DEF AccountingState
    <3> HIDE DEF y
    <3>3. \A c \in through : x.observed - c <= MaxLag
      <4>1. \A c \in through : x.observed - c \in Ahead .. MaxLag
        BY <2>2 DEF Lag
      <4>2. Ahead \in Int /\ MaxLag \in Int
        BY SnapshotBounds DEF Ahead
      <4> QED  BY <4>1, <4>2
    <3>4. ReadRightly(y)
      BY <1>1, <3>1, <3>3 DEF ReadRightly, Cited
    <3> QED  BY <3>1, <3>2, <3>4, ReaderStep
  <2>3. CASE ~(through # {} /\ Lag(r) \subseteq Ahead .. MaxLag)
    BY <1>4, <2>3, ReaderStep DEF AccountingState
  <2> QED  BY <2>2, <2>3
<1>5. CASE DailyRealizedPnl(r)
  <2> DEFINE counted == {p \in Holdings : InDay(r, p)}
             y == [x EXCEPT !.pc = After(@), !.counted = counted]
  <2>1. /\ x # NoReader /\ x \in Snapshots /\ x.pc = "pnl" /\ x.observed \in Nat /\ x.through \in SUBSET Nat
        /\ Cited(x)
    BY <1>1, <1>5 DEF DailyRealizedPnl, Reading, Snapshots, ReadRightly
  <2>2. /\ y \in Snapshots /\ y.pc = "page" /\ y.counted = counted
        /\ y.through = x.through /\ y.observed = x.observed
    BY <1>2, <2>1 DEF Snapshots
  <2>3. Resume(r, y)
    BY <1>5 DEF DailyRealizedPnl
  <2> HIDE DEF y
  <2>4. ASSUME NEW p \in counted
        PROVE  /\ holding[p].state = "CLOSED"
               /\ \A t \in holding[p].closed, c \in x.through : t <= c /\ t \div DayLength >= x.observed \div DayLength
    <3>1. PICK u \in holding[p].closed, k \in x.through : u \in DayStart(x.observed) .. k
      BY DEF InDay
    <3>2. p \in Holdings /\ u \in Nat /\ k \in Nat
      BY <1>1, <2>1 DEF Rows
    <3>3. holding[p].state = "CLOSED"
      BY <1>1, <3>2
    <3>4. DayStart(x.observed) \in Int
      BY <2>1, SnapshotBounds DEF DayStart
    <3>5. DayStart(x.observed) <= u /\ u <= k
      BY <3>1, <3>2, <3>4
    <3>6. u \div DayLength >= x.observed \div DayLength
      BY <2>1, <3>2, <3>5, DayStarted
    <3>7. \A t \in holding[p].closed, c \in x.through : t = u /\ c = k
      BY <1>1, <2>1, <3>2 DEF One, Cited
    <3> QED  BY <3>3, <3>5, <3>6, <3>7
  <2>5. ReadRightly(y)
    <3> HIDE DEF counted
    <3>1. Settled(y)
      BY <2>2, <2>4 DEF Settled
    <3>2. Cited(y)
      BY <2>1, <2>2 DEF Cited
    <3> QED  BY <2>2, <3>1, <3>2 DEF ReadRightly
  <2> QED  BY <2>2, <2>3, <2>5, ReaderStep
<1>6. CASE ReadPositions(r)
  <2>1. /\ x # NoReader /\ x \in Snapshots /\ x.pc = "page" /\ x.observed \in Nat
        /\ Cited(x) /\ Settled(x) /\ x.counted \in SUBSET Holdings
    BY <1>1, <1>6 DEF ReadPositions, Reading, Snapshots, ReadRightly
  <2>2. PICK page \in Pages :
          Resume(r, [x EXCEPT !.pc = After(@), !.shown = {<<p, holding[p].state>> : p \in page},
                              !.fresh = {m \in page \X (0 .. MaxNow) : FreshMark(r, m[1], m[2])}])
    BY <1>6 DEF ReadPositions
  <2> DEFINE shown == {<<p, holding[p].state>> : p \in page}
             fresh == {m \in page \X (0 .. MaxNow) : FreshMark(r, m[1], m[2])}
             y == [x EXCEPT !.pc = After(@), !.shown = shown, !.fresh = fresh]
  <2>3. page \in SUBSET {p \in Holdings : holding[p].state # "none"}
    BY DEF Pages
  <2>4. shown \in SUBSET (Holdings \X {"OPEN", "CLOSED"})
    BY <1>1, <2>3 DEF Rows
  <2>5. fresh \in SUBSET (Holdings \X Nat)
    BY <2>3, SnapshotBounds
  <2>6. \A p \in x.counted : <<p, "OPEN">> \notin shown
    BY <2>1 DEF Settled
  <2>7. ASSUME NEW m \in fresh PROVE m[2] - x.observed \in -MarkAge .. 1
    <3>1. m[2] \in Nat
      BY <2>5
    <3>2. x.observed - m[2] \in Ahead .. MarkAge
      BY DEF FreshMark
    <3>3. MarkAge \in Nat /\ Ahead = -1
      BY SnapshotBounds DEF Ahead
    <3> DEFINE t == m[2]
               o == x.observed
    <3> HIDE DEF t, o
    <3>4. t \in Nat /\ o \in Nat /\ o - t \in -1 .. MarkAge
      BY <2>1, <3>1, <3>2, <3>3 DEF t, o
    <3>5. t - o \in -MarkAge .. 1
      BY <3>3, <3>4
    <3> QED  BY <3>5 DEF t, o
  <2>8. Resume(r, y)
    BY <2>2
  <2> HIDE DEF shown, fresh
  <2>9. /\ y \in Snapshots /\ y.pc = "done" /\ y.counted = x.counted /\ y.shown = shown /\ y.fresh = fresh
        /\ y.through = x.through /\ y.observed = x.observed
    BY <1>2, <2>1, <2>4, <2>5 DEF Snapshots
  <2> HIDE DEF y
  <2>10. ReadRightly(y)
    <3>1. Settled(y) /\ Cited(y)
      BY <2>1, <2>9 DEF Settled, Cited
    <3> QED  BY <2>6, <2>7, <2>9, <3>1 DEF ReadRightly
  <2> QED  BY <2>8, <2>9, <2>10, ReaderStep
<1> QED
  BY <1>3, <1>4, <1>5, <1>6

LEMMA SnapshotStep == SnapshotInv /\ [SnapshotNext]_snapshotVars => SnapshotInv'
<1> SUFFICES ASSUME SnapshotInv, [SnapshotNext]_snapshotVars PROVE SnapshotInv'
  OBVIOUS
<1>1. SnapshotsTyped /\ now \in Nat
  BY DEF SnapshotInv, SnapshotsTyped
<1>2. CASE UNCHANGED snapshotVars
  BY <1>1, <1>2, ReadersKeep DEF snapshotVars, SnapshotInv, SnapshotsTyped
<1>3. CASE Elapse
  BY <1>1, <1>3, ReadersKeep DEF Elapse, SnapshotInv, SnapshotsTyped
<1>4. ASSUME NEW p \in Holdings, OpenHolding(p) PROVE SnapshotInv'
  <2>1. SnapshotsTyped'
    BY <1>1, <1>4 DEF OpenHolding, SnapshotsTyped, Rows, One
  <2>2. \A q \in Holdings : holding[q].state = "CLOSED" => holding'[q] = holding[q]
    BY <1>1, <1>4 DEF OpenHolding, SnapshotsTyped
  <2> QED  BY <1>4, <2>1, <2>2, ReadersKeep DEF OpenHolding, SnapshotInv
<1>5. ASSUME NEW p \in Holdings, MarkHolding(p) PROVE SnapshotInv'
  <2>1. SnapshotsTyped'
    BY <1>1, <1>5 DEF MarkHolding, SnapshotsTyped, Rows, One
  <2>2. \A q \in Holdings : holding[q].state = "CLOSED" => holding'[q] = holding[q]
    BY <1>1, <1>5 DEF MarkHolding, SnapshotsTyped
  <2> QED  BY <1>5, <2>1, <2>2, ReadersKeep DEF MarkHolding, SnapshotInv
<1>6. ASSUME NEW p \in Holdings, LockHolding(p) PROVE SnapshotInv'
  <2>1. SnapshotsTyped'
    BY <1>1, <1>6 DEF LockHolding, SnapshotsTyped, Rows, One
  <2> QED  BY <1>6, <2>1, ReadersKeep DEF LockHolding, SnapshotInv
<1>7. ASSUME NEW p \in Holdings, NEW at \in 0 .. MaxNow, CommitClose(p, at) PROVE SnapshotInv'
  <2>1. SnapshotsTyped'
    BY <1>1, <1>7 DEF CommitClose, SnapshotsTyped, Rows, One
  <2>2. \A q \in Holdings : holding[q].state = "CLOSED" => holding'[q] = holding[q]
    BY <1>1, <1>7 DEF CommitClose, SnapshotsTyped
  <2> QED  BY <1>7, <2>1, <2>2, ReadersKeep DEF CommitClose, SnapshotInv
<1> QED
  BY <1>2, <1>3, <1>4, <1>5, <1>6, <1>7, ReadKeeps DEF SnapshotNext

LEMMA SnapshotStart == SnapshotInit => SnapshotInv
  BY DEF SnapshotInit, SnapshotInv, SnapshotsTyped, Rows, One

(* A snapshot counts the profit of nothing it shows as open, of no other   *)
(* day and nothing after its cursor, for any number of positions, readers  *)
(* and closes in between.                                                  *)
THEOREM CountsTheClosed == SnapshotSpec => []CountedIsClosed
<1>1. ASSUME SnapshotInv PROVE CountedIsClosed
  BY <1>1 DEF SnapshotInv, CountedIsClosed, Reading, ReadRightly, Settled, Cited
<1> QED
  BY <1>1, SnapshotStart, SnapshotStep, PTL DEF SnapshotSpec

-----------------------------------------------------------------------------
(* Dispatches.  The trace of a dispatch is a walk along the transitions,   *)
(* and ends where the hook it waits for begins.                            *)
States == {"CREATED", "RISK_CHECKED", "QUOTED", "SIMULATED", "AUTHORIZED", "DISPATCHED",
           "CONFIRMED", "RECONCILED", "REJECTED", "FAILED"}

HookNames == DOMAIN Reached

StateBefore == [quote |-> "RISK_CHECKED", simulation |-> "QUOTED", authorization |-> "SIMULATED",
                confirmation |-> "DISPATCHED", reconciliation |-> "CONFIRMED"]

Executions == [pc : {"none", "built", "read", "end"} \cup HookNames, expires : Int, risk : SUBSET Facts,
               lifecycle : Seq(States), outcome : States \cup {NoAudit}, audit : States \cup {NoAudit}]

Walk(s) ==
  /\ s \in Seq(States) /\ s # <<>> /\ s[1] = "CREATED"
  /\ \A i \in 1 .. Len(s) - 1 : s[i + 1] \in Lifecycle!Transitions[s[i]]

Traced(x) ==
  /\ x.pc \in {"none", "built", "read"} => x.lifecycle = <<>> /\ x.outcome = NoAudit /\ x.audit = NoAudit
  /\ x.pc \in HookNames =>
       /\ Walk(x.lifecycle) /\ x.lifecycle[Len(x.lifecycle)] = StateBefore[x.pc]
       /\ x.outcome = NoAudit /\ x.audit = NoAudit

DispatchInv ==
  /\ clock \in Nat /\ holds \in SUBSET Facts
  /\ ex \in [Dispatches -> Executions]
  /\ \A d \in Dispatches : Traced(ex[d])

LEMMA HooksInOrder ==
  /\ HookNames = {"quote", "simulation", "authorization", "confirmation", "reconciliation"}
  /\ NextHook("quote") = "simulation" /\ NextHook("simulation") = "authorization"
  /\ NextHook("authorization") = "confirmation" /\ NextHook("confirmation") = "reconciliation"
  /\ NextHook("reconciliation") = "end"
<1>1. /\ Hooks[1] = "quote" /\ Hooks[2] = "simulation" /\ Hooks[3] = "authorization"
      /\ Hooks[4] = "confirmation" /\ Hooks[5] = "reconciliation" /\ DOMAIN Hooks = 1 .. 5 /\ Len(Hooks) = 5
  BY DEF Hooks
<1>2. \A i \in 1 .. 5 : i = 1 \/ i = 2 \/ i = 3 \/ i = 4 \/ i = 5
  OBVIOUS
<1>3. \A i \in 1 .. 5 : (CHOOSE j \in 1 .. 5 : Hooks[j] = Hooks[i]) = i
  BY <1>1, <1>2
<1>4. HookNames = {"quote", "simulation", "authorization", "confirmation", "reconciliation"}
  BY DEF HookNames, Reached
<1> QED
  BY <1>1, <1>2, <1>3, <1>4 DEF NextHook

(* The table, state by state. *)
LEMMA Table ==
  /\ {"REJECTED", "FAILED"} \subseteq Lifecycle!Transitions["CREATED"]
  /\ {"QUOTED", "REJECTED", "FAILED"} \subseteq Lifecycle!Transitions["RISK_CHECKED"]
  /\ {"SIMULATED", "REJECTED"} \subseteq Lifecycle!Transitions["QUOTED"]
  /\ {"AUTHORIZED", "REJECTED"} \subseteq Lifecycle!Transitions["SIMULATED"]
  /\ "DISPATCHED" \in Lifecycle!Transitions["AUTHORIZED"]
  /\ {"CONFIRMED", "FAILED"} \subseteq Lifecycle!Transitions["DISPATCHED"]
  /\ {"RECONCILED", "FAILED"} \subseteq Lifecycle!Transitions["CONFIRMED"]
  /\ "RISK_CHECKED" \in Lifecycle!Transitions["CREATED"]
  /\ Lifecycle!Transitions["RECONCILED"] = {}
  /\ Lifecycle!Transitions["REJECTED"] = {} /\ Lifecycle!Transitions["FAILED"] = {}
  BY DEF Lifecycle!Transitions, Lifecycle!Outs

(* A walk goes on along a transition. *)
LEMMA WalkOn ==
  ASSUME NEW s, Walk(s), NEW x \in States, x \in Lifecycle!Transitions[s[Len(s)]]
  PROVE  /\ Walk(s \o <<x>>) /\ (s \o <<x>>)[Len(s \o <<x>>)] = x
         /\ Len(s) < Len(s \o <<x>>) /\ SubSeq(s \o <<x>>, 1, Len(s)) = s
         /\ Append(s, x) = s \o <<x>>
<1> DEFINE t == s \o <<x>>
<1>1. s \in Seq(States) /\ s # <<>> /\ <<x>> \in Seq(States) /\ Len(<<x>>) = 1 /\ <<x>>[1] = x
  BY DEF Walk
<1>2. Len(s) \in Nat /\ Len(s) > 0
  BY <1>1, EmptySeq, LenProperties
<1>3. /\ t \in Seq(States) /\ Len(t) = Len(s) + 1
      /\ \A i \in 1 .. Len(s) + 1 : t[i] = IF i <= Len(s) THEN s[i] ELSE <<x>>[i - Len(s)]
  BY <1>1, ConcatProperties
<1>4. SubSeq(t, 1, Len(s)) = s
  BY <1>1, SubSeqOfConcat1, SubSeqFull
<1> HIDE DEF t
<1>5. t[Len(t)] = x /\ t[1] = s[1] /\ t # <<>>
  BY <1>1, <1>2, <1>3, EmptySeq
<1>6. ASSUME NEW i \in 1 .. Len(t) - 1 PROVE t[i + 1] \in Lifecycle!Transitions[t[i]]
  <2>1. CASE i = Len(s)
    <3>1. t[i] = s[Len(s)] /\ t[i + 1] = x
      BY <1>1, <1>2, <1>3, <2>1
    <3> QED  BY <3>1
  <2>2. CASE i # Len(s)
    <3>1. i \in 1 .. Len(s) - 1 /\ t[i] = s[i] /\ t[i + 1] = s[i + 1]
      BY <1>2, <1>3, <2>2
    <3> QED  BY <3>1 DEF Walk
  <2> QED  BY <2>1, <2>2
<1>7. Walk(t)
  BY <1>3, <1>5, <1>6 DEF Walk
<1>8. Append(s, x) = s \o <<x>>
  BY <1>1, AppendIsConcat
<1> QED
  BY <1>2, <1>3, <1>4, <1>5, <1>7, <1>8 DEF t

(* So it follows what it was, and is over when nothing follows x. *)
Moved(old, new) ==
  /\ Lifecycle!Follows(old, new)
  /\ new \in Seq(States)

LEMMA Moves ==
  ASSUME NEW s, Walk(s), NEW x \in States, x \in Lifecycle!Transitions[s[Len(s)]]
  PROVE  /\ Moved(s, s \o <<x>>) /\ Walk(s \o <<x>>) /\ Append(s, x) = s \o <<x>>
         /\ (s \o <<x>>)[Len(s \o <<x>>)] = x
         /\ Lifecycle!Terminal(s \o <<x>>) <=> Lifecycle!Transitions[x] = {}
<1> DEFINE t == s \o <<x>>
<1>1. /\ Walk(t) /\ t[Len(t)] = x /\ Len(s) < Len(t) /\ SubSeq(t, 1, Len(s)) = s
      /\ Append(s, x) = t
  BY WalkOn
<1> HIDE DEF t
<1>2. Moved(s, t)
  BY <1>1 DEF Moved, Walk, Lifecycle!Follows
<1>3. Lifecycle!Terminal(t) <=> Lifecycle!Transitions[x] = {}
  BY <1>1 DEF Walk, Lifecycle!Terminal
<1> QED
  BY <1>1, <1>2, <1>3 DEF t

LEMMA PairOfOnes ==
  ASSUME NEW x \in States, NEW y \in States
  PROVE  <<x>> \o <<y>> = <<x, y>> /\ Append(<<x>>, y) = <<x, y>>
<1> DEFINE one == <<x>>  two == <<y>>  both == <<x, y>>
<1>1. /\ one \in Seq(States) /\ two \in Seq(States) /\ both \in Seq(States)
      /\ Len(one) = 1 /\ Len(two) = 1 /\ Len(both) = 2
      /\ one[1] = x /\ two[1] = y /\ both[1] = x /\ both[2] = y
  OBVIOUS
<1>2. Append(one, y) = one \o two
  BY <1>1, AppendIsConcat
<1> HIDE DEF one, two, both
<1>3. one \o two \in Seq(States) /\ Len(one \o two) = 2 /\ (one \o two)[1] = x /\ (one \o two)[2] = y
  BY <1>1, ConcatProperties
<1>4. \A i \in 1 .. 2 : (one \o two)[i] = both[i]
  <2>1. \A i \in 1 .. 2 : i = 1 \/ i = 2
    OBVIOUS
  <2> QED  BY <1>1, <1>3, <2>1
<1>5. one \o two = both
  BY <1>1, <1>3, <1>4, SeqEqual
<1> QED
  BY <1>2, <1>5 DEF one, two, both

LEMMA MovesTwice ==
  ASSUME NEW s, Walk(s), NEW x \in States, x \in Lifecycle!Transitions[s[Len(s)]],
         NEW y \in States, y \in Lifecycle!Transitions[x]
  PROVE  /\ Moved(s, s \o <<x, y>>) /\ Walk(s \o <<x, y>>)
         /\ (s \o <<x, y>>)[Len(s \o <<x, y>>)] = y
         /\ Lifecycle!Terminal(s \o <<x, y>>) <=> Lifecycle!Transitions[y] = {}
<1> DEFINE t == s \o <<x, y>>
<1>1. s \in Seq(States) /\ <<x>> \in Seq(States) /\ <<y>> \in Seq(States) /\ <<x, y>> \in Seq(States)
  BY DEF Walk
<1>2. Walk(s \o <<x>>) /\ (s \o <<x>>)[Len(s \o <<x>>)] = x /\ Len(s) < Len(s \o <<x>>)
  BY WalkOn
<1>3. /\ Walk((s \o <<x>>) \o <<y>>) /\ Len(s \o <<x>>) < Len((s \o <<x>>) \o <<y>>)
      /\ ((s \o <<x>>) \o <<y>>)[Len((s \o <<x>>) \o <<y>>)] = y
  BY <1>2, WalkOn
<1>4. <<x>> \o <<y>> = <<x, y>>
  BY PairOfOnes
<1>5. (s \o <<x>>) \o <<y>> = t
  BY <1>1, <1>4, ConcatAssociative
<1>6. Len(s) \in Nat /\ Len(s) > 0
  BY <1>1, EmptySeq, LenProperties DEF Walk
<1>7. SubSeq(t, 1, Len(s)) = s
  BY <1>1, <1>6, SubSeqOfConcat1, SubSeqFull
<1> HIDE DEF t
<1>8. Walk(t) /\ t[Len(t)] = y
  BY <1>3, <1>5
<1>9. Len(s) < Len(t)
  <2>1. s \o <<x>> \in Seq(States) /\ t \in Seq(States)
    BY <1>2, <1>8 DEF Walk
  <2>2. Len(s \o <<x>>) \in Nat /\ Len(t) \in Nat /\ Len(s \o <<x>>) < Len(t)
    BY <2>1, <1>3, <1>5, LenProperties
  <2> QED  BY <1>2, <1>6, <2>2
<1>10. Moved(s, t)
  BY <1>7, <1>8, <1>9 DEF Moved, Walk, Lifecycle!Follows
<1>11. Lifecycle!Terminal(t) <=> Lifecycle!Transitions[y] = {}
  BY <1>8 DEF Walk, Lifecycle!Terminal
<1> QED
  BY <1>8, <1>10, <1>11 DEF t

(* The first entries of a trace. *)
LEMMA Created ==
  /\ Moved(<<>>, <<"CREATED", "RISK_CHECKED">>) /\ Walk(<<"CREATED", "RISK_CHECKED">>)
  /\ ~ Lifecycle!Terminal(<<"CREATED", "RISK_CHECKED">>)
  /\ Moved(<<>>, <<"CREATED", "REJECTED">>) /\ Append(<<"CREATED">>, "REJECTED") = <<"CREATED", "REJECTED">>
  /\ Lifecycle!Terminal(<<"CREATED", "REJECTED">>)
<1> DEFINE Pair(x) == <<"CREATED", x>>
<1>1. ASSUME NEW x \in States, x \in Lifecycle!Transitions["CREATED"]
      PROVE  /\ Moved(<<>>, Pair(x)) /\ Walk(Pair(x))
             /\ Lifecycle!Terminal(Pair(x)) <=> Lifecycle!Transitions[x] = {}
  <2>1. /\ Pair(x) \in Seq(States) /\ Len(Pair(x)) = 2 /\ Pair(x)[1] = "CREATED" /\ Pair(x)[2] = x
        /\ Pair(x) # <<>> /\ Len(<<>>) = 0
    BY DEF States
  <2>2. SubSeq(Pair(x), 1, 0) = <<>>
    BY <2>1, SubSeqEmpty
  <2> HIDE DEF Pair
  <2>3. \A i \in 1 .. Len(Pair(x)) - 1 : Pair(x)[i + 1] \in Lifecycle!Transitions[Pair(x)[i]]
    <3>1. \A i \in 1 .. Len(Pair(x)) - 1 : i = 1
      BY <2>1
    <3> QED  BY <1>1, <2>1, <3>1
  <2>4. Walk(Pair(x))
    BY <2>1, <2>3 DEF Walk
  <2>5. Moved(<<>>, Pair(x))
    BY <2>1, <2>2, <2>3 DEF Moved, Lifecycle!Follows
  <2>6. Lifecycle!Terminal(Pair(x)) <=> Lifecycle!Transitions[x] = {}
    BY <2>1 DEF Lifecycle!Terminal
  <2> QED  BY <2>4, <2>5, <2>6
<1>2. Lifecycle!Transitions["RISK_CHECKED"] # {} /\ Lifecycle!Transitions["REJECTED"] = {}
  BY Table
<1>3. "RISK_CHECKED" \in Lifecycle!Transitions["CREATED"] /\ "REJECTED" \in Lifecycle!Transitions["CREATED"]
  BY Table
<1>4. Append(<<"CREATED">>, "REJECTED") = <<"CREATED", "REJECTED">>
  BY PairOfOnes DEF States
<1> QED
  BY <1>1, <1>2, <1>3, <1>4 DEF States

(* A step that moves the history of one dispatch. *)
Audited(y) == y.audit = IF Lifecycle!Terminal(History(y)) THEN History(y)[Len(History(y))] ELSE NoAudit

LEMMA DispatchMoves ==
  ASSUME DispatchInv, NEW d \in Dispatches, NEW y \in Executions, Traced(y), Put(d, y),
         Moved(History(ex[d]), History(y)), Audited(y)
  PROVE  DispatchInv' /\ Lifecycle!Next
<1>1. ex' \in [Dispatches -> Executions] /\ ex'[d] = y /\ \A e \in Dispatches : e # d => ex'[e] = ex[e]
  BY DEF DispatchInv, Put
<1>2. DispatchInv'
  BY <1>1 DEF DispatchInv, Put, Traced, Walk
<1> DEFINE h == [e \in Dispatches |-> History(ex[e])]  hN == [e \in Dispatches |-> History(ex'[e])]
           a == [e \in Dispatches |-> ex[e].audit]  aN == [e \in Dispatches |-> ex'[e].audit]
<1>3. hN = [h EXCEPT ![d] = hN[d]] /\ aN = [a EXCEPT ![d] = aN[d]]
  BY <1>1
<1>4. h[d] = History(ex[d]) /\ hN[d] = History(y) /\ aN[d] = y.audit
  BY <1>1
<1>5. Histories = h /\ Histories' = hN /\ Audits = a /\ Audits' = aN
  BY DEF Histories, Audits, History
<1> HIDE DEF h, hN, a, aN
<1>6. Lifecycle!Extend(d)
  BY <1>3, <1>4, <1>5 DEF Lifecycle!Extend, Moved, Audited
<1> QED
  BY <1>2, <1>6 DEF Lifecycle!Next

(* A step that leaves every history as it is. *)
LEMMA DispatchStays ==
  ASSUME DispatchInv, NEW d \in Dispatches, NEW y \in Executions, Traced(y), Put(d, y),
         y.lifecycle = ex[d].lifecycle, y.outcome = ex[d].outcome, y.audit = ex[d].audit
  PROVE  DispatchInv' /\ UNCHANGED <<Histories, Audits>>
<1>1. ex' \in [Dispatches -> Executions] /\ ex'[d] = y /\ \A e \in Dispatches : e # d => ex'[e] = ex[e]
  BY DEF DispatchInv, Put
<1>2. DispatchInv'
  BY <1>1 DEF DispatchInv, Put, Traced, Walk
<1>3. \A e \in Dispatches : History(ex'[e]) = History(ex[e]) /\ ex'[e].audit = ex[e].audit
  BY <1>1 DEF History
<1> QED
  BY <1>2, <1>3 DEF Histories, Audits, History

LEMMA ExecutionOf ==
  ASSUME DispatchInv, NEW d \in Dispatches
  PROVE  /\ ex[d] \in Executions /\ Traced(ex[d])
         /\ ex[d].lifecycle \in Seq(States) /\ clock \in Nat /\ holds \in SUBSET Facts
  BY DEF DispatchInv, Executions

LEMMA BuildStays ==
  ASSUME DispatchInv, NEW d \in Dispatches, BuildIntent(d) \/ ReadRisk(d)
  PROVE  DispatchInv' /\ UNCHANGED <<Histories, Audits>>
<1> USE ExecutionOf
<1>1. CASE BuildIntent(d)
  <2> DEFINE x == ex[d]  y == [x EXCEPT !.pc = "built", !.expires = clock + TTL]
  <2>1. x \in Executions /\ x.pc = "none" /\ Traced(x) /\ clock + TTL \in Int /\ Put(d, y)
    BY <1>1, DispatchBounds DEF BuildIntent
  <2> HIDE DEF x
  <2>2. y \in Executions /\ y.pc = "built" /\ y.lifecycle = x.lifecycle /\ y.outcome = x.outcome /\ y.audit = x.audit
    BY <2>1 DEF Executions
  <2> HIDE DEF y
  <2>3. Traced(y)
    BY <2>1, <2>2, HooksInOrder DEF Traced
  <2> QED  BY <2>1, <2>2, <2>3, DispatchStays DEF x
<1>2. CASE ReadRisk(d)
  <2> DEFINE x == ex[d]  y == [x EXCEPT !.pc = "read", !.risk = holds]
  <2>1. x \in Executions /\ x.pc = "built" /\ Traced(x) /\ holds \in SUBSET Facts /\ Put(d, y)
    BY <1>2 DEF ReadRisk
  <2> HIDE DEF x
  <2>2. y \in Executions /\ y.pc = "read" /\ y.lifecycle = x.lifecycle /\ y.outcome = x.outcome /\ y.audit = x.audit
    BY <2>1 DEF Executions
  <2> HIDE DEF y
  <2>3. Traced(y)
    BY <2>1, <2>2, HooksInOrder DEF Traced
  <2> QED  BY <2>1, <2>2, <2>3, DispatchStays DEF x
<1> QED  BY <1>1, <1>2

LEMMA ThrowStays ==
  ASSUME DispatchInv, NEW d \in Dispatches, Throw(d)
  PROVE  DispatchInv' /\ UNCHANGED <<Histories, Audits>>
<1> DEFINE x == ex[d]  y == [x EXCEPT !.pc = "end"]
<1>1. x \in Executions /\ Put(d, y)
  BY ExecutionOf DEF Throw
<1> HIDE DEF x
<1>2. y \in Executions /\ y.pc = "end" /\ y.lifecycle = x.lifecycle /\ y.outcome = x.outcome /\ y.audit = x.audit
  BY <1>1 DEF Executions
<1> HIDE DEF y
<1>3. Traced(y)
  BY <1>2, HooksInOrder DEF Traced
<1> QED  BY <1>1, <1>2, <1>3, DispatchStays DEF x

LEMMA StartMoves ==
  ASSUME DispatchInv, NEW d \in Dispatches, Start(d)
  PROVE  DispatchInv' /\ Lifecycle!Next
<1> DEFINE x == ex[d]
           y == [x EXCEPT !.lifecycle = <<"CREATED", "RISK_CHECKED">>, !.pc = "quote"]
           z == [x EXCEPT !.lifecycle = <<"CREATED">>, !.pc = "end", !.outcome = "REJECTED", !.audit = "REJECTED"]
<1>1. /\ x \in Executions /\ x.pc = "read" /\ x.lifecycle = <<>> /\ x.outcome = NoAudit /\ x.audit = NoAudit
      /\ History(x) = <<>>
  BY ExecutionOf, NoAuditIsNoState DEF Start, Traced, History
<1>2. Hooks[1] = "quote" /\ Append(<<"CREATED">>, "RISK_CHECKED") = <<"CREATED", "RISK_CHECKED">>
  BY PairOfOnes DEF Hooks, States
<1>3. Put(d, y) \/ Put(d, z)
  <2> DEFINE w == [x EXCEPT !.lifecycle = <<"CREATED">>]
  <2>1. /\ w.lifecycle = <<"CREATED">>
        /\ [w EXCEPT !.lifecycle = Append(@, "RISK_CHECKED"), !.pc = Hooks[1]] = y
        /\ Closed(w, "REJECTED") = z
    BY <1>1, <1>2 DEF Executions, Closed
  <2> QED  BY <2>1 DEF Start
<1>4. /\ y.pc = "quote" /\ y.lifecycle = <<"CREATED", "RISK_CHECKED">> /\ y.outcome = NoAudit /\ y.audit = NoAudit
      /\ y \in Executions
  <2>1. "quote" \in HookNames /\ <<"CREATED", "RISK_CHECKED">> \in Seq(States)
    BY HooksInOrder DEF States
  <2> HIDE DEF x
  <2> QED  BY <1>1, <2>1 DEF Executions
<1>5. /\ z.pc = "end" /\ z.lifecycle = <<"CREATED">> /\ z.outcome = "REJECTED" /\ z.audit = "REJECTED"
      /\ z \in Executions
  <2>1. <<"CREATED">> \in Seq(States) /\ "REJECTED" \in States
    BY DEF States
  <2> HIDE DEF x
  <2> QED  BY <1>1, <2>1 DEF Executions
<1>6. ASSUME Put(d, y) PROVE DispatchInv' /\ Lifecycle!Next
  <2> HIDE DEF y
  <2>1. History(y) = <<"CREATED", "RISK_CHECKED">>
    BY <1>4, NoAuditIsNoState DEF History
  <2>2. Traced(y)
    <3>1. <<"CREATED", "RISK_CHECKED">>[Len(<<"CREATED", "RISK_CHECKED">>)] = "RISK_CHECKED"
      OBVIOUS
    <3> QED  BY <1>4, <3>1, Created, HooksInOrder DEF Traced, StateBefore
  <2>3. Moved(History(x), History(y)) /\ Audited(y)
    BY <1>1, <1>4, <2>1, Created DEF Audited
  <2> QED  BY <1>4, <1>6, <2>2, <2>3, DispatchMoves
<1>7. ASSUME Put(d, z) PROVE DispatchInv' /\ Lifecycle!Next
  <2> HIDE DEF z
  <2>1. History(z) = <<"CREATED", "REJECTED">>
    BY <1>5, Created DEF History
  <2>2. Traced(z)
    BY <1>5, HooksInOrder DEF Traced
  <2>3. Moved(History(x), History(z)) /\ Audited(z)
    <3>1. <<"CREATED", "REJECTED">>[Len(<<"CREATED", "REJECTED">>)] = "REJECTED"
      OBVIOUS
    <3> QED  BY <1>1, <1>5, <2>1, <3>1, Created DEF Audited
  <2> QED  BY <1>5, <1>7, <2>2, <2>3, DispatchMoves
<1> QED
  BY <1>3, <1>6, <1>7

(* A dispatch that waits for a hook, and what it becomes. *)
Waiting(x) ==
  /\ x \in Executions /\ x.pc \in HookNames
  /\ Walk(x.lifecycle) /\ x.lifecycle[Len(x.lifecycle)] = StateBefore[x.pc]
  /\ x.outcome = NoAudit /\ x.audit = NoAudit

LEMMA WaitsIsWaiting ==
  ASSUME DispatchInv, NEW d \in Dispatches, Waits(d)
  PROVE  Waiting(ex[d]) /\ History(ex[d]) = ex[d].lifecycle
<1>1. ex[d].pc \in HookNames
  BY DEF Waits, HookNames
<1> QED
  BY <1>1, ExecutionOf, NoAuditIsNoState DEF Waiting, Traced, History

(* An answer to all hooks but the third and the last adds one state. *)
LEMMA AnsweredOnce ==
  ASSUME NEW x, Waiting(x), NEW state \in States, NEW hook \in HookNames,
         x.pc \in {"quote", "simulation", "confirmation"},
         Reached[x.pc] = <<state>>, NextHook(x.pc) = hook, StateBefore[hook] = state,
         state \in Lifecycle!Transitions[StateBefore[x.pc]], Lifecycle!Transitions[state] # {}
  PROVE  /\ Answered(x) \in Executions /\ Traced(Answered(x)) /\ Audited(Answered(x))
         /\ Moved(x.lifecycle, History(Answered(x)))
<1> DEFINE s == x.lifecycle  t == s \o <<state>>  y == [x EXCEPT !.lifecycle = t, !.pc = hook]
<1>1. Answered(x) = y
  BY HooksInOrder DEF Answered
<1>2. Moved(s, t) /\ Walk(t) /\ t[Len(t)] = state /\ ~ Lifecycle!Terminal(t)
  BY Moves DEF Waiting
<1>3. t \in Seq(States)
  BY <1>2 DEF Walk
<1> HIDE DEF t
<1>4. y \in Executions /\ y.pc = hook /\ y.lifecycle = t /\ y.outcome = NoAudit /\ y.audit = NoAudit
  BY <1>3 DEF Waiting, Executions
<1> HIDE DEF y
<1>5. History(y) = t
  BY <1>4, NoAuditIsNoState DEF History
<1>6. Traced(y)
  BY <1>2, <1>4, HooksInOrder DEF Traced
<1> QED
  BY <1>1, <1>2, <1>4, <1>5, <1>6 DEF Audited

LEMMA AnsweredTwice ==
  ASSUME NEW x, Waiting(x), x.pc = "authorization"
  PROVE  /\ Answered(x) \in Executions /\ Traced(Answered(x)) /\ Audited(Answered(x))
         /\ Moved(x.lifecycle, History(Answered(x)))
<1> DEFINE s == x.lifecycle  t == s \o <<"AUTHORIZED", "DISPATCHED">>
           y == [x EXCEPT !.lifecycle = t, !.pc = "confirmation"]
<1>1. Answered(x) = y
  <2>1. Reached[x.pc] = <<"AUTHORIZED", "DISPATCHED">> /\ NextHook(x.pc) = "confirmation"
    BY HooksInOrder DEF Reached
  <2> QED  BY <2>1 DEF Answered
<1>2. Moved(s, t) /\ Walk(t) /\ t[Len(t)] = "DISPATCHED" /\ ~ Lifecycle!Terminal(t)
  <2>1. /\ "AUTHORIZED" \in States /\ "DISPATCHED" \in States /\ s[Len(s)] = "SIMULATED"
        /\ Lifecycle!Transitions["DISPATCHED"] # {}
    BY Table DEF States, Waiting, StateBefore
  <2> QED  BY <2>1, Table, MovesTwice DEF Waiting
<1>3. t \in Seq(States)
  BY <1>2 DEF Walk
<1> HIDE DEF t
<1>4. y \in Executions /\ y.pc = "confirmation" /\ y.lifecycle = t /\ y.outcome = NoAudit /\ y.audit = NoAudit
  BY <1>3, HooksInOrder DEF Waiting, Executions
<1> HIDE DEF y
<1>5. History(y) = t
  BY <1>4, NoAuditIsNoState DEF History
<1>6. Traced(y)
  BY <1>2, <1>4, HooksInOrder DEF Traced, StateBefore
<1> QED
  BY <1>1, <1>2, <1>4, <1>5, <1>6 DEF Audited

LEMMA AnsweredLast ==
  ASSUME NEW x, Waiting(x), x.pc = "reconciliation"
  PROVE  /\ Answered(x) \in Executions /\ Traced(Answered(x)) /\ Audited(Answered(x))
         /\ Moved(x.lifecycle, History(Answered(x)))
<1> DEFINE s == x.lifecycle  t == s \o <<"RECONCILED">>
           y == [x EXCEPT !.lifecycle = t, !.pc = "end", !.outcome = "RECONCILED", !.audit = "RECONCILED"]
<1>1. Answered(x) = y
  <2>1. Reached[x.pc] = <<"RECONCILED">> /\ NextHook(x.pc) = "end"
    BY HooksInOrder DEF Reached
  <2>2. x \in Executions
    BY DEF Waiting
  <2>3. [[x EXCEPT !.lifecycle = t, !.pc = "end"] EXCEPT !.pc = "end", !.outcome = "RECONCILED", !.audit = "RECONCILED"] = y
    BY <2>2 DEF Executions
  <2> HIDE DEF y
  <2> QED  BY <2>1, <2>3 DEF Answered, Closed
<1>2. Moved(s, t) /\ Walk(t) /\ t[Len(t)] = "RECONCILED" /\ Lifecycle!Terminal(t)
  <2>1. "RECONCILED" \in States /\ s[Len(s)] = "CONFIRMED" /\ Lifecycle!Transitions["RECONCILED"] = {}
    BY Table DEF States, Waiting, StateBefore
  <2> QED  BY <2>1, Table, Moves DEF Waiting
<1>3. t \in Seq(States) /\ "RECONCILED" \in States
  BY <1>2 DEF Walk, States
<1> HIDE DEF t
<1>4. /\ y \in Executions /\ y.pc = "end" /\ y.lifecycle = t
      /\ y.outcome = "RECONCILED" /\ y.audit = "RECONCILED"
  BY <1>3 DEF Waiting, Executions
<1> HIDE DEF y
<1>5. History(y) = t
  BY <1>4 DEF History
<1>6. Traced(y)
  BY <1>4, HooksInOrder DEF Traced
<1> QED
  BY <1>1, <1>2, <1>4, <1>5, <1>6 DEF Audited

LEMMA AnswerMoves ==
  ASSUME DispatchInv, NEW d \in Dispatches, Answer(d)
  PROVE  DispatchInv' /\ Lifecycle!Next
<1> DEFINE x == ex[d]
<1>1. Waiting(x) /\ History(x) = x.lifecycle /\ Put(d, Answered(x))
  BY WaitsIsWaiting DEF Answer
<1> HIDE DEF x
<1>2. /\ Answered(x) \in Executions /\ Traced(Answered(x)) /\ Audited(Answered(x))
      /\ Moved(x.lifecycle, History(Answered(x)))
  <2>1. CASE x.pc = "authorization"
    BY <1>1, <2>1, AnsweredTwice
  <2>2. CASE x.pc = "reconciliation"
    BY <1>1, <2>2, AnsweredLast
  <2>3. CASE x.pc = "quote"
    <3>1. /\ Reached[x.pc] = <<"QUOTED">> /\ NextHook(x.pc) = "simulation" /\ "QUOTED" \in States
          /\ StateBefore["simulation"] = "QUOTED" /\ StateBefore[x.pc] = "RISK_CHECKED" /\ "simulation" \in HookNames
      BY <2>3, HooksInOrder DEF Reached, States, StateBefore
    <3> QED  BY <1>1, <2>3, <3>1, Table, AnsweredOnce
  <2>4. CASE x.pc = "simulation"
    <3>1. /\ Reached[x.pc] = <<"SIMULATED">> /\ NextHook(x.pc) = "authorization" /\ "SIMULATED" \in States
          /\ StateBefore["authorization"] = "SIMULATED" /\ StateBefore[x.pc] = "QUOTED" /\ "authorization" \in HookNames
      BY <2>4, HooksInOrder DEF Reached, States, StateBefore
    <3> QED  BY <1>1, <2>4, <3>1, Table, AnsweredOnce
  <2>5. CASE x.pc = "confirmation"
    <3>1. /\ Reached[x.pc] = <<"CONFIRMED">> /\ NextHook(x.pc) = "reconciliation" /\ "CONFIRMED" \in States
          /\ StateBefore["reconciliation"] = "CONFIRMED" /\ StateBefore[x.pc] = "DISPATCHED" /\ "reconciliation" \in HookNames
      BY <2>5, HooksInOrder DEF Reached, States, StateBefore
    <3> QED  BY <1>1, <2>5, <3>1, Table, AnsweredOnce
  <2> QED  BY <1>1, <2>1, <2>2, <2>3, <2>4, <2>5, HooksInOrder DEF Waiting
<1> QED
  BY <1>1, <1>2, DispatchMoves DEF x

LEMMA RefusalMoves ==
  ASSUME DispatchInv, NEW d \in Dispatches, RefuseHook(d)
  PROVE  DispatchInv' /\ Lifecycle!Next
<1> DEFINE x == ex[d]  s == x.lifecycle  r == Refusal(x.pc)
           y == [x EXCEPT !.pc = "end", !.outcome = r, !.audit = r]
<1>1. Waiting(x) /\ History(x) = s /\ Put(d, y)
  BY WaitsIsWaiting DEF RefuseHook, Closed
<1> HIDE DEF x
<1>2. /\ r \in {"REJECTED", "FAILED"} /\ r \in States /\ r \in Lifecycle!Transitions[s[Len(s)]]
      /\ Lifecycle!Transitions[r] = {}
  BY <1>1, Table, HooksInOrder DEF Waiting, StateBefore, Refusal, States
<1> HIDE DEF r
<1>3. /\ Moved(s, Append(s, r)) /\ Append(s, r)[Len(Append(s, r))] = r /\ Lifecycle!Terminal(Append(s, r))
  <2>1. Walk(s)
    BY <1>1 DEF Waiting
  <2>2. /\ Moved(s, s \o <<r>>) /\ Append(s, r) = s \o <<r>> /\ (s \o <<r>>)[Len(s \o <<r>>)] = r
        /\ Lifecycle!Terminal(s \o <<r>>)
    BY <1>2, <2>1, Moves
  <2> QED  BY <2>2
<1>4. y \in Executions /\ y.pc = "end" /\ y.lifecycle = s /\ y.outcome = r /\ y.audit = r
  BY <1>1, <1>2 DEF Waiting, Executions
<1> HIDE DEF y
<1>5. History(y) = Append(s, r) /\ Traced(y)
  BY <1>2, <1>4, HooksInOrder DEF History, Traced
<1>6. Audited(y)
  BY <1>3, <1>4, <1>5 DEF Audited
<1> QED
  BY <1>1, <1>3, <1>4, <1>5, <1>6, DispatchMoves DEF x

LEMMA DispatchStart == DispatchInit => DispatchInv /\ Lifecycle!Init
<1> SUFFICES ASSUME DispatchInit PROVE DispatchInv /\ Lifecycle!Init
  OBVIOUS
<1>1. NoDispatch \in Executions /\ Traced(NoDispatch) /\ History(NoDispatch) = <<>> /\ NoDispatch.audit = NoAudit
  BY NoAuditIsNoState, HooksInOrder DEF NoDispatch, Executions, Traced, History
<1>2. ex = [d \in Dispatches |-> NoDispatch] /\ clock \in Nat /\ holds \in SUBSET Facts
  BY DEF DispatchInit
<1>3. Histories = [d \in Dispatches |-> <<>>] /\ Audits = [d \in Dispatches |-> NoAudit]
  BY <1>1, <1>2 DEF Histories, Audits
<1> QED
  BY <1>1, <1>2, <1>3 DEF DispatchInv, Lifecycle!Init

LEMMA DispatchStep ==
  DispatchInv /\ [DispatchNext]_dispatchVars => DispatchInv' /\ [Lifecycle!Next]_<<Histories, Audits>>
<1> SUFFICES ASSUME DispatchInv, [DispatchNext]_dispatchVars
             PROVE  DispatchInv' /\ [Lifecycle!Next]_<<Histories, Audits>>
  OBVIOUS
<1>1. ASSUME ex' = ex, clock' \in Nat, holds' \in SUBSET Facts
      PROVE  DispatchInv' /\ UNCHANGED <<Histories, Audits>>
  BY <1>1 DEF DispatchInv, Traced, Walk, Histories, Audits, History
<1>2. CASE PassTime
  BY <1>1, <1>2 DEF PassTime, DispatchInv
<1>3. ASSUME NEW fact \in Facts, Change(fact) PROVE DispatchInv' /\ UNCHANGED <<Histories, Audits>>
  BY <1>1, <1>3 DEF Change, DispatchInv
<1>4. CASE UNCHANGED dispatchVars
  BY <1>1, <1>4 DEF dispatchVars, DispatchInv
<1>5. ASSUME NEW d \in Dispatches,
             BuildIntent(d) \/ ReadRisk(d) \/ Start(d) \/ Answer(d) \/ RefuseHook(d) \/ Throw(d)
      PROVE  DispatchInv' /\ [Lifecycle!Next]_<<Histories, Audits>>
  BY <1>5, BuildStays, ThrowStays, StartMoves, AnswerMoves, RefusalMoves
<1> QED
  BY <1>2, <1>3, <1>4, <1>5 DEF DispatchNext

(* Whatever the hooks answer, a dispatch moves along the transition table  *)
(* of the boundary and is audited once, as the state it ended in: the      *)
(* dispatcher implements what an execution promises.                       *)
THEOREM DispatchesLifecycle == DispatchSpec => DispatchImplemented
<1>1. DispatchInit => DispatchInv /\ Lifecycle!Init
  BY DispatchStart
<1>2. DispatchInv /\ [DispatchNext]_dispatchVars => DispatchInv' /\ [Lifecycle!Next]_<<Histories, Audits>>
  BY DispatchStep
<1> QED
  BY <1>1, <1>2, PTL DEF DispatchSpec, DispatchImplemented, Lifecycle!Spec
-----------------------------------------------------------------------------
(* Pages.  A chart asked for that is not the last one's is never drawn.    *)
Tokenish == Mints \cup {NoMint}

Markets == [frame : Frames, detail : Tokenish, looked : Nat, asked : Nat,
            looks : SUBSET [id : Nat, mint : Mints, enhanced : BOOLEAN, checked : BOOLEAN],
            loads : SUBSET [id : Nat, mint : Mints, frame : Frames],
            chart : [mint : Tokenish, frame : Frames, by : Nat],
            readout : Frames, address : Tokenish \X Frames, busy : BOOLEAN]

Awaited(m) == \E load \in m.loads : load.id = m.asked

ChartKept(m) ==
  /\ m \in Markets
  /\ Awaited(m) \/ m.chart.by \in {0, m.asked}
  /\ m.chart # NoChart => m.address = <<m.chart.mint, m.chart.frame>>

Few == 0 .. 1

Demos == [running : BOOLEAN, inFlight : Few, starting : BOOLEAN, loops : Int, held : BOOLEAN]

DemoKept(s) ==
  /\ s \in Demos
  /\ s.inFlight = 1 <=> s.running

ConsentKept(c) ==
  /\ c \in [checked : BOOLEAN, enabled : BOOLEAN, posts : Int, done : BOOLEAN]
  /\ c.enabled => c.checked

PagesKept == ChartKept(market) /\ DemoKept(demo) /\ ConsentKept(consent)

LEMMA NoChartTyped == NoChart \in [mint : Tokenish, frame : Frames, by : Nat] /\ NoChart.by = 0
  BY BaseFrameIsOne DEF NoChart, Tokenish

LEMMA ChartLoaded ==
  ASSUME NEW m, ChartKept(m), NEW mint \in Mints
  PROVE  ChartKept(LoadChart(m, mint)) /\ LoadChart(m, mint).looks = m.looks
<1> DEFINE load == [id |-> m.asked + 1, mint |-> mint, frame |-> m.frame]
           n == LoadChart(m, mint)
<1>1. m \in Markets /\ load \in [id : Nat, mint : Mints, frame : Frames] /\ load.id = m.asked + 1
  BY DEF ChartKept, Markets
<1> HIDE DEF load
<1>2. n = [m EXCEPT !.asked = @ + 1, !.busy = TRUE, !.loads = @ \cup {load}]
  BY DEF LoadChart, load
<1> HIDE DEF n
<1>3. n \in Markets /\ n.asked = m.asked + 1 /\ n.loads = m.loads \cup {load} /\ n.chart = m.chart
      /\ n.address = m.address /\ n.looks = m.looks
  <2> DEFINE asked == m.asked + 1  loads == m.loads \cup {load}
  <2>1. asked \in Nat /\ loads \in SUBSET [id : Nat, mint : Mints, frame : Frames]
    BY <1>1 DEF Markets
  <2>2. n = [m EXCEPT !.asked = asked, !.busy = TRUE, !.loads = loads]
    BY <1>2
  <2> HIDE DEF asked, loads
  <2>3. n \in Markets /\ n.asked = asked /\ n.loads = loads /\ n.chart = m.chart
        /\ n.address = m.address /\ n.looks = m.looks
    BY <1>1, <2>1, <2>2 DEF Markets
  <2> QED  BY <2>3 DEF asked, loads
<1>4. Awaited(n)
  BY <1>1, <1>3 DEF Awaited
<1>5. ChartKept(n)
  BY <1>3, <1>4 DEF ChartKept
<1> QED  BY <1>3, <1>5 DEF n

(* What leaves the requests for charts and the chart as they are, or       *)
(* removes the chart.                                                      *)
LEMMA ChartUntouched ==
  ASSUME NEW m, ChartKept(m), NEW n \in Markets, n.loads = m.loads, n.asked = m.asked,
         n.chart = NoChart \/ (n.chart = m.chart /\ n.address = m.address)
  PROVE  ChartKept(n)
  BY NoChartTyped DEF ChartKept, Awaited

LEMMA ChartOver ==
  ASSUME NEW m, ChartKept(m), NEW look \in m.looks
  PROVE  ChartKept(Over(m, look))
<1> DEFINE n == [m EXCEPT !.looks = @ \ {look}]
<1>1. m \in Markets
  BY DEF ChartKept
<1>2. look.mint \in Mints
  BY <1>1 DEF Markets
<1>3. n \in Markets /\ n.loads = m.loads /\ n.asked = m.asked /\ n.chart = m.chart /\ n.address = m.address
  BY <1>1 DEF Markets
<1>4. Over(m, look) = IF look.enhanced /\ n.frame # BaseFrame THEN LoadChart(n, look.mint) ELSE n
  BY DEF Over, EnhancedAnalyze
<1> HIDE DEF n
<1>5. ChartKept(n)
  BY <1>3, ChartUntouched
<1> QED  BY <1>2, <1>4, <1>5, ChartLoaded

LEMMA ChartBlanked ==
  ASSUME NEW m, ChartKept(m)
  PROVE  ChartKept(Blanked(m)) /\ Blanked(m).looks = m.looks
<1>1. m \in Markets
  BY DEF ChartKept
<1>2. Blanked(m) \in Markets /\ Blanked(m).loads = m.loads /\ Blanked(m).asked = m.asked
      /\ Blanked(m).chart = NoChart /\ Blanked(m).looks = m.looks
  BY <1>1, NoChartTyped DEF Blanked, Markets
<1> QED  BY <1>2, ChartUntouched

LEMMA ChartDrawn ==
  ASSUME NEW m \in Markets, NEW mint \in Mints, NEW frame \in Frames, NEW by \in {0, m.asked}, NEW got
  PROVE  ChartKept(CandleChart(m, mint, frame, by, got)) /\ CandleChart(m, mint, frame, by, got).looks = m.looks
<1> DEFINE n == IF got = "candles" THEN Readout(m) ELSE m
           chart == IF got = "candles" THEN [mint |-> mint, frame |-> frame, by |-> by] ELSE NoChart
           c == CandleChart(m, mint, frame, by, got)
<1>1. n \in Markets /\ n.asked = m.asked /\ n.looks = m.looks /\ m.asked \in Nat
  BY DEF Readout, Markets
<1>2. /\ chart \in [mint : Tokenish, frame : Frames, by : Nat] /\ chart.by \in {0, m.asked}
      /\ chart # NoChart => <<mint, frame>> = <<chart.mint, chart.frame>>
  BY <1>1, NoChartTyped DEF Tokenish
<1>3. <<mint, frame>> \in Tokenish \X Frames
  BY DEF Tokenish
<1>4. c = [n EXCEPT !.chart = chart, !.address = <<mint, frame>>]
  BY DEF CandleChart
<1> HIDE DEF n, chart, c
<1>5. c \in Markets /\ c.asked = m.asked /\ c.looks = m.looks /\ c.chart = chart /\ c.address = <<mint, frame>>
  BY <1>1, <1>2, <1>3, <1>4 DEF Markets
<1> QED  BY <1>2, <1>5 DEF ChartKept, c

LEMMA TokenLookedUp ==
  ASSUME NEW m, ChartKept(m), NEW mint \in Mints, NEW enhanced \in BOOLEAN
  PROVE  ChartKept(LookUp(m, mint, enhanced))
<1> DEFINE look == [id |-> m.looked + 1, mint |-> mint, enhanced |-> enhanced, checked |-> FALSE]
           n == LookUp(m, mint, enhanced)
<1>1. m \in Markets /\ look \in [id : Nat, mint : Mints, enhanced : BOOLEAN, checked : BOOLEAN]
  BY DEF ChartKept, Markets
<1> HIDE DEF look
<1>2. n = [m EXCEPT !.looked = @ + 1, !.detail = mint, !.looks = @ \cup {look}]
  BY DEF LookUp, look
<1> HIDE DEF n
<1>3. n \in Markets /\ n.loads = m.loads /\ n.asked = m.asked /\ n.chart = m.chart /\ n.address = m.address
  <2> DEFINE looked == m.looked + 1  looks == m.looks \cup {look}
  <2>1. looked \in Nat /\ mint \in Tokenish
        /\ looks \in SUBSET [id : Nat, mint : Mints, enhanced : BOOLEAN, checked : BOOLEAN]
    BY <1>1 DEF Markets, Tokenish
  <2>2. n = [m EXCEPT !.looked = looked, !.detail = mint, !.looks = looks]
    BY <1>2
  <2> HIDE DEF looked, looks
  <2> QED  BY <1>1, <2>1, <2>2 DEF Markets
<1>4. ChartKept(n)
  BY <1>3, ChartUntouched
<1> QED  BY <1>4 DEF n

LEMMA PagesStart == PagesInit => PagesKept
<1> SUFFICES ASSUME PagesInit  PROVE PagesKept
  OBVIOUS
<1>1. DemoKept(demo) /\ ConsentKept(consent)
  BY DEF PagesInit, NoDemo, NoConsent, DemoKept, Demos, Few, ConsentKept
<1>2. ASSUME NEW frame \in Frames, NEW mint \in Tokenish  PROVE ChartKept(Opened(frame, mint))
  <2> DEFINE m == [frame |-> frame, detail |-> NoMint, looked |-> 0, asked |-> 0, looks |-> {}, loads |-> {},
                   chart |-> NoChart, readout |-> BaseFrame, address |-> <<mint, frame>>, busy |-> FALSE]
  <2>1. m \in Markets /\ m.chart = NoChart
    BY NoChartTyped, BaseFrameIsOne DEF Markets, Tokenish
  <2>2. Opened(frame, mint) = IF mint = NoMint THEN m
                              ELSE IF frame = BaseFrame THEN LookUp(m, mint, FALSE)
                              ELSE LoadChart(LookUp(m, mint, FALSE), mint)
    BY DEF Opened
  <2> HIDE DEF m
  <2>3. ChartKept(m)
    BY <2>1, NoChartTyped DEF ChartKept
  <2>4. CASE mint # NoMint
    <3>1. mint \in Mints
      BY <2>4 DEF Tokenish
    <3>2. ChartKept(LookUp(m, mint, FALSE))
      BY <2>3, <3>1, TokenLookedUp
    <3> QED  BY <2>2, <2>4, <3>1, <3>2, ChartLoaded
  <2> QED  BY <2>2, <2>3, <2>4
<1>3. ChartKept(market)
  BY <1>2, BaseFrameIsOne DEF PagesInit, Tokenish
<1> QED  BY <1>1, <1>3 DEF PagesKept

LEMMA ChartNext ==
  ASSUME PagesKept, UNCHANGED <<demo, consent>>, ChartKept(market')
  PROVE  PagesKept'
  BY DEF PagesKept, DemoKept, ConsentKept, ChartKept, Awaited, Markets, NoChart, Tokenish

LEMMA MarketStep ==
  ASSUME PagesKept,
         \/ \E mint \in Mints : Analyze(mint)
         \/ \E look \in market.looks :
              \/ \E ok \in BOOLEAN : TokenHead(look, ok)
              \/ TokenLost(look)
              \/ \E got \in {"candles", "empty"} : TokenBody(look, got)
         \/ \E frame \in Frames, typed \in Mints \cup {NoMint} : ChooseFrame(frame, typed)
         \/ \E load \in market.loads, got \in {"candles", "empty", "failed"} : ChartAnswer(load, got)
         \/ Point
  PROVE  ChartKept(market') /\ UNCHANGED <<demo, consent>>
<1>1. ChartKept(market) /\ market \in Markets
  BY DEF PagesKept, ChartKept
<1>2. ASSUME NEW mint \in Mints, Analyze(mint)  PROVE ChartKept(market') /\ UNCHANGED <<demo, consent>>
  BY <1>1, <1>2, TokenLookedUp DEF Analyze
<1>3. ASSUME NEW look \in market.looks, NEW ok \in BOOLEAN, TokenHead(look, ok)
      PROVE  ChartKept(market') /\ UNCHANGED <<demo, consent>>
  <2> DEFINE n == [market EXCEPT !.looks = (@ \ {look}) \cup {[look EXCEPT !.checked = TRUE]}]
  <2>1. [look EXCEPT !.checked = TRUE] \in [id : Nat, mint : Mints, enhanced : BOOLEAN, checked : BOOLEAN]
    BY <1>1 DEF Markets
  <2>2. n \in Markets /\ n.loads = market.loads /\ n.asked = market.asked /\ n.chart = market.chart /\ n.address = market.address
    BY <1>1, <2>1 DEF Markets
  <2>3. market' = IF look.id # market.looked THEN Over(market, look)
                  ELSE IF ~ok THEN Over(Blanked(market), look) ELSE n
    BY <1>3 DEF TokenHead
  <2> HIDE DEF n
  <2>4. ChartKept(n)
    BY <1>1, <2>2, ChartUntouched
  <2>5. ChartKept(Over(market, look)) /\ ChartKept(Over(Blanked(market), look))
    BY <1>1, ChartOver, ChartBlanked
  <2> QED  BY <1>3, <2>3, <2>4, <2>5 DEF TokenHead
<1>4. ASSUME NEW look \in market.looks, TokenLost(look)  PROVE ChartKept(market') /\ UNCHANGED <<demo, consent>>
  BY <1>1, <1>4, ChartOver, ChartBlanked DEF TokenLost
<1>5. ASSUME NEW look \in market.looks, NEW got, TokenBody(look, got)
      PROVE  ChartKept(market') /\ UNCHANGED <<demo, consent>>
  <2> DEFINE n == [market EXCEPT !.detail = look.mint]
             c == CandleChart(n, look.mint, BaseFrame, 0, got)
  <2>1. look.mint \in Mints
    BY <1>1 DEF Markets
  <2>2. n \in Markets /\ n.looks = market.looks
    BY <1>1, <2>1 DEF Markets, Tokenish
  <2>3. market' = Over(c, look) /\ UNCHANGED <<demo, consent>>
    BY <1>5 DEF TokenBody
  <2> HIDE DEF n
  <2>4. ChartKept(c) /\ c.looks = market.looks
    BY <2>1, <2>2, BaseFrameIsOne, ChartDrawn
  <2> HIDE DEF c
  <2> QED  BY <2>3, <2>4, ChartOver
<1>6. ASSUME NEW frame \in Frames, NEW typed \in Mints \cup {NoMint}, ChooseFrame(frame, typed)
      PROVE  ChartKept(market') /\ UNCHANGED <<demo, consent>>
  <2> DEFINE n == [market EXCEPT !.frame = frame]
             mint == CurrentMint(typed)
  <2>1. n \in Markets /\ n.loads = market.loads /\ n.asked = market.asked /\ n.chart = market.chart /\ n.address = market.address
    BY <1>1 DEF Markets
  <2>2. mint \in Tokenish
    BY <1>1 DEF CurrentMint, Markets, Tokenish
  <2>3. market' = (IF mint = NoMint THEN n ELSE LoadChart(n, mint)) /\ UNCHANGED <<demo, consent>>
    BY <1>6 DEF ChooseFrame
  <2> HIDE DEF n, mint
  <2>4. ChartKept(n)
    BY <1>1, <2>1, ChartUntouched
  <2> QED  BY <2>2, <2>3, <2>4, ChartLoaded DEF Tokenish
<1>7. ASSUME NEW load \in market.loads, NEW got, ChartAnswer(load, got)
      PROVE  ChartKept(market') /\ UNCHANGED <<demo, consent>>
  <2> DEFINE m == [market EXCEPT !.loads = @ \ {load}, !.busy = FALSE]
  <2>1. m \in Markets /\ m.loads = market.loads \ {load} /\ m.asked = market.asked /\ m.chart = market.chart
        /\ m.address = market.address
    BY <1>1 DEF Markets
  <2>2. load.mint \in Mints /\ load.frame \in Frames
    BY <1>1 DEF Markets
  <2>3. /\ market' = IF load.id # market.asked THEN m
                     ELSE IF got = "failed" THEN Blanked(m)
                     ELSE CandleChart(m, load.mint, load.frame, load.id, got)
        /\ UNCHANGED <<demo, consent>>
    BY <1>7 DEF ChartAnswer, NewestLoad
  <2> HIDE DEF m
  <2>4. CASE load.id # market.asked
    <3>1. Awaited(market) => Awaited(m)
      BY <2>1, <2>4 DEF Awaited
    <3>2. ChartKept(m)
      BY <1>1, <2>1, <3>1 DEF ChartKept
    <3> QED  BY <2>3, <2>4, <3>2
  <2>5. CASE load.id = market.asked /\ got # "failed"
    BY <2>1, <2>2, <2>3, <2>5, ChartDrawn
  <2>6. CASE load.id = market.asked /\ got = "failed"
    <3>1. Blanked(m) \in Markets /\ Blanked(m).chart = NoChart
      BY <2>1, NoChartTyped DEF Blanked, Markets
    <3>2. ChartKept(Blanked(m))
      BY <3>1, NoChartTyped DEF ChartKept
    <3> QED  BY <2>3, <2>6, <3>2
  <2> QED  BY <2>4, <2>5, <2>6
<1>8. CASE Point
  <2>1. Readout(market) \in Markets /\ Readout(market).loads = market.loads /\ Readout(market).asked = market.asked
        /\ Readout(market).chart = market.chart /\ Readout(market).address = market.address
    BY <1>1 DEF Readout, Markets
  <2> QED  BY <1>1, <1>8, <2>1, ChartUntouched DEF Point
<1> QED  BY <1>2, <1>3, <1>4, <1>5, <1>6, <1>7, <1>8

(* At most one step of the engine is on its way.                           *)
LEMMA DemoSteps ==
  ASSUME NEW s, DemoKept(s)
  PROVE  /\ \A first \in BOOLEAN : DemoKept(RunStep(s, first))
         /\ DemoKept(Repeat(s)) /\ DemoKept(StopAuto(s))
         /\ \A starting \in BOOLEAN : DemoKept([Repeat(s) EXCEPT !.starting = starting])
         /\ s.inFlight > 0 => DemoKept([s EXCEPT !.running = FALSE, !.inFlight = @ - 1])
<1>1. s \in Demos /\ (s.inFlight = 1 <=> s.running) /\ s.loops + 1 \in Int /\ s.loops - 1 \in Int
      /\ 0 \in Few /\ 1 \in Few
  BY DEF DemoKept, Demos, Few
<1>2. ASSUME NEW first \in BOOLEAN  PROVE DemoKept(RunStep(s, first))
  <2>1. CASE s.running
    BY <2>1 DEF RunStep
  <2>2. CASE ~s.running
    <3> DEFINE n == [s EXCEPT !.running = TRUE, !.inFlight = 1, !.starting = first]
    <3>1. s.inFlight + 1 = 1
      <4>1. s.inFlight \in 0 .. 1 /\ s.inFlight # 1
        BY <1>1, <2>2 DEF Demos, Few
      <4> QED  BY <4>1
    <3>2. RunStep(s, first) = n
      BY <2>2, <3>1 DEF RunStep
    <3>3. n \in Demos /\ n.inFlight = 1 /\ n.running = TRUE
      BY <1>1 DEF Demos
    <3> HIDE DEF n
    <3>4. DemoKept(n)
      BY <3>3 DEF DemoKept, Demos, Few
    <3> QED  BY <3>2, <3>4
  <2> QED  BY <2>1, <2>2
<1>3. ASSUME NEW n \in Demos, n.inFlight = s.inFlight, n.running = s.running  PROVE DemoKept(n)
  BY <1>1, <1>3 DEF DemoKept, Demos, Few
<1>4. Repeat(s) \in Demos /\ Repeat(s).inFlight = s.inFlight /\ Repeat(s).running = s.running
  <2> DEFINE loops == s.loops + 1
  <2>1. loops \in Int
    BY <1>1
  <2> HIDE DEF loops
  <2>2. [s EXCEPT !.loops = loops, !.held = TRUE, !.starting = FALSE] \in Demos
        /\ [s EXCEPT !.loops = loops, !.held = TRUE, !.starting = FALSE].inFlight = s.inFlight
        /\ [s EXCEPT !.loops = loops, !.held = TRUE, !.starting = FALSE].running = s.running
    BY <1>1, <2>1 DEF Demos
  <2> QED  BY <2>2 DEF Repeat, loops
<1>5. StopAuto(s) \in Demos /\ StopAuto(s).inFlight = s.inFlight /\ StopAuto(s).running = s.running
  <2> DEFINE loops == s.loops - 1
  <2>1. loops \in Int
    BY <1>1
  <2> HIDE DEF loops
  <2>2. [s EXCEPT !.loops = loops, !.held = FALSE] \in Demos
        /\ [s EXCEPT !.loops = loops, !.held = FALSE].inFlight = s.inFlight
        /\ [s EXCEPT !.loops = loops, !.held = FALSE].running = s.running
    BY <1>1, <2>1 DEF Demos
  <2> QED  BY <1>1, <2>2 DEF StopAuto, loops
<1>6. ASSUME NEW starting \in BOOLEAN  PROVE DemoKept([Repeat(s) EXCEPT !.starting = starting])
  <2> DEFINE n == [Repeat(s) EXCEPT !.starting = starting]
  <2>1. n \in Demos /\ n.inFlight = s.inFlight /\ n.running = s.running
    BY <1>4 DEF Demos
  <2> HIDE DEF n
  <2>2. DemoKept(n)
    BY <1>3, <2>1
  <2> QED  BY <2>2 DEF n
<1>7. ASSUME s.inFlight > 0  PROVE DemoKept([s EXCEPT !.running = FALSE, !.inFlight = @ - 1])
  <2> DEFINE n == [s EXCEPT !.running = FALSE, !.inFlight = 0]
  <2>1. s.inFlight - 1 = 0
    <3>1. s.inFlight \in 0 .. 1
      BY <1>1 DEF Demos, Few
    <3> QED  BY <1>7, <3>1
  <2>2. n \in Demos /\ n.inFlight = 0 /\ n.running = FALSE
    BY <1>1 DEF Demos
  <2>3. n = [s EXCEPT !.running = FALSE, !.inFlight = @ - 1]
    BY <2>1
  <2> HIDE DEF n
  <2>4. DemoKept(n)
    BY <2>2 DEF DemoKept, Demos, Few
  <2> QED  BY <2>3, <2>4
<1> QED  BY <1>2, <1>3, <1>4, <1>5, <1>6, <1>7

LEMMA PagesStep == PagesKept /\ [PagesNext]_pageVars => PagesKept'
<1> SUFFICES ASSUME PagesKept, [PagesNext]_pageVars  PROVE PagesKept'
  OBVIOUS
<1>1. DemoKept(demo) /\ ConsentKept(consent) /\ demo.starting \in BOOLEAN
  BY DEF PagesKept, DemoKept, Demos
<1>2. ASSUME DemoKept(demo'), UNCHANGED <<market, consent>>  PROVE PagesKept'
  BY <1>2 DEF PagesKept, DemoKept, ConsentKept, ChartKept, Awaited, Markets, NoChart, Tokenish
<1>3. ASSUME ConsentKept(consent'), UNCHANGED <<market, demo>>  PROVE PagesKept'
  BY <1>3 DEF PagesKept, DemoKept, ConsentKept, ChartKept, Awaited, Markets, NoChart, Tokenish
<1>4. ASSUME UNCHANGED <<market, demo, consent>>  PROVE PagesKept'
  BY <1>1, <1>2, <1>4
<1>5. CASE ClickRun \/ Tick
  BY <1>1, <1>2, <1>5, DemoSteps DEF ClickRun, Tick, DemoStep
<1>6. CASE ClickAuto
  BY <1>1, <1>2, <1>6, DemoSteps DEF ClickAuto, DemoStep
<1>7. CASE StepAnswer
  <2> DEFINE stepped == [demo EXCEPT !.running = FALSE, !.inFlight = @ - 1]
  <2>1. DemoKept(stepped)
    BY <1>1, <1>7, DemoSteps DEF StepAnswer
  <2>2. demo' = (IF demo.starting THEN Repeat(stepped) ELSE stepped) /\ UNCHANGED <<market, consent>>
    BY <1>7 DEF StepAnswer, DemoStep
  <2> HIDE DEF stepped
  <2> QED  BY <1>2, <2>1, <2>2, DemoSteps
<1>8. CASE ToggleConsent
  BY <1>1, <1>3, <1>8 DEF ToggleConsent, ConsentStep, ConsentKept
<1>9. CASE ClickCreate
  <2> DEFINE posts == consent.posts + 1
  <2>1. posts \in Int
    BY <1>1 DEF ConsentKept
  <2>2. consent' = [consent EXCEPT !.enabled = FALSE, !.posts = posts] /\ UNCHANGED <<market, demo>>
    BY <1>9 DEF ClickCreate, ConsentStep
  <2> HIDE DEF posts
  <2>3. ConsentKept(consent')
    BY <1>1, <2>1, <2>2 DEF ConsentKept
  <2> QED  BY <1>3, <2>2, <2>3
<1>10. CASE ReloadPage
  BY <1>3, <1>10 DEF ReloadPage, ConsentStep, ConsentKept, NoConsent
<1>11. ASSUME NEW ok \in BOOLEAN, CreateAnswer(ok)  PROVE PagesKept'
  <2> DEFINE posts == consent.posts - 1
  <2>1. posts \in Int
    BY <1>1 DEF ConsentKept
  <2>2. /\ consent' = IF ok THEN [consent EXCEPT !.posts = posts, !.done = TRUE]
                       ELSE [consent EXCEPT !.posts = posts, !.enabled = consent.checked]
        /\ UNCHANGED <<market, demo>>
    BY <1>11 DEF CreateAnswer, ConsentStep
  <2> HIDE DEF posts
  <2>3. ConsentKept([consent EXCEPT !.posts = posts, !.done = TRUE])
    BY <1>1, <2>1 DEF ConsentKept
  <2>4. ConsentKept([consent EXCEPT !.posts = posts, !.enabled = consent.checked])
    BY <1>1, <2>1 DEF ConsentKept
  <2> QED  BY <1>3, <2>2, <2>3, <2>4
<1>12. ASSUME NEW l \in Lists, ClickRefresh(l) \/ Poll(l)  PROVE PagesKept'
  BY <1>4, <1>12 DEF ClickRefresh, Poll, ListsStep
<1>13. ASSUME NEW read \in lists.reads, NEW got, ListAnswer(read, got)  PROVE PagesKept'
  BY <1>4, <1>13 DEF ListAnswer, ListsStep
<1>14. CASE Visibility
  BY <1>1, <1>2, <1>14, DemoSteps DEF Visibility
<1>15. CASE UNCHANGED pageVars
  BY <1>4, <1>15 DEF pageVars
<1> QED
  BY <1>5, <1>6, <1>7, <1>8, <1>9, <1>10, <1>11, <1>12, <1>13, <1>14, <1>15, MarketStep, ChartNext DEF PagesNext

(* However the answers are ordered, the chart is the last one asked for,   *)
(* one step of the engine is on its way, and a mandate is sent with its    *)
(* consent only (loadChart, runStep, createMandate).                       *)
THEOREM PagesAreCurrent == PagesSpec => []PagesCurrent
<1>1. PagesKept => PagesCurrent
  BY DEF PagesKept, ChartKept, Awaited, DemoKept, Demos, Few, ConsentKept, PagesCurrent
<1> QED  BY <1>1, PagesStart, PagesStep, PTL DEF PagesSpec
=============================================================================
