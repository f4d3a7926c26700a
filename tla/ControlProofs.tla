--------------------------- MODULE ControlProofs ---------------------------
(***************************************************************************)
(* What the small components keep, for any persons, instances, rentals,    *)
(* browsers' tabs and members: the separation of the persons behind a      *)
(* change of the fees, the migrations, the paid rentals, the end of a      *)
(* session and the demo wallets.                                           *)
(***************************************************************************)
EXTENDS FeeControl, Migrations, Rental, WebSessions, DemoLedger, LiveGate, LivePreflight,
        SequenceTheorems, WellFoundedInduction, TLAPS

-----------------------------------------------------------------------------
(* Fees.  A change's requester, approver and fees are those of its proposal *)
(* and approval, in every copy.                                            *)
Config == [performance : 0 .. MaxBps, execution : 0 .. MaxBps, configuredBy : Officers \cup {"genesis"}]

Changes == [status : {"PENDING_APPROVAL", "APPROVED", "APPLIED"}, requestedBy : Officers,
            approvedBy : Officers \cup {Nobody}, current : Config, proposed : Config, applied : BOOLEAN]

Lawful(change) ==
  /\ HasRole(change.requestedBy, "FEE_CONFIG_OPERATOR")
  /\ change.proposed.performance + change.proposed.execution <= MaxBps
  /\ change.proposed.configuredBy = change.requestedBy
  /\ change.approvedBy # Nobody =>
       change.approvedBy # change.requestedBy /\ HasRole(change.approvedBy, "FEE_CONFIG_APPROVER")

FeeInv ==
  /\ changes \subseteq Changes
  /\ \A audit \in audits : audit.config \in Config
  /\ \A change \in changes : Lawful(change)
  /\ ThreePersons

LEMMA FeeStep == FeeInv /\ [FeeNext]_feeVars => FeeInv'
<1> SUFFICES ASSUME FeeInv, [FeeNext]_feeVars  PROVE FeeInv'
  OBVIOUS
<1>1. CASE UNCHANGED feeVars
  BY <1>1 DEF feeVars, FeeInv, ThreePersons
<1>2. ASSUME NEW current \in Configs, NEW performance \in Shares, NEW execution \in Shares, NEW actor \in Officers,
             ProposeFeeConfigChange(current, performance, execution, actor)
      PROVE  FeeInv'
  <2> DEFINE proposed == [performance |-> performance, execution |-> execution, configuredBy |-> actor]
             new == [status |-> "PENDING_APPROVAL", requestedBy |-> actor, approvedBy |-> Nobody,
                     current |-> current, proposed |-> proposed, applied |-> FALSE]
  <2>1. current \in Config
    <3>1. FirstConfig \in Config
      BY DEF FirstConfig, Config, MaxBps
    <3> HIDE DEF FirstConfig
    <3> QED  BY <3>1 DEF Configs, FeeInv
  <2>2. proposed \in Config /\ performance + execution <= MaxBps
    BY <1>2 DEF ProposeFeeConfigChange, ValidFees, Bps, Config
  <2>3. new \in Changes /\ Lawful(new)
    BY <1>2, <2>1, <2>2 DEF Changes, Lawful, ProposeFeeConfigChange
  <2>4. changes' = changes \cup {new} /\ audits' = audits
    BY <1>2 DEF ProposeFeeConfigChange
  <2> HIDE DEF new
  <2> QED  BY <2>3, <2>4 DEF FeeInv, ThreePersons
<1>3. ASSUME NEW change \in changes, NEW approver \in Officers, ApproveFeeConfigChange(change, approver)
      PROVE  FeeInv'
  <2> DEFINE new == [change EXCEPT !.status = "APPROVED", !.approvedBy = approver]
  <2>1. change \in Changes /\ Lawful(change)
    BY DEF FeeInv
  <2>2. new \in Changes /\ Lawful(new)
    BY <1>3, <2>1 DEF Changes, Lawful, ApproveFeeConfigChange
  <2>3. changes' = changes \cup {new} /\ audits' = audits
    BY <1>3 DEF ApproveFeeConfigChange
  <2> HIDE DEF new
  <2> QED  BY <2>2, <2>3 DEF FeeInv, ThreePersons
<1>4. ASSUME NEW change \in changes, NEW actor \in Officers, ApplyApprovedFeeConfig(change, actor)
      PROVE  FeeInv'
  <2> DEFINE new == [change EXCEPT !.status = "APPLIED", !.applied = TRUE]
             audit == [requestedBy |-> change.requestedBy, approvedBy |-> change.approvedBy,
                       appliedBy |-> actor, config |-> change.proposed]
  <2>1. change \in Changes /\ Lawful(change)
    BY DEF FeeInv
  <2>2. new \in Changes /\ Lawful(new)
    BY <2>1 DEF Changes, Lawful
  <2>3. /\ change.approvedBy # Nobody /\ actor \notin {change.requestedBy, change.approvedBy}
        /\ HasRole(actor, "FEE_CONFIG_APPLIER")
    BY <1>4 DEF ApplyApprovedFeeConfig, Separated
  <2>4. /\ audit.requestedBy # audit.approvedBy
        /\ audit.appliedBy \notin {audit.requestedBy, audit.approvedBy}
        /\ HasRole(audit.requestedBy, "FEE_CONFIG_OPERATOR")
        /\ HasRole(audit.approvedBy, "FEE_CONFIG_APPROVER")
        /\ HasRole(audit.appliedBy, "FEE_CONFIG_APPLIER")
        /\ audit.config.performance + audit.config.execution <= MaxBps
        /\ audit.config.configuredBy = audit.requestedBy
        /\ audit.config \in Config
    BY <2>1, <2>3 DEF Lawful, Changes
  <2>5. changes' = changes \cup {new} /\ audits' = audits \cup {audit}
    BY <1>4 DEF ApplyApprovedFeeConfig
  <2> HIDE DEF new, audit
  <2> QED  BY <2>2, <2>4, <2>5 DEF FeeInv, ThreePersons
<1> QED  BY <1>1, <1>2, <1>3, <1>4 DEF FeeNext

(* Three persons with their roles are behind the fees that are applied,    *)
(* however many copies of a change go round.                               *)
THEOREM FeesByThreePersons == FeeSpec => []ThreePersons
<1>1. FeeInit => FeeInv
  BY DEF FeeInit, FeeInv, ThreePersons
<1>2. FeeInv => ThreePersons
  BY DEF FeeInv
<1> QED  BY <1>1, <1>2, FeeStep, PTL DEF FeeSpec

-----------------------------------------------------------------------------
(* Migrations.  A running instance has every file before its own, the one  *)
(* that holds the entry of a version is alone with it, and a file that     *)
(* commits itself is there before its version.                             *)
Instances == [pc : {"next", "insert", "commit"}, release : Files, applied : SUBSET Files, file : 1 .. MaxFile + 1]

Progress(s) ==
  /\ servers[s].applied \subseteq versions
  /\ 1 .. servers[s].file - 1 \subseteq versions
  /\ servers[s].pc # "next" => servers[s].file <= servers[s].release
  /\ servers[s].pc = "next" => servers[s].file <= servers[s].release + 1
  /\ servers[s].pc = "insert" /\ servers[s].file \in SelfCommitting => effects[servers[s].file] > 0
  /\ servers[s].pc = "commit" => servers[s].file \notin versions \cup SelfCommitting

MigrationInv ==
  /\ servers \in [Servers -> Instances \cup {Stopped}]
  /\ versions \subseteq Files
  /\ effects \in [Files -> Nat]
  /\ \A f \in Files \ SelfCommitting : effects[f] = IF f \in versions THEN 1 ELSE 0
  /\ \A f \in versions : effects[f] > 0 /\ 1 .. f \subseteq versions
  /\ \A f \in Files : effects[f] > 0 => 1 .. f - 1 \subseteq versions
  /\ \A s \in Servers : servers[s] # Stopped => Progress(s)
  /\ \A s, t \in Servers : OnServer(s, "commit") /\ OnServer(t, "commit") /\ s # t => servers[s].file # servers[t].file

LEMMA MigrationImplies == MigrationInv => MigrationsOrdered
  BY MigrationBounds DEF MigrationInv, MigrationsOrdered, Listening, OnServer, Progress, Instances, Files

(* A step of one instance that adds no version; a file that commits itself *)
(* may have run.                                                           *)
LEMMA ServerStep ==
  ASSUME MigrationInv, NEW s \in Servers, NEW r \in Instances \cup {Stopped},
         servers' = [servers EXCEPT ![s] = r], versions' = versions, effects' \in [Files -> Nat],
         \A f \in Files : \/ effects'[f] = effects[f]
                          \/ f \in SelfCommitting /\ effects'[f] > 0 /\ 1 .. f - 1 \subseteq versions,
         r # Stopped => /\ r.applied \subseteq versions /\ 1 .. r.file - 1 \subseteq versions
                        /\ r.pc # "next" => r.file <= r.release
                        /\ r.pc = "next" => r.file <= r.release + 1
                        /\ r.pc = "insert" /\ r.file \in SelfCommitting => effects'[r.file] > 0
                        /\ r.pc = "commit" => /\ r.file \notin versions \cup SelfCommitting
                                              /\ ~WaitsForVersion(s) /\ r.file = servers[s].file
  PROVE  MigrationInv'
<1>1. servers \in [Servers -> Instances \cup {Stopped}]
  BY DEF MigrationInv
<1>2. \A t \in Servers : servers'[t] = IF t = s THEN r ELSE servers[t]
  BY <1>1
<1>3. servers' \in [Servers -> Instances \cup {Stopped}]
  BY <1>1
<1>4. ASSUME NEW t \in Servers, servers'[t] # Stopped
      PROVE  Progress(t)'
  <2>1. CASE t = s
    BY <1>2, <1>4, <2>1 DEF Progress
  <2>2. CASE t # s
    <3>1. servers'[t] = servers[t] /\ Progress(t) /\ servers[t] \in Instances
      BY <1>1, <1>2, <1>4, <2>2 DEF MigrationInv
    <3>2. ASSUME servers[t].pc = "insert", servers[t].file \in SelfCommitting
          PROVE  effects'[servers[t].file] > 0
      <4>1. servers[t].file <= servers[t].release
        BY <3>1, <3>2 DEF Progress
      <4>2. servers[t].file \in Files
        BY <3>1, <4>1, MigrationBounds DEF Instances, Files
      <4> QED  BY <3>1, <3>2, <4>2 DEF Progress
    <3> QED  BY <3>1, <3>2 DEF Progress
  <2> QED  BY <2>1, <2>2
<1>5. ASSUME NEW t \in Servers, NEW u \in Servers, OnServer(t, "commit")', OnServer(u, "commit")', t # u
      PROVE  servers'[t].file # servers'[u].file
  <2>1. CASE t # s /\ u # s
    BY <1>2, <1>5, <2>1 DEF MigrationInv, OnServer
  <2>2. CASE t = s
    BY <1>2, <1>5, <2>2 DEF OnServer, WaitsForVersion
  <2>3. CASE u = s
    BY <1>2, <1>5, <2>3 DEF OnServer, WaitsForVersion
  <2> QED  BY <2>1, <2>2, <2>3
<1>6. /\ \A f \in Files \ SelfCommitting : effects'[f] = IF f \in versions' THEN 1 ELSE 0
      /\ \A f \in Files : effects'[f] > 0 => 1 .. f - 1 \subseteq versions'
  BY DEF MigrationInv
<1>7. \A f \in versions' : effects'[f] > 0 /\ 1 .. f \subseteq versions'
  BY DEF MigrationInv
<1>8. versions' \subseteq Files
  BY DEF MigrationInv
<1> QED  BY <1>3, <1>4, <1>5, <1>6, <1>7, <1>8 DEF MigrationInv

(* The version of a file is there, whoever hears of it: its SQL with it,   *)
(* or before.                                                              *)
LEMMA CommitVersion ==
  ASSUME MigrationInv, NEW s \in Servers, servers[s] # Stopped, NEW f, f = servers[s].file,
         \/ servers[s].pc = "insert" /\ f \in SelfCommitting /\ f \notin versions /\ ~WaitsForVersion(s)
            /\ effects' = effects
         \/ servers[s].pc = "commit" /\ Ran(f),
         versions' = versions \cup {f}, NEW r \in Instances \cup {Stopped}, servers' = [servers EXCEPT ![s] = r],
         r # Stopped => r = [servers[s] EXCEPT !.pc = "next", !.file = f + 1]
  PROVE  MigrationInv'
<1>1. /\ servers[s] \in Instances /\ Progress(s) /\ f \in Files /\ f \notin versions /\ 1 .. f - 1 \subseteq versions
      /\ servers[s].release \in Files /\ f <= servers[s].release
  BY MigrationBounds DEF MigrationInv, Progress, Instances, Files
<1>2. /\ effects' \in [Files -> Nat] /\ effects'[f] > 0
      /\ \A g \in Files : g # f => effects'[g] = effects[g]
      /\ f \notin SelfCommitting => effects'[f] = 1
  <2>1. CASE servers[s].pc = "insert" /\ f \in SelfCommitting /\ effects' = effects
    BY <1>1, <2>1 DEF MigrationInv, Progress
  <2>2. CASE servers[s].pc = "commit" /\ Ran(f)
    <3>1. f \notin SelfCommitting /\ effects[f] = 0
      BY <1>1, <2>2 DEF MigrationInv, Progress
    <3> QED  BY <1>1, <2>2, <3>1 DEF MigrationInv, Ran
  <2> QED  BY <2>1, <2>2
<1>3. versions' \subseteq Files
      /\ \A g \in Files \ SelfCommitting : effects'[g] = IF g \in versions' THEN 1 ELSE 0
  BY <1>1, <1>2 DEF MigrationInv
<1>4. 1 .. f \subseteq versions'
  BY <1>1, MigrationBounds DEF Files
<1>5. \A g \in versions' : effects'[g] > 0 /\ 1 .. g \subseteq versions'
  BY <1>1, <1>2, <1>4 DEF MigrationInv
<1>10. \A g \in Files : effects'[g] > 0 => 1 .. g - 1 \subseteq versions'
  BY <1>1, <1>2 DEF MigrationInv
<1>6. \A t \in Servers : servers'[t] = IF t = s THEN r ELSE servers[t]
  BY DEF MigrationInv
<1>7. servers' \in [Servers -> Instances \cup {Stopped}]
  BY DEF MigrationInv
<1>8. ASSUME NEW t \in Servers, servers'[t] # Stopped
      PROVE  Progress(t)'
  <2>1. CASE t # s
    <3>1. Progress(t) /\ servers'[t] = servers[t] /\ servers[t] \in Instances
      BY <1>6, <1>8, <2>1 DEF MigrationInv
    <3>2. servers[t].pc = "commit" => servers[t].file # f
      <4>1. servers[s].pc = "commit" => OnServer(s, "commit")
        BY DEF OnServer
      <4>2. servers[t].pc = "commit" => OnServer(t, "commit")
        BY <1>6, <1>8, <2>1 DEF OnServer
      <4> QED  BY <2>1, <4>1, <4>2 DEF MigrationInv, WaitsForVersion
    <3>3. servers[t].file \in Files /\ effects[servers[t].file] > 0 => effects'[servers[t].file] > 0
      BY <1>2
    <3>4. servers[t].pc = "insert" => servers[t].file \in Files
      <4>1. servers[t].pc = "insert" => servers[t].file <= servers[t].release
        BY <3>1 DEF Progress
      <4> QED  BY <3>1, <4>1, MigrationBounds DEF Instances, Files
    <3> QED  BY <3>1, <3>2, <3>3, <3>4 DEF Progress
  <2>2. CASE t = s
    <3>1. servers'[s] = [servers[s] EXCEPT !.pc = "next", !.file = f + 1]
      BY <1>6, <1>8, <2>2
    <3>2. /\ servers'[s].pc = "next" /\ servers'[s].file = f + 1 /\ servers'[s].applied = servers[s].applied
          /\ servers'[s].release = servers[s].release
      BY ZenonT(60), <1>1, <3>1 DEF Instances
    <3>3. f + 1 - 1 = f /\ f + 1 <= servers[s].release + 1
      BY <1>1, MigrationBounds DEF Files
    <3>4. servers'[s].file - 1 = f
      BY <1>1, <3>2, MigrationBounds DEF Files
    <3>5. servers'[s].applied \subseteq versions'
      BY <1>1, <3>2 DEF Progress
    <3>6. 1 .. servers'[s].file - 1 \subseteq versions'
      BY <1>4, <3>4
    <3> QED  BY <2>2, <3>2, <3>3, <3>5, <3>6 DEF Progress
  <2> QED  BY <2>1, <2>2
<1>9. ASSUME NEW t \in Servers, NEW u \in Servers, OnServer(t, "commit")', OnServer(u, "commit")', t # u
      PROVE  servers'[t].file # servers'[u].file
  <2>1. r # Stopped => r.pc = "next"
    BY <1>1 DEF Instances
  <2>2. t # s /\ u # s
    BY <1>6, <1>9, <2>1 DEF OnServer
  <2> QED  BY <1>6, <1>9, <2>2 DEF MigrationInv, OnServer
<1> QED  BY <1>2, <1>3, <1>5, <1>7, <1>8, <1>9, <1>10 DEF MigrationInv

LEMMA MigrationStep == MigrationInv /\ [MigrationsNext]_migrationVars => MigrationInv'
<1> SUFFICES ASSUME MigrationInv, [MigrationsNext]_migrationVars  PROVE MigrationInv'
  OBVIOUS
<1>0. effects \in [Files -> Nat]
  BY DEF MigrationInv
<1>1. CASE UNCHANGED migrationVars
  BY <1>1 DEF migrationVars, MigrationInv, Progress, OnServer
<1>2. ASSUME NEW s \in Servers, NEW release \in Files, StartServer(s, release)  PROVE MigrationInv'
  <2> DEFINE r == [pc |-> "next", release |-> release, applied |-> versions, file |-> 1]
  <2>1. r \in Instances /\ r.applied \subseteq versions /\ r.file = 1 /\ r.pc = "next" /\ r.release = release
    BY MigrationBounds DEF Instances, MigrationInv, Files
  <2>2. servers' = [servers EXCEPT ![s] = r] /\ versions' = versions /\ effects' = effects
    BY <1>2 DEF StartServer
  <2> HIDE DEF r
  <2>3. 1 .. r.file - 1 \subseteq versions /\ r.file <= r.release + 1
    BY <2>1, MigrationBounds DEF Files
  <2> QED  BY <1>0, <2>1, <2>2, <2>3, ServerStep
<1>3. ASSUME NEW s \in Servers, SkipApplied(s)  PROVE MigrationInv'
  <2> DEFINE r == [servers[s] EXCEPT !.file = servers[s].file + 1]
  <2>1. servers[s] \in Instances /\ Progress(s) /\ servers[s].file \in versions /\ servers[s].file <= servers[s].release
    BY <1>3 DEF SkipApplied, OnServer, MigrationInv, Progress
  <2>2. /\ r \in Instances /\ r.applied = servers[s].applied /\ r.file = servers[s].file + 1 /\ r.pc = servers[s].pc
        /\ r.release = servers[s].release
    BY <2>1, MigrationBounds DEF Instances, Files
  <2>3. servers' = [servers EXCEPT ![s] = r] /\ versions' = versions /\ effects' = effects /\ servers[s].pc = "next"
    BY <1>3 DEF SkipApplied, OnServer
  <2> HIDE DEF r
  <2>4. 1 .. r.file - 1 \subseteq versions /\ r.file <= r.release + 1
    BY <2>1, <2>2, MigrationBounds DEF MigrationInv, Instances, Files
  <2> QED  BY <1>0, <2>1, <2>2, <2>3, <2>4, ServerStep DEF Progress
<1>4. ASSUME NEW s \in Servers, RunFile(s)  PROVE MigrationInv'
  <2> DEFINE r == [servers[s] EXCEPT !.pc = "insert"]
  <2>1. servers[s] \in Instances /\ Progress(s) /\ servers[s].file <= servers[s].release
    BY <1>4 DEF RunFile, OnServer, MigrationInv
  <2>2. /\ r \in Instances /\ r.applied = servers[s].applied /\ r.file = servers[s].file /\ r.pc = "insert"
        /\ r.release = servers[s].release
    BY <2>1 DEF Instances
  <2>3. servers' = [servers EXCEPT ![s] = r] /\ versions' = versions
    BY <1>4 DEF RunFile
  <2>4. servers[s].file \in Files /\ 1 .. servers[s].file - 1 \subseteq versions
    BY <2>1, MigrationBounds DEF Progress, Instances, Files
  <2>5. /\ effects' \in [Files -> Nat]
        /\ \A f \in Files : effects'[f] = effects[f] \/ (f = servers[s].file /\ f \in SelfCommitting /\ effects'[f] > 0)
        /\ servers[s].file \in SelfCommitting => effects'[servers[s].file] > 0
    BY <1>0, <1>4, <2>4 DEF RunFile, Ran
  <2> HIDE DEF r
  <2>6. r # Stopped =>
          /\ r.applied \subseteq versions /\ 1 .. r.file - 1 \subseteq versions
          /\ r.file <= r.release /\ r.pc = "insert"
          /\ r.file \in SelfCommitting => effects'[r.file] > 0
    BY <2>1, <2>2, <2>4, <2>5 DEF Progress
  <2>7. \A f \in Files : \/ effects'[f] = effects[f]
                         \/ f \in SelfCommitting /\ effects'[f] > 0 /\ 1 .. f - 1 \subseteq versions
    BY <2>4, <2>5
  <2> QED  BY <2>2, <2>3, <2>5, <2>6, <2>7, ServerStep
<1>5. ASSUME NEW s \in Servers, InsertVersion(s)  PROVE MigrationInv'
  <2> DEFINE r == [servers[s] EXCEPT !.pc = "commit"]
  <2>1. servers[s] \in Instances /\ Progress(s) /\ servers[s].pc = "insert" /\ ~WaitsForVersion(s)
        /\ versions' = versions /\ effects' = effects /\ servers' = [servers EXCEPT ![s] = r]
        /\ servers[s].file \notin versions \cup SelfCommitting
    BY <1>5 DEF InsertVersion, OnServer, MigrationInv, Duplicate
  <2>2. /\ r \in Instances /\ r.applied = servers[s].applied /\ r.file = servers[s].file /\ r.pc = "commit"
        /\ r.release = servers[s].release
    BY <2>1 DEF Instances
  <2> HIDE DEF r
  <2> QED  BY <1>0, <2>1, <2>2, ServerStep DEF Progress
<1>6. ASSUME NEW s \in Servers, servers[s] # Stopped, servers[s].pc # "next", NextFile(s),
             \/ /\ servers[s].pc = "insert" /\ servers[s].file \in SelfCommitting
                /\ servers[s].file \notin versions /\ ~WaitsForVersion(s) /\ effects' = effects
             \/ servers[s].pc = "commit" /\ Ran(servers[s].file),
             versions' = versions \cup {servers[s].file}
      PROVE  MigrationInv'
  <2> DEFINE f == servers[s].file
             r == [servers[s] EXCEPT !.pc = "next", !.file = f + 1]
  <2>1. servers[s] \in Instances /\ f <= servers[s].release
    BY <1>6 DEF MigrationInv, Progress
  <2>2. r \in Instances
    <3>1. f + 1 \in 1 .. MaxFile + 1
      BY <2>1, MigrationBounds DEF Instances, Files
    <3> QED  BY <2>1, <3>1 DEF Instances
  <2>3. servers' = [servers EXCEPT ![s] = r]
    BY <1>6, <2>1 DEF NextFile, MigrationInv
  <2>4. r = [servers[s] EXCEPT !.pc = "next", !.file = f + 1]
    OBVIOUS
  <2> HIDE DEF r
  <2> QED  BY <1>6, <2>2, <2>3, <2>4, CommitVersion
<1>7. ASSUME NEW s \in Servers, InsertAlone(s)  PROVE MigrationInv'
  BY <1>6, <1>7 DEF InsertAlone, OnServer, Duplicate
<1>8. ASSUME NEW s \in Servers, CommitFile(s)  PROVE MigrationInv'
  BY <1>6, <1>8 DEF CommitFile, OnServer, Applied
<1>9. ASSUME NEW s \in Servers, LoseCommit(s)  PROVE MigrationInv'
  BY <1>9, CommitVersion DEF LoseCommit, OnServer, Applied
<1>10. ASSUME NEW s \in Servers, StopServer(s) \/ RefuseVersion(s)  PROVE MigrationInv'
  BY <1>0, <1>10, ServerStep DEF StopServer, RefuseVersion
<1> QED
  BY <1>1, <1>2, <1>3, <1>4, <1>5, <1>7, <1>8, <1>9, <1>10 DEF MigrationsNext

(* Whatever number of instances run the files, fail and lose answers: a    *)
(* file runs after the versions of all before it, what has its version was *)
(* run, and a file that leaves the COMMIT to the runner is there exactly   *)
(* as often as its version.                                                *)
THEOREM FilesRunInOrder == MigrationsSpec => []MigrationsOrdered
<1>1. MigrationsInit => MigrationInv
  BY DEF MigrationsInit, MigrationInv, OnServer
<1> QED  BY <1>1, MigrationStep, MigrationImplies, PTL DEF MigrationsSpec

-----------------------------------------------------------------------------
(* Rentals.  A period under way that is paid for is ACTIVE, and the index  *)
(* allows one of them.                                                     *)
Records == [id : Nat, trader : Renters, status : {"ACTIVE", "PAST_DUE", "EXPIRED"}, payment : Payments,
            end : Nat, dated : BOOLEAN, bill : Bills \cup Payments \cup {"none"}]

Statements == [then : {"none", "insert", "update", "request"}, rental : Nat, word : Payments \cup {"none"}]

RentalInv ==
  /\ day \in Nat
  /\ rentals \in Seq(Records)
  /\ calls \in [Clerks -> Statements]
  /\ \A i \in DOMAIN rentals :
       /\ rentals[i].id = i
       /\ rentals[i].payment = "PAID" /\ rentals[i].end > day => rentals[i].status = "ACTIVE"
  /\ \A i, j \in DOMAIN rentals :
       rentals[i].status = "ACTIVE" /\ rentals[j].status = "ACTIVE" /\ rentals[i].trader = rentals[j].trader => i = j
  /\ \A c \in Clerks : calls[c].then # "none" => calls[c].rental \in DOMAIN rentals
  /\ \A c \in Clerks : calls[c].then = "request" => rentals[calls[c].rental].dated
  /\ \A i \in requests : i \in DOMAIN rentals /\ rentals[i].dated

LEMMA RentalImplies == RentalInv => NeverPaidTwice
  BY DEF RentalInv, NeverPaidTwice

LEMMA SequenceUpdate ==
  ASSUME NEW S, NEW s \in Seq(S), NEW i \in DOMAIN s, NEW e \in S
  PROVE  /\ [s EXCEPT ![i] = e] \in Seq(S) /\ DOMAIN [s EXCEPT ![i] = e] = DOMAIN s
         /\ \A j \in DOMAIN s : [s EXCEPT ![i] = e][j] = IF j = i THEN e ELSE s[j]
  OBVIOUS

(* The greatest of some numbers of a bounded range.                        *)
LEMMA Greatest ==
  ASSUME NEW n \in Nat, NEW S, S \subseteq 1 .. n, S # {}
  PROVE  \E i \in S : \A j \in S : j <= i
<1> DEFINE below == {ss \in Nat \X Nat : ss[1] < ss[2]}
           T == {n - i : i \in S}
<1>1. IsWellFoundedOn(below, Nat)
  BY NatLessThanWellFounded DEF OpToRel
<1>2. T \subseteq Nat /\ T # {}
  <2>1. \A i \in S : n - i \in Nat
    OBVIOUS
  <2>2. PICK i \in S : TRUE
    OBVIOUS
  <2>3. n - i \in T
    BY <2>2
  <2> QED  BY <2>1, <2>3
<1> HIDE DEF below, T
<1>3. PICK m \in T : \A k \in T : ~(<<k, m>> \in below)
  BY <1>1, <1>2, WFMin
<1>4. PICK i \in S : m = n - i
  BY DEF T
<1>5. ASSUME NEW j \in S  PROVE j <= i
  <2>1. n - j \in T /\ n - j \in Nat /\ m \in Nat
    BY <1>2 DEF T
  <2>2. ~(n - j < m)
    BY <1>3, <2>1 DEF below
  <2> QED  BY <1>4, <2>1, <2>2
<1> QED  BY <1>5

LEMMA LatestIsTheirs ==
  ASSUME RentalInv, NEW t, OfTrader(t) # {}
  PROVE  Latest(t) \in DOMAIN rentals
<1>1. Len(rentals) \in Nat /\ OfTrader(t) \subseteq 1 .. Len(rentals)
  BY DEF OfTrader, RentalInv
<1>2. \E i \in OfTrader(t) : \A j \in OfTrader(t) : j <= i
  BY <1>1, Greatest
<1> QED  BY <1>2 DEF Latest, OfTrader

(* What the index says of the other rentals, when r is written.            *)
LEMMA WrittenRental ==
  ASSUME RentalInv, NEW n \in Nat, NEW r \in Records, r.id = n,
         n \in DOMAIN rentals \/ n = Len(rentals) + 1,
         rentals' \in Seq(Records), day' = day,
         DOMAIN rentals' = DOMAIN rentals \cup {n},
         \A i \in DOMAIN rentals : rentals'[i] = IF i = n THEN r ELSE rentals[i],
         rentals'[n] = r, OnlyActive(r, r.status),
         r.payment = "PAID" /\ r.end > day => r.status = "ACTIVE",
         n \in DOMAIN rentals /\ rentals[n].dated => r.dated,
         requests' = requests,
         calls' \in [Clerks -> Statements],
         \A c \in Clerks : calls'[c] = calls[c] \/ calls'[c].then = "none"
                           \/ (calls'[c].then \in {"insert", "update"} /\ calls'[c].rental = n)
  PROVE  RentalInv'
<1>1. \A i \in DOMAIN rentals' :
        /\ rentals'[i].id = i
        /\ rentals'[i].payment = "PAID" /\ rentals'[i].end > day => rentals'[i].status = "ACTIVE"
  BY DEF RentalInv
<1>2. ASSUME NEW i \in DOMAIN rentals', NEW j \in DOMAIN rentals', rentals'[i].status = "ACTIVE",
             rentals'[j].status = "ACTIVE", rentals'[i].trader = rentals'[j].trader
      PROVE  i = j
  <2>1. CASE i # n /\ j # n
    BY <1>2, <2>1 DEF RentalInv
  <2>2. CASE i = n
    BY <1>2, <2>2 DEF OnlyActive
  <2>3. CASE j = n
    BY <1>2, <2>3 DEF OnlyActive
  <2> QED  BY <2>1, <2>2, <2>3
<1>3. \A c \in Clerks : calls'[c].then # "none" => calls'[c].rental \in DOMAIN rentals'
  BY DEF RentalInv
<1>4. \A i \in DOMAIN rentals : rentals[i].dated => rentals'[i].dated
  OBVIOUS
<1>5. \A c \in Clerks : calls'[c].then = "request" => rentals'[calls'[c].rental].dated
  BY <1>4 DEF RentalInv
<1> QED  BY <1>1, <1>2, <1>3, <1>4, <1>5 DEF RentalInv

(* A request's second statement, or its end.                               *)
LEMMA CallStep ==
  ASSUME RentalInv, NEW c \in Clerks, NEW call \in Statements, calls' = [calls EXCEPT ![c] = call],
         rentals' = rentals, day' = day,
         call.then # "none" => call.rental \in DOMAIN rentals,
         call.then = "request" => rentals[call.rental].dated,
         \A i \in requests' : i \in DOMAIN rentals /\ rentals[i].dated
  PROVE  RentalInv'
<1>1. calls \in [Clerks -> Statements]
  BY DEF RentalInv
<1>2. calls' \in [Clerks -> Statements] /\ \A d \in Clerks : calls'[d] = IF d = c THEN call ELSE calls[d]
  BY <1>1
<1> QED  BY <1>2 DEF RentalInv

LEMMA RentalStep == RentalInv /\ [RentalNext]_rentalVars => RentalInv'
<1> SUFFICES ASSUME RentalInv, [RentalNext]_rentalVars  PROVE RentalInv'
  OBVIOUS
<1>n. NoCall \in Statements /\ NoCall.then = "none"
  BY DEF NoCall, Statements
<1>1. CASE UNCHANGED rentalVars
  BY <1>1 DEF rentalVars, RentalInv
<1>2. CASE Dawn
  <2>1. day' \in Nat /\ \A k \in Nat : k > day' => k > day
    BY <1>2 DEF Dawn, RentalInv
  <2>2. \A i \in DOMAIN rentals : rentals[i].end \in Nat
    <3>1. \A i \in DOMAIN rentals : rentals[i] \in Records
      BY DEF RentalInv
    <3> QED  BY <3>1 DEF Records
  <2> QED  BY <1>2, <2>1, <2>2 DEF Dawn, RentalInv
<1>3. ASSUME NEW c \in Clerks, NEW t \in Renters, NEW end \in 1 .. MaxDay + 1, NEW word \in {"PAID", "none"},
             NEW dated \in BOOLEAN, Rent(c, t, end, word, dated)
      PROVE  RentalInv'
  <2> DEFINE paid == word = "PAID" \/ dated
             status == IF paid THEN "ACTIVE" ELSE "PAST_DUE"
             payment == IF paid THEN "PAID" ELSE "PENDING"
             id == Len(rentals) + 1
             r == [id |-> id, trader |-> t, status |-> status, payment |-> payment,
                   end |-> end, dated |-> dated, bill |-> "none"]
  <2>1. rentals \in Seq(Records) /\ id \in Nat /\ end \in Nat
    BY RentalBounds DEF RentalInv
  <2>2. r \in Records /\ r.id = id /\ (r.payment = "PAID" => r.status = "ACTIVE")
    BY <2>1 DEF Records, Payments
  <2>3. /\ OnlyActive([id |-> id, trader |-> t], status) /\ rentals' = Append(rentals, r)
        /\ Calls(c, "insert", id, payment) /\ day' = day /\ requests' = requests
    BY <1>3 DEF Rent
  <2>4. OnlyActive(r, r.status)
    BY <2>3 DEF OnlyActive
  <2>5. payment \in Payments
    BY DEF Payments
  <2> DEFINE call == [then |-> "insert", rental |-> id, word |-> payment]
  <2>6. call \in Statements
    BY <2>1, <2>5 DEF Statements
  <2>7. calls' = [calls EXCEPT ![c] = call] /\ calls \in [Clerks -> Statements] /\ call.then = "insert" /\ call.rental = id
    BY <2>3 DEF Calls, RentalInv
  <2> HIDE DEF r, call
  <2>8. /\ calls' \in [Clerks -> Statements]
        /\ \A d \in Clerks : calls'[d] = calls[d] \/ (calls'[d].then \in {"insert", "update"} /\ calls'[d].rental = id)
    <3>1. calls' \in [Clerks -> Statements] /\ \A d \in Clerks : calls'[d] = IF d = c THEN call ELSE calls[d]
      BY <2>6, <2>7
    <3> QED  BY <2>7, <3>1
  <2>9. /\ rentals' \in Seq(Records) /\ DOMAIN rentals' = DOMAIN rentals \cup {id}
        /\ \A i \in DOMAIN rentals : rentals'[i] = IF i = id THEN r ELSE rentals[i]
        /\ rentals'[id] = r /\ id \notin DOMAIN rentals
    BY <2>1, <2>2, <2>3
  <2> QED  BY <2>1, <2>2, <2>3, <2>4, <2>8, <2>9, WrittenRental
<1>4. ASSUME NEW c \in Clerks, NEW i \in DOMAIN rentals, NEW word \in Payments, Pay(c, i, word)
      PROVE  RentalInv'
  <2> DEFINE r == [rentals[i] EXCEPT !.payment = word, !.status = PaidStatus(rentals[i], word),
                                     !.dated = rentals[i].dated \/ word = "PAID"]
  <2>1. rentals \in Seq(Records) /\ rentals[i] \in Records /\ i \in Nat /\ day \in Nat /\ rentals[i].id = i
    BY DEF RentalInv
  <2>2. PaidStatus(rentals[i], word) \in {"ACTIVE", "PAST_DUE", "EXPIRED"}
    BY <2>1 DEF PaidStatus, Records
  <2>3. /\ r \in Records /\ r.id = i /\ r.trader = rentals[i].trader /\ r.status = PaidStatus(rentals[i], word)
        /\ r.end = rentals[i].end /\ r.payment = word /\ (rentals[i].dated => r.dated)
    BY <2>1, <2>2 DEF Records
  <2>4. r.payment = "PAID" /\ r.end > day => r.status = "ACTIVE"
    BY <2>3 DEF PaidStatus
  <2>5. OnlyActive(rentals[i], PaidStatus(rentals[i], word)) /\ Calls(c, "update", i, word)
        /\ day' = day /\ requests' = requests
    BY <1>4 DEF Pay
  <2>6. rentals' = [rentals EXCEPT ![i] = r]
    BY <1>4 DEF Pay
  <2>7. OnlyActive(r, r.status)
    BY <2>1, <2>3, <2>5 DEF OnlyActive
  <2> DEFINE call == [then |-> "update", rental |-> i, word |-> word]
  <2>8. call \in Statements
    BY <2>1 DEF Statements
  <2>9. calls' = [calls EXCEPT ![c] = call] /\ calls \in [Clerks -> Statements] /\ call.then = "update" /\ call.rental = i
    BY <2>5 DEF Calls, RentalInv
  <2> HIDE DEF r, call
  <2>10. /\ calls' \in [Clerks -> Statements]
         /\ \A d \in Clerks : calls'[d] = calls[d] \/ (calls'[d].then \in {"insert", "update"} /\ calls'[d].rental = i)
    <3>1. calls' \in [Clerks -> Statements] /\ \A d \in Clerks : calls'[d] = IF d = c THEN call ELSE calls[d]
      BY <2>8, <2>9
    <3> QED  BY <2>9, <3>1
  <2>11. /\ rentals' \in Seq(Records) /\ DOMAIN rentals' = DOMAIN rentals \cup {i}
         /\ \A j \in DOMAIN rentals : rentals'[j] = IF j = i THEN r ELSE rentals[j]
         /\ rentals'[i] = r
    <3>1. DOMAIN rentals \cup {i} = DOMAIN rentals
      OBVIOUS
    <3> QED  BY <2>1, <2>3, <2>6, <3>1, SequenceUpdate
  <2> QED  BY <2>1, <2>3, <2>4, <2>5, <2>7, <2>10, <2>11, WrittenRental
<1>5. ASSUME NEW c \in Clerks, Bill(c)
      PROVE  RentalInv'
  <2> DEFINE i == calls[c].rental
             bill == IF calls[c].then = "insert" \/ (rentals[i].bill \notin {"none", "VOID"} /\ calls[c].word \in Bills)
                     THEN calls[c].word ELSE rentals[i].bill
             r == [rentals[i] EXCEPT !.bill = bill]
  <2>1. /\ calls[c] \in Statements /\ calls[c].then \in {"insert", "update"} /\ i \in DOMAIN rentals
        /\ rentals \in Seq(Records) /\ rentals[i] \in Records /\ i \in Nat /\ rentals[i].id = i
    BY <1>5 DEF Bill, RentalInv
  <2>2. bill \in Bills \cup Payments \cup {"none"}
    BY <2>1 DEF Statements, Records
  <2>3. rentals' = [rentals EXCEPT ![i] = r]
    BY <1>5, <2>1 DEF Bill
  <2> HIDE DEF bill
  <2>4. /\ r \in Records /\ r.id = i /\ r.trader = rentals[i].trader /\ r.status = rentals[i].status
        /\ r.end = rentals[i].end /\ r.payment = rentals[i].payment /\ r.dated = rentals[i].dated
    BY <2>1, <2>2 DEF Records
  <2>5. OnlyActive(r, r.status)
    BY <2>1, <2>4 DEF OnlyActive, RentalInv
  <2>6. /\ calls' \in [Clerks -> Statements]
        /\ \A d \in Clerks : calls'[d] = calls[d] \/ calls'[d].then = "none"
        /\ day' = day /\ requests' = requests
    BY <1>5, <1>n DEF Bill, Respond, RentalInv
  <2> HIDE DEF r
  <2>7. /\ rentals' \in Seq(Records) /\ DOMAIN rentals' = DOMAIN rentals \cup {i}
        /\ \A j \in DOMAIN rentals : rentals'[j] = IF j = i THEN r ELSE rentals[j]
        /\ rentals'[i] = r
    <3>1. i \in DOMAIN rentals /\ r \in Records /\ rentals \in Seq(Records)
      BY <2>1, <2>4
    <3> HIDE DEF i
    <3>2. DOMAIN rentals \cup {i} = DOMAIN rentals
      BY <3>1
    <3> QED  BY <2>3, <3>1, <3>2, SequenceUpdate
  <2>8. r.payment = "PAID" /\ r.end > day => r.status = "ACTIVE"
    BY <2>1, <2>4 DEF RentalInv
  <2>9. i \in Nat /\ i \in DOMAIN rentals /\ r \in Records /\ r.id = i /\ (rentals[i].dated => r.dated)
    BY <2>1, <2>4
  <2> HIDE DEF i
  <2> QED  BY <2>5, <2>6, <2>7, <2>8, <2>9, WrittenRental
<1>6. ASSUME NEW c \in Clerks, NEW t \in Renters, Execute(c, t)
      PROVE  RentalInv'
  <2> DEFINE call == [then |-> "request", rental |-> Latest(t), word |-> "none"]
  <2>1. Latest(t) \in DOMAIN rentals /\ rentals[Latest(t)].dated
    BY <1>6, LatestIsTheirs DEF Execute, Allowed
  <2>2. Latest(t) \in Nat
    BY <2>1 DEF RentalInv
  <2>3. call \in Statements /\ call.rental = Latest(t)
    BY <2>2 DEF Statements
  <2>4. /\ calls' = [calls EXCEPT ![c] = call] /\ rentals' = rentals /\ day' = day /\ requests' = requests
    BY <1>6 DEF Execute, Calls
  <2> HIDE DEF call
  <2>5. \A i \in requests' : i \in DOMAIN rentals /\ rentals[i].dated
    BY <2>4 DEF RentalInv
  <2> QED  BY <2>1, <2>3, <2>4, <2>5, CallStep
<1>7. ASSUME NEW c \in Clerks, CreateRequest(c) \/ Drop(c)
      PROVE  RentalInv'
  <2>1. /\ calls' = [calls EXCEPT ![c] = NoCall] /\ rentals' = rentals /\ day' = day
    BY <1>7 DEF CreateRequest, Drop, Respond
  <2>2. \A i \in requests' : i \in DOMAIN rentals /\ rentals[i].dated
    BY <1>7 DEF CreateRequest, Drop, RentalInv
  <2> QED  BY <1>n, <2>1, <2>2, CallStep
<1> QED
  BY <1>1, <1>2, <1>3, <1>4, <1>5, <1>6, <1>7 DEF RentalNext

(* No trader pays for two periods at once, and every request came in for a *)
(* rental that was paid for once, for any traders, requests and days.      *)
THEOREM PaidOnce == RentalSpec => []NeverPaidTwice
<1>1. RentalInit => RentalInv
  BY DEF RentalInit, RentalInv, NoCall, Statements
<1> QED  BY <1>1, RentalStep, RentalImplies, PTL DEF RentalSpec

-----------------------------------------------------------------------------
(* Sessions.  A call holds a token that was made; the token that a login   *)
(* has made is nowhere else before its answer is received; and where a     *)
(* logout was answered 200, the row is revoked.                            *)
Replies == SUBSET {200, 400, 401}

Sends == [kind : Kinds, token : Tokens \cup {NoToken}, work : {"todo", "accepted", "done"}, waits : BOOLEAN,
          reply : Replies]

Made(s) == rows[s] # "none"

Becomes(t, d) == sends' = [sends EXCEPT ![t] = d]

(* The call of t after its work.                                           *)
LEMMA DoesStep ==
  ASSUME sends \in [Tabs -> Sends \cup {NoSend}], NEW t \in Tabs, sends[t] \in Sends,
         NEW work \in {"todo", "accepted", "done"}, NEW replies \in Replies,
         NEW token \in Tokens \cup {NoToken}, Does(t, work, replies, token)
  PROVE  \E d \in Sends : /\ Becomes(t, d)
                           /\ d.kind = sends[t].kind /\ d.work = work /\ d.token = token
                           /\ d.reply = replies
<1> DEFINE d == [sends[t] EXCEPT !.work = work, !.reply = replies, !.token = token]
<1>1. d \in Sends /\ d.kind = sends[t].kind /\ d.work = work /\ d.token = token /\ d.reply = replies
  BY DEF Sends
<1>2. Becomes(t, d)
  BY DEF Does, Becomes
<1> HIDE DEF d
<1> QED  BY <1>1, <1>2

LEMMA RepliesOf ==
  /\ {200} \in Replies /\ {400} \in Replies /\ {401} \in Replies /\ {200, 400, 401} \in Replies
  /\ 200 \notin {400}
  BY DEF Replies

(* What is true of a call that was sent.                                   *)
Sane(c) ==
  /\ c.kind # "verify" => c.token \in Tokens
  /\ c.token \in Tokens => Made(c.token)
  /\ c.kind = "verify" /\ c.work = "todo" => c.token = NoToken
  /\ c.kind = "verify" /\ c.token \in Tokens => c.token # cookie /\ \A told \in {"revoked", "cleared"} : <<c.token, told>> \notin left
  /\ c.kind = "verify" /\ 200 \in c.reply => c.token \in Tokens
  /\ c.kind = "logout" /\ 200 \in c.reply => rows[c.token] = "revoked"

SaneAt(t) == Sane(sends[t])

SessionInv ==
  /\ rows \in [Tokens -> {"none", "live", "expired", "revoked"}]
  /\ cookie \in Tokens \cup {NoToken} /\ (cookie \in Tokens => Made(cookie))
  /\ sends \in [Tabs -> Sends \cup {NoSend}]
  /\ \A t \in Tabs : Sent(t) => SaneAt(t)
  /\ \A t, u \in Tabs : Sent(t) /\ Sent(u) /\ t # u /\ sends[t].kind = "verify" /\ sends[t].token \in Tokens =>
       sends[u].token # sends[t].token
  /\ \A s \in Tokens, told \in {"revoked", "cleared"} : <<s, told>> \in left => Made(s) /\ cookie # s
  /\ \A s \in Tokens : <<s, "revoked">> \in left => rows[s] = "revoked"
  /\ ~late

LEMMA SessionImplies == SessionInv => LoggedOutForGood
  BY DEF SessionInv, LoggedOutForGood

(* The primary's rows: a token that is made stays so, a revoked one too.   *)
LEMMA RowsStep ==
  ASSUME SessionInv, NEW t \in Tabs, NEW c \in Sends, Sent(t), Becomes(t, c),
         c.kind = sends[t].kind,
         c.token = sends[t].token \/ (c.kind = "verify" /\ (c.token = NoToken \/ (c.token \in Tokens /\ ~Made(c.token)))),
         rows' \in [Tokens -> {"none", "live", "expired", "revoked"}],
         \A s \in Tokens : Made(s) => rows'[s] # "none",
         \A s \in Tokens : rows[s] = "revoked" => rows'[s] = "revoked",
         cookie' = cookie, left' = left, late' = FALSE,
         c.token \in Tokens => rows'[c.token] # "none",
         c.kind = "verify" => c.work # "todo" \/ c.token = NoToken,
         c.kind = "verify" /\ 200 \in c.reply => c.token \in Tokens,
         c.kind = "logout" /\ 200 \in c.reply => rows'[c.token] = "revoked"
  PROVE  SessionInv'
<1>1. sends \in [Tabs -> Sends \cup {NoSend}] /\ sends' \in [Tabs -> Sends \cup {NoSend}]
      /\ \A u \in Tabs : sends'[u] = IF u = t THEN c ELSE sends[u]
  BY DEF SessionInv, Becomes
<1>2. Sane(sends[t]) /\ sends[t] # NoSend
  BY DEF SessionInv, Sent, SaneAt
<1>3. c.kind = "verify" /\ c.token \in Tokens =>
        c.token # cookie /\ \A told \in {"revoked", "cleared"} : <<c.token, told>> \notin left
  <2>1. CASE c.token = sends[t].token
    BY <1>2, <2>1 DEF Sane
  <2>2. CASE c.token \in Tokens /\ ~Made(c.token)
    BY <2>2 DEF SessionInv
  <2>3. CASE c.token = NoToken
    BY <2>3, NoTokenIsNoToken
  <2> QED  BY <2>1, <2>2, <2>3
<1>4. ASSUME NEW u \in Tabs, sends'[u] # NoSend  PROVE SaneAt(u)'
  <2>1. CASE u # t
    <3>1. sends'[u] = sends[u] /\ Sane(sends[u])
      BY <1>1, <1>4, <2>1 DEF SessionInv, Sent, SaneAt
    <3> DEFINE d == sends[u]
    <3>2. d.token \in Tokens => Made(d.token) /\ (rows[d.token] = "revoked" => rows'[d.token] = "revoked")
      BY <3>1 DEF Sane
    <3>3. d.kind = "logout" => d.token \in Tokens
      BY <3>1 DEF Sane
    <3> QED  BY <3>1, <3>2, <3>3 DEF SaneAt, Sane, Made
  <2>2. CASE u = t
    <3>1. sends'[u] = c
      BY <1>1, <2>2
    <3>2. c.kind # "verify" => c.token \in Tokens
      BY <1>2 DEF Sane
    <3> QED  BY <1>3, <3>1, <3>2 DEF SaneAt, Sane, Made
  <2> QED  BY <2>1, <2>2
<1>5. ASSUME NEW u \in Tabs, NEW v \in Tabs, sends'[u] # NoSend, sends'[v] # NoSend, u # v, sends'[u].kind = "verify",
             sends'[u].token \in Tokens
      PROVE  sends'[v].token # sends'[u].token
  <2>1. \A w \in Tabs : sends[w] # NoSend /\ sends[w].token \in Tokens => Made(sends[w].token)
    BY DEF SessionInv, SaneAt, Sane, Sent
  <2>2. CASE u # t /\ v # t
    BY <1>1, <1>5, <2>2 DEF SessionInv, Sent
  <2>3. CASE u = t
    <3>1. CASE c.token = sends[t].token
      BY <1>1, <1>2, <1>5, <2>3, <3>1 DEF SessionInv, Sent
    <3>2. CASE c.token \in Tokens /\ ~Made(c.token)
      BY <1>1, <1>5, <2>1, <2>3, <3>2
    <3> QED  BY <1>1, <1>5, <2>3, <3>1, <3>2, NoTokenIsNoToken
  <2>4. CASE v = t /\ u # t
    <3>1. CASE c.token = sends[t].token
      BY <1>1, <1>2, <1>5, <2>4, <3>1 DEF SessionInv, Sent
    <3>2. CASE c.token \in Tokens /\ ~Made(c.token)
      BY <1>1, <1>5, <2>1, <2>4, <3>2
    <3> QED  BY <1>1, <1>5, <2>4, <3>1, <3>2, NoTokenIsNoToken
  <2> QED  BY <2>2, <2>3, <2>4
<1>6. \A s \in Tokens : Made(s) => rows'[s] # "none"
  OBVIOUS
<1> QED  BY <1>1, <1>4, <1>5, <1>6 DEF SessionInv, Sent, Made

(* An answer reaches the browser, and a call that it no longer waits for   *)
(* may remain.                                                             *)
LEMMA ReceiveStep ==
  ASSUME SessionInv, NEW t \in Tabs, Sent(t), NEW reply, Receive(t, reply), NEW c \in Sends \cup {NoSend},
         sends' = [sends EXCEPT ![t] = c],
         reply \in sends[t].reply \/ reply = 503,
         c = NoSend \/ (reply = 503 /\ c = [sends[t] EXCEPT !.waits = FALSE])
  PROVE  SessionInv'
<1>1. sends \in [Tabs -> Sends \cup {NoSend}] /\ sends' \in [Tabs -> Sends \cup {NoSend}]
      /\ \A u \in Tabs : sends'[u] = IF u = t THEN c ELSE sends[u]
  BY DEF SessionInv
<1>2. sends[t] \in Sends /\ Sane(sends[t]) /\ sends[t] # NoSend
  BY <1>1 DEF SessionInv, Sent, SaneAt
<1> DEFINE k == sends[t].kind  s == sends[t].token
<1>3. /\ rows' = rows /\ late' = late /\ cookie' = NewCookie(k, reply, s)
      /\ left' = left \cup {<<s, told>> : told \in Told(k, reply)}
  BY DEF Receive
<1>4. c # NoSend => c.kind = k /\ c.token = s /\ c.work = sends[t].work /\ c.reply = sends[t].reply /\ reply = 503
  BY <1>2 DEF Sends
<1>5. ASSUME NEW u \in Tabs, u # t, sends[u] # NoSend, sends[u].kind = "verify", sends[u].token \in Tokens
      PROVE  sends[u].token # s
  BY <1>2, <1>5 DEF SessionInv, Sent
<1>6. /\ s \in Tokens => Made(s)
      /\ k # "verify" => s \in Tokens
      /\ k = "verify" /\ reply = 200 => s \in Tokens /\ c = NoSend
      /\ k = "verify" /\ s \in Tokens => \A told \in {"revoked", "cleared"} : <<s, told>> \notin left
      /\ k = "logout" /\ reply = 200 => rows[s] = "revoked"
  BY <1>2, <1>4 DEF Sane
<1> HIDE DEF k, s
<1>7. CASE k = "verify"
  <2>1. left' = left
    BY <1>3, <1>7 DEF Told
  <2>2. cookie' = cookie \/ (reply = 200 /\ cookie' = s)
    BY <1>3, <1>7 DEF NewCookie, Clears
  <2>3. cookie' \in Tokens \cup {NoToken} /\ (cookie' \in Tokens => Made(cookie'))
    BY <1>6, <1>7, <2>2 DEF SessionInv
  <2>4. ASSUME NEW u \in Tabs, sends'[u] # NoSend  PROVE SaneAt(u)'
    <3>1. CASE u = t
      <4>1. c # NoSend /\ cookie' = cookie
        BY <1>1, <1>6, <1>7, <2>2, <2>4, <3>1
      <4> QED  BY <1>1, <1>2, <1>3, <1>4, <2>1, <3>1, <4>1 DEF SaneAt, Sane, Made, k, s
    <3>2. CASE u # t
      <4>1. sends'[u] = sends[u] /\ Sane(sends[u])
        BY <1>1, <2>4, <3>2 DEF SessionInv, SaneAt, Sent
      <4>2. sends[u].kind = "verify" /\ sends[u].token \in Tokens => sends[u].token # cookie'
        BY <1>1, <1>5, <2>2, <2>4, <3>2, <4>1 DEF Sane
      <4> QED  BY <1>3, <2>1, <4>1, <4>2 DEF SaneAt, Sane, Made
    <3> QED  BY <3>1, <3>2
  <2>5. \A r \in Tokens, told \in {"revoked", "cleared"} : <<r, told>> \in left => Made(r) /\ cookie' # r
    <3>1. \A r \in Tokens, told \in {"revoked", "cleared"} : <<r, told>> \in left => Made(r) /\ cookie # r
      BY DEF SessionInv
    <3>2. CASE cookie' = cookie
      BY <3>1, <3>2
    <3>3. CASE reply = 200 /\ cookie' = s
      <4>1. \A told \in {"revoked", "cleared"} : <<s, told>> \notin left
        BY <1>6, <1>7, <3>3
      <4> QED  BY <3>1, <3>3, <4>1
    <3> QED  BY <2>2, <3>2, <3>3
  <2>6. \A u, v \in Tabs : Sent(u)' /\ Sent(v)' /\ u # v /\ sends'[u].kind = "verify" /\ sends'[u].token \in Tokens =>
          sends'[v].token # sends'[u].token
    BY <1>1, <1>2, <1>4 DEF SessionInv, Sent, k, s
  <2> QED  BY <1>1, <1>3, <2>1, <2>3, <2>4, <2>5, <2>6 DEF SessionInv, Sent, Made
<1>8. CASE k # "verify"
  <2>1. s \in Tokens /\ Made(s)
    BY <1>6, <1>8
  <2>2. cookie' = NoToken \/ (cookie' = cookie /\ k # "logout")
    BY <1>3, <1>8 DEF NewCookie, Clears
  <2>3. cookie' \in Tokens \cup {NoToken} /\ (cookie' \in Tokens => Made(cookie'))
    BY <2>2, NoTokenIsNoToken DEF SessionInv
  <2>4. \A r, told : <<r, told>> \in left' =>
          <<r, told>> \in left \/ (r = s /\ k = "logout" /\ (told = "revoked" => reply = 200))
    BY <1>3 DEF Told
  <2>5. ASSUME NEW u \in Tabs, sends'[u] # NoSend  PROVE SaneAt(u)'
    <3>1. CASE u = t
      BY <1>1, <1>2, <1>3, <1>4, <1>8, <2>5, <3>1 DEF SaneAt, Sane, Made, k, s
    <3>2. CASE u # t
      <4>1. sends'[u] = sends[u] /\ Sane(sends[u])
        BY <1>1, <2>5, <3>2 DEF SessionInv, SaneAt, Sent
      <4>2. sends[u].kind = "verify" /\ sends[u].token \in Tokens =>
              sends[u].token # cookie' /\ \A told \in {"revoked", "cleared"} : <<sends[u].token, told>> \notin left'
        BY <1>1, <1>5, <2>2, <2>4, <2>5, <3>2, <4>1, NoTokenIsNoToken DEF Sane
      <4> QED  BY <1>3, <4>1, <4>2 DEF SaneAt, Sane, Made
    <3> QED  BY <3>1, <3>2
  <2>6. \A r \in Tokens, told \in {"revoked", "cleared"} : <<r, told>> \in left' => Made(r) /\ cookie' # r
    <3>1. ASSUME NEW r \in Tokens, NEW told \in {"revoked", "cleared"}, <<r, told>> \in left'
          PROVE  Made(r) /\ cookie' # r
      <4>1. CASE <<r, told>> \in left
        <5>1. Made(r) /\ cookie # r
          BY ZenonT(60), <4>1 DEF SessionInv
        <5> QED  BY <2>2, <5>1, NoTokenIsNoToken
      <4>2. CASE r = s /\ k = "logout"
        BY <2>1, <2>2, <4>2, NoTokenIsNoToken
      <4> QED  BY <2>4, <3>1, <4>1, <4>2
    <3> QED  BY <3>1
  <2>7. \A r \in Tokens : <<r, "revoked">> \in left' => rows[r] = "revoked"
    BY <1>6, <2>4 DEF SessionInv
  <2>8. \A u, v \in Tabs : Sent(u)' /\ Sent(v)' /\ u # v /\ sends'[u].kind = "verify" /\ sends'[u].token \in Tokens =>
          sends'[v].token # sends'[u].token
    BY <1>1, <1>2, <1>4 DEF SessionInv, Sent, k, s
  <2> QED  BY <1>1, <1>3, <2>3, <2>5, <2>6, <2>7, <2>8 DEF SessionInv, Sent, Made
<1> QED  BY <1>7, <1>8

LEMMA SessionStep == SessionInv /\ [SessionsNext]_sessionVars => SessionInv'
<1> SUFFICES ASSUME SessionInv, [SessionsNext]_sessionVars  PROVE SessionInv'
  OBVIOUS
<1>1. CASE UNCHANGED sessionVars
  BY <1>1 DEF sessionVars, SessionInv, SaneAt, Sane, Made, Sent
<1>t. sends \in [Tabs -> Sends \cup {NoSend}] /\ rows \in [Tokens -> {"none", "live", "expired", "revoked"}] /\ late = FALSE
  BY DEF SessionInv
<1>2. ASSUME NEW t \in Tabs, NEW kind \in Kinds, SendCall(t, kind)  PROVE SessionInv'
  <2> DEFINE c == [kind |-> kind, token |-> IF kind = "verify" THEN NoToken ELSE cookie,
                   work |-> "todo", waits |-> TRUE, reply |-> {}]
  <2>1. cookie \in Tokens \cup {NoToken} /\ (cookie \in Tokens => Made(cookie))
    BY DEF SessionInv
  <2>2. c \in Sends /\ c.kind = kind /\ c.work = "todo" /\ c.reply = {}
        /\ c.token = (IF kind = "verify" THEN NoToken ELSE cookie)
    <3>1. {} \in Replies
      BY DEF Replies
    <3> QED  BY <2>1, <3>1 DEF Sends
  <2>3. /\ sends' = [sends EXCEPT ![t] = c] /\ rows' = rows /\ cookie' = cookie /\ left' = left /\ late' = late
        /\ kind # "verify" => cookie # NoToken
    BY <1>2 DEF SendCall
  <2> HIDE DEF c
  <2>4. sends' \in [Tabs -> Sends \cup {NoSend}] /\ \A u \in Tabs : sends'[u] = IF u = t THEN c ELSE sends[u]
    BY <1>t, <2>2, <2>3
  <2>5. Sane(c)
    BY <2>1, <2>2, <2>3, NoTokenIsNoToken DEF Sane
  <2>6. ASSUME NEW u \in Tabs, sends'[u] # NoSend  PROVE SaneAt(u)'
    <3>1. Sane(sends'[u])
      BY <2>4, <2>5, <2>6 DEF SessionInv, SaneAt, Sent
    <3> QED  BY <2>3, <3>1 DEF SaneAt, Sane, Made
  <2>7. ASSUME NEW u \in Tabs, NEW v \in Tabs, Sent(u)', Sent(v)', u # v, sends'[u].kind = "verify", sends'[u].token \in Tokens
        PROVE  sends'[v].token # sends'[u].token
    <3>1. u # t
      BY <2>2, <2>4, <2>7, NoTokenIsNoToken
    <3>2. CASE v # t
      BY <2>4, <2>7, <3>1, <3>2 DEF SessionInv, Sent
    <3>3. CASE v = t
      <4>1. Sane(sends[u]) /\ sends[u].kind = "verify" /\ sends[u].token \in Tokens
        BY <2>4, <2>7, <3>1 DEF SessionInv, Sent, SaneAt
      <4>2. sends[u].token # cookie /\ sends[u].token # NoToken
        BY <4>1, NoTokenIsNoToken DEF Sane
      <4>3. c.token \in {cookie, NoToken} /\ sends'[v] = c /\ sends'[u] = sends[u]
        BY <2>2, <2>4, <3>1, <3>3
      <4> QED  BY <4>2, <4>3
    <3> QED  BY <3>2, <3>3
  <2> QED  BY <2>3, <2>4, <2>6, <2>7 DEF SessionInv, Sent, Made
<1>3. ASSUME NEW t \in Tabs, NEW s \in Tokens, VerifyLogin(t, s)  PROVE SessionInv'
  <2>1. sends[t] \in Sends /\ Sent(t) /\ sends[t].kind = "verify"
    BY <1>3, <1>t DEF VerifyLogin, ToDo, Sent
  <2>2. PICK c \in Sends : Becomes(t, c) /\ c.kind = "verify" /\ c.work = "done" /\ c.token = s
    <3>1. Does(t, "done", {200}, s) /\ s \in Tokens \cup {NoToken}
      BY <1>3 DEF VerifyLogin, Does
    <3>2. \E d \in Sends : /\ Becomes(t, d)
                           /\ d.kind = sends[t].kind /\ d.work = "done" /\ d.token = s
                           /\ d.reply = {200}
      BY <1>t, <2>1, <3>1, DoesStep, RepliesOf
    <3> QED  BY <2>1, <3>2
  <2>3. /\ rows' = [rows EXCEPT ![s] = "live"] /\ rows[s] = "none"
        /\ cookie' = cookie /\ left' = left /\ late' = FALSE
    BY <1>3, <1>t DEF VerifyLogin
  <2>4. /\ rows' \in [Tokens -> {"none", "live", "expired", "revoked"}] /\ ~Made(s) /\ rows'[s] # "none"
        /\ \A r \in Tokens : Made(r) => rows'[r] # "none"
        /\ \A r \in Tokens : rows[r] = "revoked" => rows'[r] = "revoked"
    BY <1>t, <2>3 DEF Made
  <2> QED  BY <2>1, <2>2, <2>3, <2>4, RowsStep
<1>4. ASSUME NEW t \in Tabs, RefuseLogin(t)  PROVE SessionInv'
  <2>1. sends[t] \in Sends /\ Sent(t) /\ sends[t].kind = "verify"
    BY <1>4, <1>t DEF RefuseLogin, ToDo, Sent
  <2>2. PICK c \in Sends : /\ Becomes(t, c) /\ c.kind = "verify" /\ c.work = "done"
                           /\ c.token = NoToken /\ 200 \notin c.reply
    <3>1. Does(t, "done", {400}, NoToken) /\ NoToken \in Tokens \cup {NoToken}
      BY <1>4 DEF RefuseLogin, Does
    <3>2. \E d \in Sends : /\ Becomes(t, d)
                           /\ d.kind = sends[t].kind /\ d.work = "done" /\ d.token = NoToken
                           /\ d.reply = {400}
      BY <1>t, <2>1, <3>1, DoesStep, RepliesOf
    <3> QED  BY <2>1, RepliesOf, <3>2
  <2>3. rows' = rows /\ cookie' = cookie /\ left' = left /\ late' = FALSE
    BY <1>4, <1>t DEF RefuseLogin
  <2>4. \A r \in Tokens : Made(r) => rows'[r] # "none"
    BY <2>3 DEF Made
  <2> QED  BY <1>t, <2>1, <2>2, <2>3, <2>4, NoTokenIsNoToken, RowsStep
<1>5. ASSUME NEW t \in Tabs, GetSession(t) \/ HandleRoute(t) \/ RevokeSession(t)  PROVE SessionInv'
  <2>1. sends[t] \in Sends /\ Sent(t) /\ Sane(sends[t]) /\ sends[t].token \in Tokens \cup {NoToken}
    BY <1>5, <1>t DEF GetSession, HandleRoute, RevokeSession, ToDo, Sent, SessionInv, SaneAt, Sends
  <2>2. CASE GetSession(t)
    <3>1. sends[t].kind = "session" /\ sends[t].token \in Tokens /\ Made(sends[t].token)
      BY <2>1, <2>2 DEF GetSession, ToDo, Sane
    <3>2. /\ rows' = rows /\ cookie' = cookie /\ left' = left /\ late' = FALSE
      BY <1>t, <2>2, <3>1 DEF GetSession, Live, SessionInv
    <3>3. \E c \in Sends : Becomes(t, c) /\ c.kind = "session" /\ c.token = sends[t].token
      <4>1. CASE Live(sends[t].token)
        <5>1. Does(t, "accepted", {200, 400, 401}, sends[t].token) /\ sends[t].token \in Tokens \cup {NoToken}
          BY <2>1, <2>2, <4>1 DEF GetSession, Does
        <5>2. \E d \in Sends : /\ Becomes(t, d)
                               /\ d.kind = sends[t].kind /\ d.work = "accepted" /\ d.token = sends[t].token
                               /\ d.reply = {200, 400, 401}
          BY <1>t, <2>1, <5>1, DoesStep, RepliesOf
        <5> QED  BY <3>1, <5>2
      <4>2. CASE ~Live(sends[t].token)
        <5>1. Does(t, "done", {401}, sends[t].token) /\ sends[t].token \in Tokens \cup {NoToken}
          BY <2>1, <2>2, <4>2 DEF GetSession, Does
        <5>2. \E d \in Sends : /\ Becomes(t, d)
                               /\ d.kind = sends[t].kind /\ d.work = "done" /\ d.token = sends[t].token
                               /\ d.reply = {401}
          BY <1>t, <2>1, <5>1, DoesStep, RepliesOf
        <5> QED  BY <3>1, <5>2
      <4> QED  BY <4>1, <4>2
    <3>4. \A r \in Tokens : Made(r) => rows'[r] # "none"
      BY <3>2 DEF Made
    <3> QED  BY <1>t, <2>1, <3>1, <3>2, <3>3, <3>4, RowsStep
  <2>3. CASE HandleRoute(t)
    <3> DEFINE c == [sends[t] EXCEPT !.work = "done"]
    <3>1. c \in Sends /\ c.kind = sends[t].kind /\ c.token = sends[t].token /\ c.work = "done" /\ c.reply = sends[t].reply
      BY <2>1 DEF Sends
    <3>2. /\ rows' = rows /\ cookie' = cookie /\ left' = left /\ late' = FALSE /\ Becomes(t, c)
      BY <1>t, <2>3 DEF HandleRoute, Becomes
    <3> HIDE DEF c
    <3>3. \A r \in Tokens : Made(r) => rows'[r] # "none"
      BY <3>2 DEF Made
    <3>4. /\ c.token \in Tokens => rows'[c.token] # "none"
          /\ c.kind = "verify" /\ 200 \in c.reply => c.token \in Tokens
          /\ c.kind = "logout" /\ 200 \in c.reply => rows'[c.token] = "revoked"
      BY <2>1, <3>1, <3>2 DEF Sane, Made
    <3> QED  BY <1>t, <2>1, <3>1, <3>2, <3>3, <3>4, RowsStep
  <2>4. CASE RevokeSession(t)
    <3>1. sends[t].kind = "logout" /\ sends[t].token \in Tokens /\ Made(sends[t].token)
      BY <2>1, <2>4 DEF RevokeSession, ToDo, Sane
    <3> DEFINE s == sends[t].token
    <3>2. /\ rows' = [rows EXCEPT ![s] = "revoked"] /\ cookie' = cookie /\ left' = left /\ late' = FALSE
      BY <1>t, <2>4 DEF RevokeSession
    <3>3. \E c \in Sends : Becomes(t, c) /\ c.kind = "logout" /\ c.token = s
      <4>1. CASE rows[s] = "revoked"
        <5>1. Does(t, "done", {401}, s) /\ s \in Tokens \cup {NoToken}
          BY <2>1, <2>4, <4>1 DEF RevokeSession, Does
        <5>2. \E d \in Sends : /\ Becomes(t, d)
                               /\ d.kind = sends[t].kind /\ d.work = "done" /\ d.token = s
                               /\ d.reply = {401}
          BY <1>t, <2>1, <5>1, DoesStep, RepliesOf
        <5> QED  BY <3>1, <5>2
      <4>2. CASE rows[s] # "revoked"
        <5>1. Does(t, "done", {200}, s) /\ s \in Tokens \cup {NoToken}
          BY <2>1, <2>4, <4>2 DEF RevokeSession, Does
        <5>2. \E d \in Sends : /\ Becomes(t, d)
                               /\ d.kind = sends[t].kind /\ d.work = "done" /\ d.token = s
                               /\ d.reply = {200}
          BY <1>t, <2>1, <5>1, DoesStep, RepliesOf
        <5> QED  BY <3>1, <5>2
      <4> QED  BY <4>1, <4>2
    <3>5. /\ rows' \in [Tokens -> {"none", "live", "expired", "revoked"}] /\ rows'[s] = "revoked"
          /\ \A r \in Tokens : Made(r) => rows'[r] # "none"
          /\ \A r \in Tokens : rows[r] = "revoked" => rows'[r] = "revoked"
      BY <1>t, <3>1, <3>2 DEF Made
    <3> HIDE DEF s
    <3> QED  BY <2>1, <3>1, <3>2, <3>3, <3>5, RowsStep DEF s
  <2> QED  BY <1>5, <2>2, <2>3, <2>4
<1>6. ASSUME NEW t \in Tabs, ReceiveAnswer(t)  PROVE SessionInv'
  BY <1>6, ReceiveStep DEF ReceiveAnswer
<1>7. ASSUME NEW t \in Tabs, NEW lost \in BOOLEAN, GiveUp(t, lost)  PROVE SessionInv'
  <2> DEFINE c == IF lost \/ sends[t].work = "done" THEN NoSend ELSE [sends[t] EXCEPT !.waits = FALSE]
  <2>1. sends[t] \in Sends /\ Sent(t)
    BY <1>7, <1>t DEF GiveUp, Sent
  <2>2. c \in Sends \cup {NoSend} /\ (c = NoSend \/ c = [sends[t] EXCEPT !.waits = FALSE])
    BY <2>1 DEF Sends
  <2>3. sends' = [sends EXCEPT ![t] = c] /\ Receive(t, 503)
    BY <1>7 DEF GiveUp
  <2> HIDE DEF c
  <2> QED  BY <2>1, <2>2, <2>3, ReceiveStep
<1>8. ASSUME NEW t \in Tabs, DropAnswer(t)  PROVE SessionInv'
  <2>1. /\ sends' \in [Tabs -> Sends \cup {NoSend}] /\ \A u \in Tabs : sends'[u] = sends[u] \/ sends'[u] = NoSend
        /\ rows' = rows /\ cookie' = cookie /\ left' = left /\ late' = late
    BY <1>8, <1>t DEF DropAnswer
  <2>2. ASSUME NEW u \in Tabs, sends'[u] # NoSend  PROVE SaneAt(u)'
    BY <2>1, <2>2 DEF SessionInv, SaneAt, Sane, Sent, Made
  <2> QED  BY <2>1, <2>2 DEF SessionInv, Sent, Made
<1>9. ASSUME NEW s \in Tokens, Expire(s)  PROVE SessionInv'
  <2>1. /\ rows' \in [Tokens -> {"none", "live", "expired", "revoked"}]
        /\ \A r \in Tokens : (rows'[r] # "none") = Made(r) /\ (rows[r] = "revoked" => rows'[r] = "revoked")
        /\ sends' = sends /\ cookie' = cookie /\ left' = left /\ late' = late
    BY <1>9, <1>t DEF Expire, Made
  <2>2. ASSUME NEW u \in Tabs, sends[u] # NoSend  PROVE SaneAt(u)'
    <3>1. Sane(sends[u])
      BY <2>2 DEF SessionInv, Sent, SaneAt
    <3> QED  BY <2>1, <3>1 DEF SaneAt, Sane, Made
  <2> QED  BY <2>1, <2>2 DEF SessionInv, Sent, Made
<1> QED
  BY <1>1, <1>2, <1>3, <1>4, <1>5, <1>6, <1>7, <1>8, <1>9 DEF SessionsNext

(* The browser forgets the token of a logout for good, and the primary     *)
(* accepts none that it said is revoked, for any number of calls.          *)
THEOREM LogoutIsFinal == SessionsSpec => []LoggedOutForGood
<1>1. SessionsInit => SessionInv
  BY NoTokenIsNoToken DEF SessionsInit, SessionInv, Sent
<1> QED  BY <1>1, SessionStep, SessionImplies, PTL DEF SessionsSpec

-----------------------------------------------------------------------------
(* Demo wallets.  A wallet is worth what it has earned, and its trades     *)
(* chain: a transaction holds its account, and has read it as it is.       *)
(* A share of at most all of it: a loss is bounded by the position.        *)
LEMMA ShareBounds ==
  ASSUME NEW n \in Nat, NEW bps \in Int, -Whole <= bps
  PROVE  /\ Share(n, bps) \in Int
         /\ -n <= Share(n, bps)
         /\ 0 <= bps => 0 <= Share(n, bps)
         /\ 0 <= bps /\ bps <= Whole => Share(n, bps) <= n
<1> DEFINE p == n * bps
<1>1. p \in Int /\ -Whole * n <= p
  BY SMT DEF Whole
<1>2. 0 <= bps => 0 <= p
  BY SMT
<1>3. bps <= Whole => p <= Whole * n
  BY SMT DEF Whole
<1>4. 2 * n * bps = 2 * p
  BY SMT
<1> HIDE DEF p
<1> QED
  BY <1>1, <1>2, <1>3, <1>4, SMT DEF Share, Whole

LEMMA Patched ==
  ASSUME NEW row \in Accounts, NEW cash \in Nat, NEW realized \in Int, NEW fees \in Nat,
         NEW closed \in Nat, NEW won \in Nat, NEW lost \in Nat
  PROVE  [row EXCEPT !.cash = cash, !.open = 0, !.realized = realized, !.fees = fees,
                     !.closed = closed, !.wins = won, !.losses = lost] \in Accounts
  BY DEF Accounts

(* A sale leaves a wallet of the right type: the cash stays positive.      *)
LEMMA SoldAccounted ==
  ASSUME NEW row \in Accounts, NEW bps \in Returns, NEW fee \in FeeRates
  PROVE  /\ Sold(row, bps, fee) \in Accounts
         /\ Charge(row, bps, fee) \in Nat /\ Net(row, bps, fee) \in Int
         /\ Sold(row, bps, fee).initial = row.initial
         /\ Equity(Sold(row, bps, fee)) = Equity(row) + Net(row, bps, fee)
         /\ Sold(row, bps, fee).realized = row.realized + Net(row, bps, fee)
<1> DEFINE gross == Gross(row, bps)
           charge == Charge(row, bps, fee)
           net == Net(row, bps, fee)
<1>1. row.open \in Nat /\ row.cash \in Nat /\ row.fees \in Nat /\ row.realized \in Int
      /\ row.closed \in Nat /\ row.wins \in Nat /\ row.losses \in Nat /\ row.initial \in Nat
  BY DEF Accounts
<1>2. bps \in Int /\ -Whole <= bps /\ fee \in Int /\ 0 <= fee /\ fee <= Whole
  <2>1. bps \in {b \in Int : -Whole <= b}
    BY LossesBounded
  <2>2. fee \in 0 .. Whole
    BY RatesBounded
  <2>3. Whole \in Int
    BY DEF Whole
  <2> HIDE DEF gross, charge, net
  <2> QED  BY <2>1, <2>2, <2>3, SMT
<1>3. gross \in Int /\ -row.open <= gross
  BY <1>1, <1>2, ShareBounds DEF Gross
<1>4. charge \in Nat /\ (gross <= 0 => charge = 0) /\ (0 < gross => charge <= gross)
  <2>1. CASE 0 < gross
    <3>1. gross \in Nat /\ -Whole <= fee
      BY <1>2, <1>3, <2>1, SMT DEF Whole
    <3>2. Share(gross, fee) \in Int /\ 0 <= Share(gross, fee) /\ Share(gross, fee) <= gross
      BY <3>1, <1>2, ShareBounds
    <3>3. charge = Share(gross, fee)
      BY <2>1 DEF Charge
    <3> HIDE DEF gross, charge
    <3> QED  BY <3>1, <3>2, <3>3, <2>1, SMT
  <2>2. CASE gross <= 0
    <3>1. charge = 0
      <4>1. ~(0 < gross)
        <5> HIDE DEF gross
        <5> QED  BY <1>3, <2>2, SMT
      <4> QED  BY <4>1 DEF Charge
    <3> HIDE DEF gross, charge
    <3> QED  BY <3>1, <2>2, <1>3, SMT
  <2> HIDE DEF gross, charge
  <2> QED  BY <2>1, <2>2, <1>3, SMT
<1>5. net = gross - charge
  BY DEF Net
<1> HIDE DEF gross, charge
<1>6. net \in Int /\ 0 <= row.open + net
  <2> HIDE DEF net
  <2> QED  BY <1>1, <1>3, <1>4, <1>5, SMT
<1> HIDE DEF net
<1> DEFINE won == row.wins + (IF net > 0 THEN 1 ELSE 0)
           lost == row.losses + (IF net < 0 THEN 1 ELSE 0)
<1>7. Sold(row, bps, fee) =
        [row EXCEPT !.cash = row.cash + row.open + net, !.open = 0,
                    !.realized = row.realized + net, !.fees = row.fees + charge,
                    !.closed = row.closed + 1, !.wins = won, !.losses = lost]
  BY Zenon DEF Sold, net, charge
<1>8. /\ row.cash + row.open + net \in Nat /\ row.fees + charge \in Nat
      /\ row.realized + net \in Int /\ row.closed + 1 \in Nat
      /\ won \in Nat /\ lost \in Nat
  BY <1>1, <1>4, <1>6, SMT
<1> HIDE DEF won, lost
<1>9. Sold(row, bps, fee) \in Accounts
  <2> DEFINE cash == row.cash + row.open + net
             realized == row.realized + net
             fees == row.fees + charge
             closed == row.closed + 1
  <2>1. cash \in Nat /\ realized \in Int /\ fees \in Nat /\ closed \in Nat
    BY <1>8
  <2>2. Sold(row, bps, fee) =
          [row EXCEPT !.cash = cash, !.open = 0, !.realized = realized, !.fees = fees,
                      !.closed = closed, !.wins = won, !.losses = lost]
    BY <1>7
  <2> HIDE DEF cash, realized, fees, closed
  <2>3. [row EXCEPT !.cash = cash, !.open = 0, !.realized = realized, !.fees = fees,
                    !.closed = closed, !.wins = won, !.losses = lost] \in Accounts
    BY <1>8, <2>1, Patched
  <2> QED  BY <2>2, <2>3
<1>10. Equity(Sold(row, bps, fee)) = Equity(row) + net
  BY <1>1, <1>6, <1>7, SMT DEF Equity, Accounts
<1>11. charge = Charge(row, bps, fee) /\ net = Net(row, bps, fee)
  BY DEF charge, net
<1>12. Sold(row, bps, fee).initial = row.initial /\ Sold(row, bps, fee).realized = row.realized + net
  BY <1>7 DEF Accounts
<1> QED
  BY <1>4, <1>6, <1>9, <1>10, <1>11, <1>12

(* A purchase moves cash into the position. *)
LEMMA BoughtAccounted ==
  ASSUME NEW row \in Accounts, NEW amount \in Amounts
  PROVE  /\ Bought(row, amount) \in Accounts
         /\ Bought(row, amount).initial = row.initial
         /\ Equity(Bought(row, amount)) = Equity(row)
         /\ Bought(row, amount).realized = row.realized
<1>1. row.cash \in Nat /\ row.open \in Nat
  BY DEF Accounts
<1>2. amount \in Nat
  BY BalancesPositive
<1>3. CASE row.open > 0
  BY <1>3 DEF Bought
<1>4. CASE ~(row.open > 0)
  <2>1. row.open = 0
    BY <1>1, <1>4, SMT
  <2> DEFINE n == Notional(row, amount)
  <2>2. n \in Nat /\ n <= row.cash
    BY <1>1, <1>2, SMT DEF Notional
  <2>3. Bought(row, amount) = [row EXCEPT !.cash = row.cash - n, !.open = n]
    BY <1>4 DEF Bought
  <2> HIDE DEF n
  <2>4. row.cash - n \in Nat /\ (row.cash - n) + n = row.cash + row.open
    BY <1>1, <2>1, <2>2, SMT
  <2> QED
    BY <2>2, <2>3, <2>4, <1>1 DEF Accounts, Equity
<1> QED
  BY <1>3, <1>4

-----------------------------------------------------------------------------
Locked(h) == tx[h] # None /\ tx[h].pc \in {"fee", "settle"}

(* Two transactions never hold one member's row. *)
LocksExclusive == \A g, h \in Handlers :
  Locked(g) /\ Locked(h) /\ tx[g].user = tx[h].user => g = h

(* The row that a transaction has locked is still the member's row. *)
RowsCurrent == \A h \in Handlers : Locked(h) =>
  tx[h].row = (IF accounts[tx[h].user] = None THEN NewAccount(tx[h].initial) ELSE accounts[tx[h].user])

TransactionsReady == \A h \in Handlers : tx[h] # None =>
  /\ tx[h].pc = "lock" => accounts[tx[h].user] # None
  /\ tx[h].pc = "settle" => tx[h].fee # None

(* An account without trades, which a view may have created, is as new. *)
Untraded == \A u \in Users :
  accounts[u] # None /\ trades[u] = <<>> => Equity(accounts[u]) = accounts[u].initial

DemoInv == TypeOK /\ EquityAccounted /\ BalancesChain /\ Untraded /\ LocksExclusive /\ RowsCurrent /\ TransactionsReady

LEMMA NewAccountAccounted ==
  ASSUME NEW initial \in Initials
  PROVE  /\ NewAccount(initial) \in Accounts
         /\ NewAccount(initial).initial = initial
         /\ Equity(NewAccount(initial)) = NewAccount(initial).initial + NewAccount(initial).realized
<1>1. initial \in Nat
  BY BalancesPositive
<1> QED
  BY <1>1 DEF NewAccount, Accounts, Equity

(* The row that a transaction has locked is an account in balance. *)
LEMMA LockedRow ==
  ASSUME DemoInv, NEW h \in Handlers, Locked(h)
  PROVE  /\ tx[h] \in Transactions
         /\ tx[h].user \in Users /\ tx[h].initial \in Initials
         /\ tx[h].row \in Accounts
         /\ Equity(tx[h].row) = tx[h].row.initial + tx[h].row.realized
<1>1. tx[h] \in Transactions
  BY DEF DemoInv, TypeOK, Locked
<1>2. tx[h].user \in Users /\ tx[h].initial \in Initials
  BY <1>1 DEF Transactions
<1>3. CASE accounts[tx[h].user] = None
  BY <1>1, <1>2, <1>3, NewAccountAccounted DEF DemoInv, RowsCurrent
<1>4. CASE accounts[tx[h].user] # None
  BY <1>1, <1>2, <1>4 DEF DemoInv, RowsCurrent, TypeOK, EquityAccounted
<1> QED
  BY <1>1, <1>2, <1>3, <1>4

(* A statement that writes nothing yet. *)
LEMMA ContinueKeepsDemoInv ==
  ASSUME DemoInv, NEW h \in Handlers, NEW t \in Transactions \cup {None}, Continue(h, t),
         t # None => /\ t.pc = "lock" => accounts[t.user] # None
                     /\ t.pc = "settle" => t.fee # None,
         t # None /\ t.pc \in {"fee", "settle"} =>
           /\ t.row = (IF accounts[t.user] = None THEN NewAccount(t.initial) ELSE accounts[t.user])
           /\ \A g \in Handlers \ {h} : ~(Locked(g) /\ tx[g].user = t.user)
  PROVE  DemoInv'
<1>1. tx' = [tx EXCEPT ![h] = t] /\ UNCHANGED <<accounts, trades, feeBps>>
  BY DEF Continue
<1>2. tx \in [Handlers -> Transactions \cup {None}]
  BY DEF DemoInv, TypeOK
<1>3. tx'[h] = t /\ \A g \in Handlers \ {h} : tx'[g] = tx[g]
  BY <1>1, <1>2
<1>4. TypeOK'
  BY <1>1, <1>2 DEF DemoInv, TypeOK
<1>5. EquityAccounted' /\ BalancesChain' /\ Untraded'
  BY <1>1 DEF DemoInv, EquityAccounted, BalancesChain, Last, Untraded
<1>6. LocksExclusive'
  BY <1>3 DEF DemoInv, LocksExclusive, Locked
<1>7. RowsCurrent'
  BY <1>1, <1>3 DEF DemoInv, RowsCurrent, Locked
<1>8. TransactionsReady'
  BY <1>1, <1>3 DEF DemoInv, TransactionsReady
<1> QED
  BY <1>4, <1>5, <1>6, <1>7, <1>8 DEF DemoInv

(* A commit that stores an account in balance. *)
LEMMA StoreKeepsDemoInv ==
  ASSUME DemoInv, NEW h \in Handlers, Locked(h), NEW row \in Accounts,
         Equity(row) = row.initial + row.realized,
         accounts' = [accounts EXCEPT ![tx[h].user] = row],
         tx' = [tx EXCEPT ![h] = None], feeBps' = feeBps
  PROVE  EquityAccounted' /\ LocksExclusive' /\ RowsCurrent' /\ TransactionsReady'
         /\ accounts' \in [Users -> Accounts \cup {None}]
         /\ tx' \in [Handlers -> Transactions \cup {None}]
<1>1. tx \in [Handlers -> Transactions \cup {None}] /\ accounts \in [Users -> Accounts \cup {None}]
  BY DEF DemoInv, TypeOK
<1>2. tx[h].user \in Users
  BY LockedRow
<1>3. tx'[h] = None /\ \A g \in Handlers \ {h} : tx'[g] = tx[g]
  BY <1>1
<1>4. accounts'[tx[h].user] = row /\ \A u \in Users \ {tx[h].user} : accounts'[u] = accounts[u]
  BY <1>1, <1>2
<1>5. row # None
  BY NoneIsNoValue
<1>6. EquityAccounted'
  BY <1>2, <1>4 DEF DemoInv, EquityAccounted, Equity
<1>7. LocksExclusive'
  BY <1>3 DEF DemoInv, LocksExclusive, Locked
<1>8. RowsCurrent'
  <2> SUFFICES ASSUME NEW g \in Handlers, Locked(g)'
               PROVE  (tx[g].row = (IF accounts[tx[g].user] = None THEN NewAccount(tx[g].initial)
                                    ELSE accounts[tx[g].user]))'
    BY DEF RowsCurrent
  <2>1. g # h /\ tx'[g] = tx[g] /\ Locked(g)
    BY <1>3 DEF Locked
  <2>2. tx[g].user \in Users /\ tx[g].user # tx[h].user
    BY <2>1, LockedRow DEF DemoInv, LocksExclusive
  <2> QED
    BY <1>4, <2>1, <2>2 DEF DemoInv, RowsCurrent
<1>9. TransactionsReady'
  <2> SUFFICES ASSUME NEW g \in Handlers, tx'[g] # None
               PROVE  /\ tx'[g].pc = "lock" => accounts'[tx'[g].user] # None
                      /\ tx'[g].pc = "settle" => tx'[g].fee # None
    BY DEF TransactionsReady
  <2>1. g # h /\ tx'[g] = tx[g] /\ tx[g] \in Transactions
    BY <1>1, <1>3
  <2>2. tx[g].user \in Users
    BY <2>1 DEF Transactions
  <2> QED
    BY <1>4, <1>5, <2>1, <2>2 DEF DemoInv, TransactionsReady
<1> QED
  BY <1>1, <1>2, <1>6, <1>7, <1>8, <1>9

(* The UPDATE and the trade of a step extend the chain of balances.        *)
LEMMA WriteKeepsDemoInv ==
  ASSUME DemoInv, NEW h \in Handlers, NEW row \in Accounts, NEW closed \in BOOLEAN,
         NEW fee \in Nat, NEW net \in Int, Write(h, row, closed, fee, net),
         row.initial = tx[h].row.initial, Equity(row) = row.initial + row.realized
  PROVE  DemoInv'
<1> DEFINE u == tx[h].user
           trade == [closed |-> closed, before |-> Equity(tx[h].row),
                     after |-> Equity(row), fee |-> fee, net |-> net]
<1>1. /\ accounts' = [accounts EXCEPT ![u] = row]
      /\ trades' = [trades EXCEPT ![u] = Append(trades[u], trade)]
      /\ tx' = [tx EXCEPT ![h] = None] /\ feeBps' = feeBps
      /\ Locked(h)
  BY DEF Write, At, Locked
<1>2. /\ accounts \in [Users -> Accounts \cup {None}] /\ trades \in [Users -> Seq(Trades)]
      /\ feeBps \in FeeRates
  BY DEF DemoInv, TypeOK
<1>3. u \in Users /\ tx[h].row \in Accounts
  BY <1>1, LockedRow
<1>4. Equity(tx[h].row) \in Nat /\ Equity(row) \in Nat
  BY <1>3 DEF Equity, Accounts
<1>5. trade \in Trades
  BY <1>4 DEF Trades
<1>6. /\ EquityAccounted' /\ LocksExclusive' /\ RowsCurrent' /\ TransactionsReady'
      /\ accounts' \in [Users -> Accounts \cup {None}]
      /\ tx' \in [Handlers -> Transactions \cup {None}]
  BY <1>1, StoreKeepsDemoInv
<1>7. TypeOK'
  BY <1>1, <1>2, <1>3, <1>5, <1>6 DEF TypeOK
<1>8. BalancesChain'
  <2> SUFFICES ASSUME NEW v \in Users
               PROVE  /\ trades'[v] # <<>> =>
                            /\ accounts'[v] # None
                            /\ trades'[v][1].before = accounts'[v].initial
                            /\ trades'[v][Len(trades'[v])].after = Equity(accounts'[v])
                      /\ \A i \in 1 .. Len(trades'[v]) - 1 : trades'[v][i].after = trades'[v][i + 1].before
    BY DEF BalancesChain, Last, Equity
  <2>1. CASE v # u
    <3>1. trades'[v] = trades[v] /\ accounts'[v] = accounts[v]
      BY <1>1, <1>2, <2>1
    <3> QED
      BY <3>1 DEF DemoInv, BalancesChain, Last
  <2>2. CASE v = u
    <3> DEFINE s == trades[u]
    <3>1. trades'[v] = Append(s, trade) /\ accounts'[v] = row /\ row # None
      BY <1>1, <1>2, <1>3, <2>2, NoneIsNoValue
    <3>2. s \in Seq(Trades)
      BY <1>2, <1>3
    <3>3. trade.before = Equity(tx[h].row) /\ trade.after = Equity(row)
      OBVIOUS
    <3> HIDE DEF trade
    <3>4. /\ Append(s, trade) # <<>> /\ Len(Append(s, trade)) = Len(s) + 1
          /\ Append(s, trade)[Len(s) + 1] = trade
          /\ \A i \in 1 .. Len(s) : Append(s, trade)[i] = s[i]
          /\ Len(s) \in Nat /\ (s = <<>> => Len(s) = 0) /\ (s # <<>> => Len(s) # 0)
      <4> HIDE DEF s
      <4>1. Len(s) \in Nat /\ (s = <<>> => Len(s) = 0) /\ (s # <<>> => Len(s) # 0)
        BY <3>2
      <4> QED  BY <1>5, <3>2, <4>1, AppendProperties
    <3>5. CASE s = <<>>
      <4>1. Equity(tx[h].row) = tx[h].row.initial
        <5>1. CASE accounts[u] = None
          <6>1. tx[h].row = NewAccount(tx[h].initial) /\ tx[h].initial \in Initials
            BY <1>1, <5>1, LockedRow DEF DemoInv, RowsCurrent
          <6>2. tx[h].initial \in Nat
            BY <6>1, BalancesPositive
          <6> QED  BY <6>1, <6>2 DEF NewAccount, Equity
        <5>2. CASE accounts[u] # None
          BY <1>1, <1>3, <3>5, <5>2 DEF DemoInv, RowsCurrent, Untraded
        <5> QED  BY <5>1, <5>2
      <4>2. /\ Append(s, trade)[1] = trade /\ Len(Append(s, trade)) = 1
        BY <3>4, <3>5
      <4>3. \A i \in 1 .. Len(Append(s, trade)) - 1 : FALSE
        BY <4>2
      <4> QED
        BY <3>1, <3>3, <4>1, <4>2, <4>3
    <3>6. CASE s # <<>>
      <4>1. /\ accounts[u] # None /\ s[1].before = accounts[u].initial
            /\ s[Len(s)].after = Equity(accounts[u])
            /\ \A i \in 1 .. Len(s) - 1 : s[i].after = s[i + 1].before
        BY <1>3, <3>6 DEF DemoInv, BalancesChain, Last
      <4>2. tx[h].row = accounts[u]
        BY <1>1, <4>1 DEF DemoInv, RowsCurrent
      <4>3. Append(s, trade)[1] = s[1] /\ 1 \in 1 .. Len(s) /\ Len(s) \in 1 .. Len(s)
        BY <3>4, <3>6
      <4>4. ASSUME NEW i \in 1 .. Len(s)
            PROVE  Append(s, trade)[i].after = Append(s, trade)[i + 1].before
        <5>1. CASE i = Len(s)
          BY <3>3, <3>4, <4>1, <4>2, <4>3, <5>1
        <5>2. CASE i # Len(s)
          <6>1. i \in 1 .. Len(s) - 1 /\ i + 1 \in 1 .. Len(s)
            BY <3>4, <5>2
          <6> QED  BY <3>4, <4>1, <6>1
        <5> QED  BY SMTT(60), <5>1, <5>2
      <4> HIDE DEF s
      <4>5. Len(Append(s, trade)) - 1 = Len(s)
        BY <3>4
      <4>6. Append(s, trade)[Len(Append(s, trade))] = trade
        BY <3>4
      <4>7. Append(s, trade)[1].before = row.initial
        BY <4>1, <4>2, <4>3
      <4> QED
        BY <3>1, <3>3, <3>4, <4>4, <4>5, <4>6, <4>7
    <3> QED  BY <3>5, <3>6
  <2> QED
    BY <2>1, <2>2
<1>9. Untraded'
  <2> SUFFICES ASSUME NEW v \in Users, accounts'[v] # None, trades'[v] = <<>>
               PROVE  Equity(accounts'[v]) = accounts'[v].initial
    BY DEF Untraded, Equity
  <2>1. v # u
    <3>1. trades[u] \in Seq(Trades) /\ trades'[u] = Append(trades[u], trade)
      BY <1>1, <1>2, <1>3
    <3> HIDE DEF trade
    <3>2. Append(trades[u], trade) # <<>>
      BY <1>5, <3>1
    <3> QED  BY <3>1, <3>2
  <2> QED
    BY <1>1, <1>2, <1>3, <2>1 DEF DemoInv, Untraded
<1> QED
  BY <1>6, <1>7, <1>8, <1>9 DEF DemoInv

(* COMMIT of a view: at most it creates the account. *)
LEMMA ViewKeepsDemoInv ==
  ASSUME DemoInv, NEW h \in Handlers, View(h)
  PROVE  DemoInv'
<1> DEFINE u == tx[h].user
<1>1. /\ accounts' = [accounts EXCEPT ![u] = tx[h].row] /\ trades' = trades
      /\ tx' = [tx EXCEPT ![h] = None] /\ feeBps' = feeBps /\ Locked(h)
  BY DEF View, At, Locked
<1>2. /\ tx[h].initial \in Initials /\ u \in Users /\ tx[h].row \in Accounts
      /\ Equity(tx[h].row) = tx[h].row.initial + tx[h].row.realized
  BY <1>1, LockedRow
<1>3. accounts \in [Users -> Accounts \cup {None}]
  BY DEF DemoInv, TypeOK
<1>4. /\ EquityAccounted' /\ LocksExclusive' /\ RowsCurrent' /\ TransactionsReady'
      /\ accounts' \in [Users -> Accounts \cup {None}]
      /\ tx' \in [Handlers -> Transactions \cup {None}]
  BY <1>1, <1>2, StoreKeepsDemoInv
<1>5. TypeOK'
  BY <1>1, <1>4 DEF DemoInv, TypeOK
<1>6. CASE accounts[u] # None
  <2>1. accounts' = accounts
    BY <1>1, <1>2, <1>3, <1>6 DEF DemoInv, RowsCurrent
  <2>2. BalancesChain' /\ Untraded'
    BY <1>1, <2>1 DEF DemoInv, BalancesChain, Untraded, Last
  <2> QED  BY <1>4, <1>5, <2>2 DEF DemoInv
<1>7. CASE accounts[u] = None
  <2>1. trades[u] = <<>>
    BY <1>2, <1>7 DEF DemoInv, BalancesChain
  <2>2. tx[h].row = NewAccount(tx[h].initial)
    BY <1>1, <1>7 DEF DemoInv, RowsCurrent
  <2>3. Equity(tx[h].row) = tx[h].row.initial
    <3>1. tx[h].initial \in Nat
      BY <1>2, BalancesPositive
    <3> QED  BY <2>2, <3>1 DEF NewAccount, Equity
  <2>4. \A v \in Users : accounts'[v] = IF v = u THEN tx[h].row ELSE accounts[v]
    BY <1>1, <1>2, <1>3
  <2>5. BalancesChain'
    <3>1. BalancesChain /\ trades' = trades
      BY <1>1 DEF DemoInv
    <3>2. ASSUME NEW v \in Users, trades[v] # <<>>
          PROVE  accounts'[v] = accounts[v]
      BY <2>1, <2>4, <3>2
    <3> QED  BY <3>1, <3>2 DEF BalancesChain, Last, Equity
  <2>6. Untraded'
    BY <1>1, <2>3, <2>4 DEF DemoInv, Untraded, Equity
  <2> QED  BY <1>4, <1>5, <2>5, <2>6 DEF DemoInv
<1> QED
  BY <1>6, <1>7

LEMMA InitImpliesDemoInv == Init => DemoInv
<1> SUFFICES ASSUME Init PROVE DemoInv
  OBVIOUS
<1>1. TypeOK
  BY DEF Init, TypeOK
<1>2. EquityAccounted /\ BalancesChain /\ Untraded
  BY DEF Init, EquityAccounted, BalancesChain, Untraded
<1>3. LocksExclusive /\ RowsCurrent /\ TransactionsReady
  BY DEF Init, LocksExclusive, RowsCurrent, TransactionsReady, Locked
<1> QED
  BY <1>1, <1>2, <1>3 DEF DemoInv

(* Every step of every request keeps the invariant. *)
LEMMA NextKeepsDemoInv == DemoInv /\ [Next]_vars => DemoInv'
<1> SUFFICES ASSUME DemoInv, [Next]_vars PROVE DemoInv'
  OBVIOUS
<1> USE DEF At
<1>1. ASSUME NEW h \in Handlers, NEW u \in Users, NEW initial \in Initials, NEW view \in BOOLEAN,
             Begin(h, u, initial, view)
      PROVE  DemoInv'
  <2> DEFINE t == [pc |-> "ensure", view |-> view, user |-> u, initial |-> initial,
                   row |-> None, fee |-> None]
  <2>1. t \in Transactions /\ t.pc = "ensure"
    BY DEF Transactions
  <2>2. Continue(h, t)
    BY <1>1 DEF Begin
  <2> QED  BY <2>1, <2>2, ContinueKeepsDemoInv
<1>2. ASSUME NEW h \in Handlers, EnsureAccount(h)
      PROVE  DemoInv'
  <2>1. tx[h] \in Transactions /\ tx[h].pc = "ensure"
    BY <1>2 DEF EnsureAccount, DemoInv, TypeOK
  <2>2. CASE accounts[tx[h].user] # None
    <3> DEFINE t == [tx[h] EXCEPT !.pc = "lock"]
    <3>1. t \in Transactions /\ t.pc = "lock" /\ t.user = tx[h].user
      BY <2>1 DEF Transactions
    <3>2. Continue(h, t)
      BY <1>2, <2>2 DEF EnsureAccount
    <3> HIDE DEF t
    <3> QED  BY <2>2, <3>1, <3>2, ContinueKeepsDemoInv
  <2>3. CASE accounts[tx[h].user] = None
    <3> DEFINE t == [tx[h] EXCEPT !.pc = "fee", !.row = NewAccount(tx[h].initial)]
    <3>1. NewAccount(tx[h].initial) \in Accounts
      BY <2>1, NewAccountAccounted DEF Transactions
    <3>2. /\ t \in Transactions /\ t.pc = "fee" /\ t.user = tx[h].user
          /\ t.initial = tx[h].initial /\ t.row = NewAccount(tx[h].initial)
      BY <2>1, <3>1 DEF Transactions
    <3>3. Continue(h, t) /\ Free(h)
      BY <1>2, <2>3 DEF EnsureAccount
    <3>4. \A g \in Handlers \ {h} : ~(Locked(g) /\ tx[g].user = t.user)
      BY <3>2, <3>3 DEF Free, Holds, Locked
    <3> HIDE DEF t
    <3> QED  BY <2>3, <3>2, <3>3, <3>4, ContinueKeepsDemoInv
  <2> QED  BY <2>2, <2>3
<1>3. ASSUME NEW h \in Handlers, LockAccount(h)
      PROVE  DemoInv'
  <2> DEFINE t == [tx[h] EXCEPT !.pc = "fee", !.row = accounts[tx[h].user]]
  <2>1. tx[h] \in Transactions /\ tx[h].user \in Users /\ accounts[tx[h].user] # None
    BY <1>3 DEF LockAccount, DemoInv, TypeOK, Transactions, TransactionsReady
  <2>2. accounts[tx[h].user] \in Accounts
    BY <2>1 DEF DemoInv, TypeOK
  <2>3. /\ t \in Transactions /\ t.pc = "fee" /\ t.user = tx[h].user
        /\ t.row = accounts[tx[h].user]
    BY <2>1, <2>2 DEF Transactions
  <2>4. Continue(h, t) /\ Free(h)
    BY <1>3 DEF LockAccount
  <2>5. \A g \in Handlers \ {h} : ~(Locked(g) /\ tx[g].user = t.user)
    BY <2>3, <2>4 DEF Free, Holds, Locked
  <2> HIDE DEF t
  <2> QED  BY <2>1, <2>3, <2>4, <2>5, ContinueKeepsDemoInv
<1>4. ASSUME NEW h \in Handlers, ReadFee(h)
      PROVE  DemoInv'
  <2> DEFINE t == [tx[h] EXCEPT !.pc = "settle", !.fee = feeBps]
  <2>1. tx[h] \in Transactions /\ feeBps \in FeeRates /\ Locked(h)
    BY <1>4 DEF ReadFee, DemoInv, TypeOK, Locked
  <2>2. /\ t \in Transactions /\ t.pc = "settle" /\ t.user = tx[h].user /\ t.fee = feeBps
        /\ t.row = tx[h].row /\ t.initial = tx[h].initial /\ feeBps # None
    BY <2>1, NoneIsNoValue DEF Transactions
  <2>3. Continue(h, t)
    BY <1>4 DEF ReadFee
  <2>4. \A g \in Handlers \ {h} : ~(Locked(g) /\ tx[g].user = t.user)
    BY <2>1, <2>2 DEF DemoInv, LocksExclusive
  <2>5. t.row = (IF accounts[t.user] = None THEN NewAccount(t.initial) ELSE accounts[t.user])
    BY <2>1, <2>2 DEF DemoInv, RowsCurrent
  <2> HIDE DEF t
  <2> QED  BY <2>2, <2>3, <2>4, <2>5, ContinueKeepsDemoInv
<1>5. ASSUME NEW h \in Handlers, NEW amount \in Amounts, Buy(h, amount)
      PROVE  DemoInv'
  <2>1. Locked(h) /\ Write(h, Bought(tx[h].row, amount), FALSE, 0, 0)
    BY <1>5 DEF Buy, Locked
  <2>2. tx[h].row \in Accounts /\ Equity(tx[h].row) = tx[h].row.initial + tx[h].row.realized
    BY <2>1, LockedRow
  <2>3. /\ Bought(tx[h].row, amount) \in Accounts
        /\ Bought(tx[h].row, amount).initial = tx[h].row.initial
        /\ Equity(Bought(tx[h].row, amount)) = Equity(tx[h].row)
        /\ Bought(tx[h].row, amount).realized = tx[h].row.realized
    BY <2>2, BoughtAccounted
  <2> DEFINE row == Bought(tx[h].row, amount)
  <2>4. /\ row \in Accounts /\ row.initial = tx[h].row.initial
        /\ Equity(row) = row.initial + row.realized
    BY <2>2, <2>3
  <2>5. Write(h, row, FALSE, 0, 0)
    BY <2>1
  <2> HIDE DEF row
  <2>6. 0 \in Nat /\ 0 \in Int /\ FALSE \in BOOLEAN
    OBVIOUS
  <2> QED  BY <2>4, <2>5, <2>6, WriteKeepsDemoInv
<1>6. ASSUME NEW h \in Handlers, NEW bps \in Returns, Sell(h, bps)
      PROVE  DemoInv'
  <2> DEFINE row == tx[h].row
             fee == tx[h].fee
  <2>1. Locked(h) /\ Write(h, Sold(row, bps, fee), TRUE, Charge(row, bps, fee), Net(row, bps, fee))
    BY <1>6 DEF Sell, Locked
  <2>2. tx[h] \in Transactions /\ row \in Accounts /\ Equity(row) = row.initial + row.realized
    BY <2>1, LockedRow
  <2>3. fee \in FeeRates
    BY <1>6, <2>2 DEF Sell, DemoInv, TransactionsReady, Transactions
  <2> HIDE DEF row, fee
  <2>4. /\ Sold(row, bps, fee) \in Accounts
        /\ Charge(row, bps, fee) \in Nat /\ Net(row, bps, fee) \in Int
        /\ Sold(row, bps, fee).initial = row.initial
        /\ Equity(Sold(row, bps, fee)) = Equity(row) + Net(row, bps, fee)
        /\ Sold(row, bps, fee).realized = row.realized + Net(row, bps, fee)
    BY <2>2, <2>3, SoldAccounted
  <2>5. row.initial \in Nat /\ row.realized \in Int
    BY <2>2 DEF Accounts
  <2>6. Equity(Sold(row, bps, fee)) = Sold(row, bps, fee).initial + Sold(row, bps, fee).realized
    <3> DEFINE net == Net(row, bps, fee)
    <3>1. net \in Int
      BY <2>4
    <3>2. Equity(Sold(row, bps, fee)) = (row.initial + row.realized) + net
      BY <2>2, <2>4
    <3> HIDE DEF net
    <3>3. (row.initial + row.realized) + net = row.initial + (row.realized + net)
      BY <2>5, <3>1
    <3> QED  BY <2>4, <3>2, <3>3 DEF net
  <2> DEFINE sold == Sold(row, bps, fee)
             charge == Charge(row, bps, fee)
             net == Net(row, bps, fee)
  <2>7. /\ sold \in Accounts /\ charge \in Nat /\ net \in Int /\ TRUE \in BOOLEAN
        /\ sold.initial = tx[h].row.initial /\ Equity(sold) = sold.initial + sold.realized
    BY <2>4, <2>6 DEF row
  <2>8. Write(h, sold, TRUE, charge, net)
    BY <2>1
  <2> HIDE DEF sold, charge, net
  <2> QED  BY <2>7, <2>8, WriteKeepsDemoInv
<1>7. ASSUME NEW h \in Handlers, Keep(h)
      PROVE  DemoInv'
  <2>1. Locked(h) /\ Write(h, tx[h].row, FALSE, 0, 0)
    BY <1>7 DEF Keep, Locked
  <2>2. tx[h].row \in Accounts /\ Equity(tx[h].row) = tx[h].row.initial + tx[h].row.realized
    BY <2>1, LockedRow
  <2> DEFINE row == tx[h].row
  <2>3. row \in Accounts /\ row.initial = tx[h].row.initial /\ Equity(row) = row.initial + row.realized
    BY <2>2
  <2>4. Write(h, row, FALSE, 0, 0)
    BY <2>1
  <2> HIDE DEF row
  <2>5. 0 \in Nat /\ 0 \in Int /\ FALSE \in BOOLEAN
    OBVIOUS
  <2> QED  BY <2>3, <2>4, <2>5, WriteKeepsDemoInv
<1>8. ASSUME NEW h \in Handlers, View(h)
      PROVE  DemoInv'
  BY <1>8, ViewKeepsDemoInv
<1>9. ASSUME NEW h \in Handlers, Fail(h)
      PROVE  DemoInv'
  BY <1>9, ContinueKeepsDemoInv DEF Fail
<1>10. ASSUME NEW bps \in FeeRates, FeeChanges(bps)
       PROVE  DemoInv'
  BY <1>10 DEF FeeChanges, DemoInv, TypeOK, EquityAccounted, BalancesChain, Last, Untraded,
               LocksExclusive, RowsCurrent, TransactionsReady, Locked
<1>11. CASE UNCHANGED vars
  BY <1>11 DEF vars, DemoInv, TypeOK, EquityAccounted, BalancesChain, Last, Untraded,
               LocksExclusive, RowsCurrent, TransactionsReady, Locked
<1> QED
  BY <1>1, <1>2, <1>3, <1>4, <1>5, <1>6, <1>7, <1>8, <1>9, <1>10, <1>11 DEF Next, Handle

LEMMA SpecKeepsDemoInv == Spec => []DemoInv
  BY InitImpliesDemoInv, NextKeepsDemoInv, PTL DEF Spec

(* The wallet's tables and the transactions keep their types; above all,   *)
(* no settlement makes the cash or the position negative (settleDemoAction,*)
(* and the checks of migrations/021).                                      *)
THEOREM DemoTyped == Spec => []TypeOK
<1>1. DemoInv => TypeOK
  BY DEF DemoInv
<1> QED  BY <1>1, SpecKeepsDemoInv, PTL

(* Cash and position add up to the initial balance and the realized net    *)
(* profit, for any number of racing steps (runMemberAutoTradeDemoStep).    *)
THEOREM WorthAccounted == Spec => []EquityAccounted
<1>1. DemoInv => EquityAccounted
  BY DEF DemoInv
<1> QED  BY <1>1, SpecKeepsDemoInv, PTL

(* A member's trades form a chain of balances, for any number of racing    *)
(* steps: none settles a stale wallet (runMemberAutoTradeDemoStep).        *)
THEOREM TradesChain == Spec => []BalancesChain
<1>1. DemoInv => BalancesChain
  BY DEF DemoInv
<1> QED  BY <1>1, SpecKeepsDemoInv, PTL

-----------------------------------------------------------------------------
(* The gate of LIVE.  An activation adds the admin's approval, the LIVE    *)
(* mode and its flag, and stops the kill switch, and nothing else: tests   *)
(* of readiness, an unlocked signer and permissions to submit and to move  *)
(* funds have to be in the environment already; a kill or a return to      *)
(* SHADOW leaves no environment authorized (evaluateAdminLiveControl).     *)
THEOREM ActivationAddsNoReadiness ==
  ASSUME NEW env \in Environments
  PROVE  /\ Effective("ACTIVATE_LIVE", env) <=>
              \A s \in {"readiness_passed", "signer_unlocked", "network_submission_enabled", "fund_movement_enabled"} :
                env.words[s] = "on"
         /\ ~Effective("KILL_LIVE", env) /\ ~Effective("RETURN_SHADOW", env)
         /\ Effective("STATUS", env) => Effective("ACTIVATE_LIVE", env)
<1>1. \A s \in Settings : Nothing.words[s] = "none"
  BY DEF Nothing
<1>2. \A e, s : s \in Settings => (On(e, Nothing, s) <=> Truthy(e.words[s], s = "emergency_kill_switch"))
  BY <1>1 DEF On, Truthy
<1>3. Nothing.mode = "none"
  BY DEF Nothing
<1>4. ASSUME NEW e
      PROVE  Authorized(e, Nothing) <=> /\ e.mode = "LIVE"
                                        /\ \A s \in Flags : Truthy(e.words[s], FALSE)
                                        /\ ~Truthy(e.words["emergency_kill_switch"], TRUE)
  <2>1. IsLive(e, Nothing) <=> e.mode = "LIVE"
    BY <1>3 DEF IsLive
  <2>2. \A s \in Flags : On(e, Nothing, s) <=> Truthy(e.words[s], FALSE)
    BY <1>2 DEF Settings, Flags
  <2>3. On(e, Nothing, "emergency_kill_switch") <=> Truthy(e.words["emergency_kill_switch"], TRUE)
    BY <1>2 DEF Settings
  <2>4. Blockers(e, Nothing) = {} <=> /\ {s \in Flags : ~On(e, Nothing, s)} = {}
                                      /\ {s \in {"emergency_kill_switch"} : On(e, Nothing, s)} = {}
                                      /\ (IF IsLive(e, Nothing) THEN {} ELSE {"execution_mode"}) = {}
    BY DEF Blockers
  <2>5. {s \in Flags : ~On(e, Nothing, s)} = {} <=> \A s \in Flags : On(e, Nothing, s)
    OBVIOUS
  <2>6. {s \in {"emergency_kill_switch"} : On(e, Nothing, s)} = {} <=> ~On(e, Nothing, "emergency_kill_switch")
    OBVIOUS
  <2>7. (IF IsLive(e, Nothing) THEN {} ELSE {"execution_mode"}) = {} <=> IsLive(e, Nothing)
    OBVIOUS
  <2> QED  BY <2>1, <2>2, <2>3, <2>4, <2>5, <2>6, <2>7 DEF Authorized
<1>5. env.words \in [Settings -> Words]
  BY DEF Environments
<1>6. Effective("ACTIVATE_LIVE", env) <=>
        \A s \in {"readiness_passed", "signer_unlocked", "network_submission_enabled", "fund_movement_enabled"} : env.words[s] = "on"
  <2> DEFINE e == Base("ACTIVATE_LIVE", env)
  <2>1. e = [env EXCEPT !.mode = "LIVE", !.words["admin_live_approved"] = "on",
                        !.words["live_enabled"] = "on", !.words["emergency_kill_switch"] = "off"]
    BY DEF Base
  <2> DEFINE w == [[[env.words EXCEPT !["admin_live_approved"] = "on"] EXCEPT !["live_enabled"] = "on"]
                   EXCEPT !["emergency_kill_switch"] = "off"]
  <2>2. /\ w["admin_live_approved"] = "on" /\ w["live_enabled"] = "on" /\ w["emergency_kill_switch"] = "off"
        /\ \A s \in {"readiness_passed", "signer_unlocked", "network_submission_enabled", "fund_movement_enabled"} :
             w[s] = env.words[s]
    BY <1>5 DEF Settings, Flags
  <2>3. e = [[env EXCEPT !.mode = "LIVE"] EXCEPT !.words = w]
    BY <2>1
  <2> HIDE DEF w
  <2>4. e.mode = "LIVE" /\ e.words = w
    BY <2>3 DEF Environments
  <2>5. /\ e.mode = "LIVE" /\ e.words["admin_live_approved"] = "on" /\ e.words["live_enabled"] = "on"
        /\ e.words["emergency_kill_switch"] = "off"
        /\ \A s \in {"readiness_passed", "signer_unlocked", "network_submission_enabled", "fund_movement_enabled"} :
             e.words[s] = env.words[s]
    BY <2>2, <2>4
  <2> HIDE DEF e
  <2>6. Authorized(e, Nothing) <=>
          \A s \in {"readiness_passed", "signer_unlocked", "network_submission_enabled", "fund_movement_enabled"} : env.words[s] = "on"
    BY <1>4, <2>5 DEF Truthy, Flags
  <2> QED  BY <2>6 DEF Effective, e
<1>7. ASSUME NEW action \in {"KILL_LIVE", "RETURN_SHADOW"}  PROVE ~Effective(action, env)
  <2>1. Base(action, env).mode = "SHADOW"
    BY DEF Base, Environments
  <2> QED  BY <1>4, <2>1 DEF Effective
<1>8. Effective("STATUS", env) => Effective("ACTIVATE_LIVE", env)
  <2>1. Base("STATUS", env) = env
    BY DEF Base
  <2>2. Effective("STATUS", env) => \A s \in Flags : env.words[s] = "on"
    BY <1>4, <2>1 DEF Effective, Truthy
  <2> QED  BY <1>6, <2>2 DEF Flags
<1> QED  BY <1>6, <1>7, <1>8

-----------------------------------------------------------------------------
(* The preflight of LIVE.  An eligible manifest has evidence for a version *)
(* of every required family: 30 positive and 10 negative cases without a   *)
(* false positive, in a readable file with the digest stated, and no file  *)
(* serves two versions; every version it requires is covered, and no other *)
(* (validate_manifest).                                                    *)
THEOREM EligibleIsProven ==
  ASSUME NEW env, NEW manifest, Eligible(env, manifest)
  PROVE  /\ \A family \in RequiredFamilies : \E i \in DOMAIN manifest.coverage :
              LET row == manifest.coverage[i] IN
              /\ row.target[1] = family /\ ~Placeholder(row.target[2])
              /\ row.positive >= MinPositive /\ row.negative >= MinNegative /\ row.falsePositives = 0
              /\ Content(row.file) = {row.digest}
         /\ \A i, j \in DOMAIN manifest.coverage : manifest.coverage[i].file = manifest.coverage[j].file => i = j
         /\ \A k \in DOMAIN manifest.required : \E i \in DOMAIN manifest.coverage : manifest.coverage[i].target = manifest.required[k]
         /\ env.mode = "SHADOW" /\ env.liveEnabled = "false"
<1> DEFINE required == manifest.required
           coverage == manifest.coverage
<1>1. RequiredTargetsValid(required) /\ CoverageValid(coverage, required) /\ RuntimeSafe(env)
  BY DEF Eligible, ManifestValid
<1> HIDE DEF required, coverage
<1>2. /\ \A i \in DOMAIN coverage : RowValid(coverage[i], required)
      /\ Distinct([i \in DOMAIN coverage |-> coverage[i].file])
      /\ {coverage[i].target : i \in DOMAIN coverage} = Targets(required)
  BY <1>1 DEF CoverageValid
<1>3. RequiredFamilies \subseteq {target[1] : target \in Targets(required)}
  BY <1>1 DEF RequiredTargetsValid
<1>4. ASSUME NEW family \in RequiredFamilies  PROVE \E i \in DOMAIN coverage : coverage[i].target[1] = family
  BY <1>2, <1>3
<1>5. ASSUME NEW i \in DOMAIN coverage
      PROVE  LET row == coverage[i] IN
             /\ ~Placeholder(row.target[2])
             /\ row.positive >= MinPositive /\ row.negative >= MinNegative /\ row.falsePositives = 0
             /\ Content(row.file) = {row.digest}
  BY <1>2 DEF RowValid, ValidTarget, Count, EvidenceMatches
<1>6. ASSUME NEW i \in DOMAIN coverage, NEW j \in DOMAIN coverage, coverage[i].file = coverage[j].file  PROVE i = j
  BY <1>2, <1>6 DEF Distinct
<1>7. ASSUME NEW k \in DOMAIN required  PROVE \E i \in DOMAIN coverage : coverage[i].target = required[k]
  BY <1>2 DEF Targets
<1>8. env.mode = "SHADOW" /\ env.liveEnabled = "false"
  BY <1>1 DEF RuntimeSafe
<1> QED  BY <1>4, <1>5, <1>6, <1>7, <1>8 DEF coverage, required
=============================================================================
