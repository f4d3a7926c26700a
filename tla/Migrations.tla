----------------------------- MODULE Migrations -----------------------------
(***************************************************************************)
(* runMigrations (migration-runner.mjs), before the server listens: each   *)
(* file that the first query found missing runs between BEGIN and COMMIT,  *)
(* with the row of its version.  Three files (005, 006, 007) end with a    *)
(* COMMIT of their own: it ends the runner's transaction, so the row is    *)
(* inserted after it and by itself.  The statements go to the pool and not *)
(* to a client, but nothing else queries yet, so each takes the one idle   *)
(* connection; when that is lost the process ends, as nobody listens for   *)
(* the pool's errors.  Several instances start, stop and start again.      *)
(***************************************************************************)
EXTENDS Integers, FiniteSets

CONSTANTS
  Servers,   \* instances
  MaxFile,   \* files of the newest release, in the order of their names
  SelfCommitting,  \* files whose SQL ends with COMMIT
  MaxStarts,
  Stopped

ASSUME MigrationBounds == MaxFile \in Nat /\ MaxStarts \in Nat

VARIABLES
  versions,  \* schema_migrations
  effects,   \* how often the SQL of each file is committed
  servers,
  starts

migrationVars == <<versions, effects, servers, starts>>

Files == 1 .. MaxFile

MigrationsInit ==
  /\ versions = {}
  /\ effects = [f \in Files |-> 0]
  /\ servers = [s \in Servers |-> Stopped]
  /\ starts = 0

OnServer(s, pc) == servers[s] # Stopped /\ servers[s].pc = pc

(* A release has the first files; the applied ones are read once.          *)
StartServer(s, release) ==
  /\ servers[s] = Stopped /\ starts < MaxStarts
  /\ servers' = [servers EXCEPT ![s] = [pc |-> "next", release |-> release, applied |-> versions, file |-> 1]]
  /\ starts' = starts + 1
  /\ UNCHANGED <<versions, effects>>

SkipApplied(s) ==
  /\ OnServer(s, "next") /\ servers[s].file <= servers[s].release
  /\ servers[s].file \in servers[s].applied
  /\ servers' = [servers EXCEPT ![s].file = @ + 1]
  /\ UNCHANGED <<versions, effects, starts>>

Ran(f) == effects' = [effects EXCEPT ![f] = effects[f] + 1]

(* BEGIN and the SQL of the file. *)
RunFile(s) ==
  /\ OnServer(s, "next") /\ servers[s].file <= servers[s].release
  /\ servers[s].file \notin servers[s].applied
  /\ IF servers[s].file \in SelfCommitting THEN Ran(servers[s].file) ELSE effects' = effects
  /\ servers' = [servers EXCEPT ![s].pc = "insert"]
  /\ UNCHANGED <<versions, starts>>

(* The primary key: an insertion waits for one that has not committed.     *)
WaitsForVersion(s) ==
  \E t \in Servers \ {s} : OnServer(t, "commit") /\ servers[t].file = servers[s].file

(* Mutant: the version has no primary key. *)
NeverDuplicate(f) == FALSE

Duplicate(f) == f \in versions

(* A second row of a version is refused: ROLLBACK, of nothing when the     *)
(* file has committed itself, and the process ends.                        *)
RefuseVersion(s) ==
  /\ OnServer(s, "insert") /\ ~WaitsForVersion(s)
  /\ Duplicate(servers[s].file)
  /\ servers' = [servers EXCEPT ![s] = Stopped]
  /\ UNCHANGED <<versions, effects, starts>>

InsertVersion(s) ==
  /\ OnServer(s, "insert") /\ ~WaitsForVersion(s)
  /\ ~Duplicate(servers[s].file) /\ servers[s].file \notin SelfCommitting
  /\ servers' = [servers EXCEPT ![s].pc = "commit"]
  /\ UNCHANGED <<versions, effects, starts>>

NextFile(s) == servers' = [servers EXCEPT ![s].pc = "next", ![s].file = servers[s].file + 1]

(* Without a transaction the row is there at once, and COMMIT does nothing. *)
InsertAlone(s) ==
  /\ OnServer(s, "insert") /\ ~WaitsForVersion(s)
  /\ ~Duplicate(servers[s].file) /\ servers[s].file \in SelfCommitting
  /\ versions' = versions \cup {servers[s].file}
  /\ NextFile(s)
  /\ UNCHANGED <<effects, starts>>

Applied(s) == versions' = versions \cup {servers[s].file} /\ Ran(servers[s].file)

CommitFile(s) ==
  /\ OnServer(s, "commit")
  /\ Applied(s)
  /\ NextFile(s)
  /\ UNCHANGED starts

(* The answer to COMMIT is lost: the process takes it for a failure. *)
LoseCommit(s) ==
  /\ OnServer(s, "commit")
  /\ Applied(s)
  /\ servers' = [servers EXCEPT ![s] = Stopped]
  /\ UNCHANGED starts

(* A failure or a crash rolls back what has not committed. *)
StopServer(s) ==
  /\ servers[s] # Stopped
  /\ servers' = [servers EXCEPT ![s] = Stopped]
  /\ UNCHANGED <<versions, effects, starts>>

Listening(s) == OnServer(s, "next") /\ servers[s].file > servers[s].release

MigrationsNext ==
  \E s \in Servers :
    \/ \E release \in Files : StartServer(s, release)
    \/ SkipApplied(s) \/ RunFile(s) \/ RefuseVersion(s)
    \/ InsertVersion(s) \/ InsertAlone(s) \/ CommitFile(s)
    \/ LoseCommit(s) \/ StopServer(s)

MigrationsSpec == MigrationsInit /\ [][MigrationsNext]_migrationVars

(* Whatever instances start together, fail and start again, no file is run *)
(* before an earlier one has its version, what has its version was run,    *)
(* and an instance that listens has all the files of its release.  A file  *)
(* that leaves the COMMIT to the runner is in the database exactly as      *)
(* often as its version; one that commits itself may be there without it,  *)
(* and more than once (runMigrations, start).                              *)
MigrationsOrdered ==
  /\ \A f \in Files \ SelfCommitting : effects[f] = IF f \in versions THEN 1 ELSE 0
  /\ \A f \in versions : effects[f] > 0 /\ 1 .. f \subseteq versions
  /\ \A f \in Files : effects[f] > 0 => 1 .. f - 1 \subseteq versions
  /\ \A s \in Servers : Listening(s) => 1 .. servers[s].release \subseteq versions
=============================================================================
