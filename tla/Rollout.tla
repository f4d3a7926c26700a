------------------------------- MODULE Rollout -------------------------------
(***************************************************************************)
(* The deployment scripts of the virtual machine (scripts/vm-*.sh).  One   *)
(* operator runs one script at a time, while commits are pushed to main.   *)
(* A script is a list of steps.  Under "set -Eeuo pipefail" a command that *)
(* fails ends the script after its ERR trap; "|| fail" calls exit, which   *)
(* runs no ERR trap.                                                       *)
(***************************************************************************)
EXTENDS Integers, Sequences

CONSTANTS
  MaxMain,  \* bound: commits on main
  MaxJobs   \* bound: scripts run

ASSUME RolloutBounds == MaxMain \in Nat \ {0} /\ MaxJobs \in Nat

VARIABLES
  main,    \* the last commit of origin/main
  tree,    \* the checkout: the commits of HEAD, of its API files, of their index entries
           \* and of its Caddyfile
  served,  \* the same of the image the API container runs
  caddy,   \* the commits of /etc/caddy/Caddyfile, of what caddy loaded and of the backup
  tested,  \* commits that passed the smoke test
  job,     \* the running script
  ended    \* how the last script ended, and the number of scripts

rolloutVars == <<main, tree, served, caddy, tested, job, ended>>

NoJob == [script |-> "none", at |-> 0, expected |-> 0, fetched |-> 0, backup |-> FALSE,
          before |-> 0, armed |-> FALSE]

RolloutInit ==
  /\ main = 1
  /\ tree = [head |-> 1, api |-> 1, index |-> 1, caddyfile |-> 1]
  /\ served = [head |-> 1, api |-> 1]
  /\ caddy = [file |-> 1, loaded |-> 1, saved |-> 1]
  /\ tested = {}
  /\ job = NoJob
  /\ ended = [how |-> "none", jobs |-> 0]

(* vm-apply-routing.sh *)
Routing == <<"require", "install", "validate", "arm", "reload", "verify", "disarm">>

CurrentMain == <<"require", "backup", "fetch", "merge", "validate", "smoke", "build", "verify">>

(* vm-deploy-wallet-auth.sh, vm-deploy-trader-onboarding.sh and            *)
(* vm-deploy-verification-copy-mandates.sh differ in the files they take.  *)
Feature == <<"require", "backup", "fetch", "checkout", "validate", "build", "verify">> \o Routing \o <<"verify">>

Signal == <<"require", "fetch", "checkout", "validate", "build", "verify">>

Hardening == <<"require", "backup", "fetch", "checkout", "arm", "validate", "build", "verify", "disarm">>

Topology == <<"require", "backup", "fetch", "checkout", "validate", "verify">> \o Routing \o <<"verify">>

(* vm-postdeploy-shadow-audit.sh reads only. *)
Audit == <<"require", "verify">>

Steps == [routing |-> Routing, current_main |-> CurrentMain, feature |-> Feature, signal |-> Signal,
          hardening |-> Hardening, topology |-> Topology, audit |-> Audit]

Scripts == DOMAIN Steps

(* Steps with a "|| fail". *)
Checked == {"require", "backup", "fetch", "merge", "validate", "smoke", "verify"}

Current == Steps[job.script][job.at]
IsAt(step) == job # NoJob /\ Current = step

(* git diff finds nothing changed or staged. *)
Clean == {tree.api, tree.index, tree.caddyfile} = {tree.head}

End(how) == ended' = [how |-> how, jobs |-> ended.jobs + 1]

Go(next) ==
  IF next.at < Len(Steps[next.script])
  THEN job' = [next EXCEPT !.at = next.at + 1] /\ UNCHANGED ended
  ELSE job' = NoJob /\ End("done")

-----------------------------------------------------------------------------
Push ==
  /\ main < MaxMain
  /\ main' = main + 1
  /\ UNCHANGED <<tree, served, caddy, tested, job, ended>>

(* The operator; expected is EXPECTED_SHA, an approved commit. *)
StartScript(script, expected) ==
  /\ job = NoJob /\ ended.jobs < MaxJobs
  /\ expected <= main
  /\ script = "audit" => expected = tree.head
  /\ job' = [NoJob EXCEPT !.script = script, !.at = 1, !.expected = expected]
  /\ ended' = [ended EXCEPT !.how = "none"]
  /\ UNCHANGED <<main, tree, served, caddy, tested>>

(* Steps that look and change nothing. *)
Look ==
  /\ IsAt("require") \/ IsAt("validate") \/ IsAt("verify")
  /\ job.script = "current_main" /\ Current = "require" => Clean
  /\ Go(job)
  /\ UNCHANGED <<main, tree, served, caddy, tested>>

Backup ==
  /\ IsAt("backup")
  /\ Go([job EXCEPT !.backup = TRUE])
  /\ UNCHANGED <<main, tree, served, caddy, tested>>

(* Mutant: whatever main is now is deployed. *)
ApprovedOrNot(commit) == TRUE

(* TARGET_SHA must be EXPECTED_SHA. *)
Approved(commit) == job.script = "current_main" => commit = job.expected

Fetch ==
  /\ IsAt("fetch") /\ Approved(main)
  /\ Go([job EXCEPT !.fetched = main])
  /\ UNCHANGED <<main, tree, served, caddy, tested>>

(* git merge --ff-only *)
Merge ==
  /\ IsAt("merge")
  /\ tree' = [head |-> job.fetched, api |-> job.fetched, index |-> job.fetched, caddyfile |-> job.fetched]
  /\ Go(job)
  /\ UNCHANGED <<main, served, caddy, tested>>

(* git checkout origin/main -- files: of the API, the routing, or both; a  *)
(* copy of the former is kept.                                             *)
Checkout ==
  /\ IsAt("checkout")
  /\ LET api == IF job.script = "topology" THEN tree.api ELSE job.fetched
         index == IF job.script = "topology" THEN tree.index ELSE job.fetched IN
     tree' = [tree EXCEPT !.api = api, !.index = index,
              !.caddyfile = IF job.script \in {"feature", "topology"} THEN job.fetched ELSE @]
  /\ Go([job EXCEPT !.before = tree.api])
  /\ UNCHANGED <<main, served, caddy, tested>>

Smoke ==
  /\ IsAt("smoke")
  /\ tested' = tested \cup {tree.head}
  /\ Go(job)
  /\ UNCHANGED <<main, tree, served, caddy>>

(* docker compose up --build api *)
Build ==
  /\ IsAt("build")
  /\ served' = [head |-> tree.head, api |-> tree.api]
  /\ Go(job)
  /\ UNCHANGED <<main, tree, caddy, tested>>

(* The previous Caddyfile is copied, the repository's installed. *)
Install ==
  /\ IsAt("install")
  /\ caddy' = [caddy EXCEPT !.saved = caddy.file, !.file = tree.caddyfile]
  /\ Go(job)
  /\ UNCHANGED <<main, tree, served, tested>>

(* ROLLBACK_REQUIRED, and changed of the hardening. *)
Arm ==
  /\ IsAt("arm") \/ IsAt("disarm")
  /\ Go([job EXCEPT !.armed = (Current = "arm")])
  /\ UNCHANGED <<main, tree, served, caddy, tested>>

Reload ==
  /\ IsAt("reload")
  /\ caddy' = [caddy EXCEPT !.loaded = caddy.file]
  /\ Go(job)
  /\ UNCHANGED <<main, tree, served, tested>>

-----------------------------------------------------------------------------
Stop(how) == job' = NoJob /\ End(how)

(* rollback(): the second command of each may fail, "|| true". *)
RestoreCaddyfile(reloaded) ==
  /\ caddy' = [caddy EXCEPT !.file = caddy.saved, !.loaded = IF reloaded THEN caddy.saved ELSE @]
  /\ UNCHANGED <<main, tree, served, tested>>

RestoreSource(rebuilt) ==
  /\ tree' = [tree EXCEPT !.api = job.before]
  /\ served' = IF rebuilt THEN [head |-> tree.head, api |-> job.before] ELSE served
  /\ UNCHANGED <<main, caddy, tested>>

Unchanged == UNCHANGED <<main, tree, served, caddy, tested>>

(* A command fails: the ERR trap. *)
Err ==
  /\ job # NoJob
  /\ Stop("failed")
  /\ IF ~job.armed THEN Unchanged
     ELSE \E again \in BOOLEAN : IF job.script = "hardening" THEN RestoreSource(again) ELSE RestoreCaddyfile(again)

(* A check fails: exit 1. *)
FailCheck ==
  /\ job # NoJob /\ Current \in Checked
  /\ Stop("failed")
  /\ Unchanged

(* Traps of vm-deploy-current-main-shadow.sh that clean up and return.     *)
Trapped == job.script = "current_main" /\ Current \in {"backup", "smoke"}

(* SIGTERM to the shell that runs the step: the trap of vm-apply-routing.sh *)
(* returns and the script goes on; so do the traps above, which change     *)
(* nothing here, since the step succeeds or fails as without them; other   *)
(* scripts end.                                                            *)
Terminate ==
  /\ job # NoJob /\ ~Trapped
  /\ IF job.armed /\ job.script # "hardening"
     THEN (\E again \in BOOLEAN : RestoreCaddyfile(again)) /\ UNCHANGED <<job, ended>>
     ELSE Stop("failed") /\ Unchanged

RolloutNext ==
  \/ Push
  \/ \E script \in Scripts, expected \in 1 .. MaxMain : StartScript(script, expected)
  \/ Look \/ Backup \/ Fetch \/ Merge \/ Checkout \/ Smoke \/ Build \/ Install \/ Arm \/ Reload
  \/ Err \/ FailCheck \/ Terminate

RolloutSpec == RolloutInit /\ [][RolloutNext]_rolloutVars

-----------------------------------------------------------------------------
(* vm-deploy-current-main-shadow.sh recreates the API only of the approved *)
(* commit, whole, smoke-tested and with the database saved before, though  *)
(* main moves on and other scripts leave files of other commits behind.    *)
RolloutTested == [][job.script = "current_main" /\ served' # served =>
  /\ served' = [head |-> job.expected, api |-> job.expected]
  /\ job.expected \in tested /\ job.backup]_rolloutVars

(* docs/DEPLOYMENT_TOPOLOGY.md: a cutover whose verification fails is      *)
(* rolled back (vm-apply-routing.sh).                                      *)
RoutingRolledBack == ended.how = "failed" => caddy.saved \in {caddy.file, caddy.loaded}
=============================================================================
