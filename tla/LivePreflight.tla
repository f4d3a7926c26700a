--------------------------- MODULE LivePreflight ---------------------------
(***************************************************************************)
(* preflight_live.py: may an operator activate LIVE?  It reads a manifest  *)
(* of evidence, which may say anything, and the environment, and changes   *)
(* nothing.  A target is a pair of a DEX family and a version; strings are *)
(* compared after trim and lower case, so they stand here in that form.    *)
(* A value of the wrong type is Malformed.                                 *)
(***************************************************************************)
EXTENDS Integers, Sequences

CONSTANTS
  Malformed,      \* a value that is not of its field's type
  Placeholder(_), \* is a version one of replace, unset, unknown, ...
  Content(_)      \* the digest of the file at a path, {} when it is not to be read

RequiredFamilies == {"jupiter", "raydium", "orca"}
MinPositive == 30
MinNegative == 10

RequiredChecks == {"replay_idempotency", "price_freshness", "execution_engine_v3_health", "signer_isolation"}

(* A failing check ends the program; only whether one fails is kept.       *)
RuntimeSafe(env) ==
  /\ env.mode = "SHADOW" /\ env.liveEnabled = "false"
  /\ env.fixtureGate = "true" /\ env.operatorApproved = "true"

ValidTarget(target) == target # Malformed /\ ~Placeholder(target[2])

Distinct(list) == \A i, j \in DOMAIN list : list[i] = list[j] => i = j

Targets(list) == {list[i] : i \in DOMAIN list}

RequiredTargetsValid(required) ==
  /\ required # <<>>
  /\ \A i \in DOMAIN required : ValidTarget(required[i])
  /\ Distinct(required)
  /\ RequiredFamilies \subseteq {target[1] : target \in Targets(required)}

Count(value, least) == value # Malformed /\ value >= least

(* The evidence of a row: a readable, non-empty file under the directory   *)
(* of the manifest that has the digest the row states.                     *)
EvidenceMatches(row) ==
  /\ row.digest # Malformed /\ row.file # Malformed
  /\ Content(row.file) = {row.digest}

RowValid(row, required) ==
  /\ ValidTarget(row.target) /\ row.target \in Targets(required)
  /\ row.source = "VERIFIED_ONCHAIN"
  /\ Count(row.positive, MinPositive) /\ Count(row.negative, MinNegative)
  /\ row.falsePositives # Malformed /\ row.falsePositives = 0
  /\ row.allPassed = "true" /\ row.exactAmounts = "true"
  /\ EvidenceMatches(row)

CoverageValid(coverage, required) ==
  /\ coverage # <<>>
  /\ \A i \in DOMAIN coverage : RowValid(coverage[i], required)
  /\ Distinct([i \in DOMAIN coverage |-> coverage[i].target])
  /\ Distinct([i \in DOMAIN coverage |-> coverage[i].file])
  /\ {coverage[i].target : i \in DOMAIN coverage} = Targets(required)

ManifestValid(manifest) ==
  /\ manifest # Malformed /\ ~manifest.secrets
  /\ manifest.version = 1 /\ manifest.class = "VERIFIED_ONCHAIN"
  /\ manifest.required # Malformed /\ RequiredTargetsValid(manifest.required)
  /\ manifest.coverage # Malformed /\ CoverageValid(manifest.coverage, manifest.required)
  /\ manifest.checks # Malformed
  /\ \A check \in RequiredChecks : manifest.checks[check] = "true"

Eligible(env, manifest) == RuntimeSafe(env) /\ ManifestValid(manifest)
=============================================================================
