----------------------------- MODULE MCServices -----------------------------
(* The small components, which share no state: a behaviour is one of one   *)
(* of them, while the others keep their initial states.                    *)
EXTENDS DemoLedger, Rental, EvidenceCollection, MarketCache, ExecutionDispatch, Rollout, LiveGate,
        ShadowSimulation, FollowerSnapshot, Migrations, WebSessions, FeeControl, MarketProbe, WebPages, DecisionChecks, TLC

VARIABLE part

(* A number may be unknown, low or high. *)
MCReadings == {{}, {0}, {2}}

(* The returns are those of the training fixtures. *)
MCReturns == {-700, 500, 800}

MCRoles == [ann |-> {"FEE_CONFIG_OPERATOR", "FEE_CONFIG_APPROVER"},
            bob |-> {"FEE_CONFIG_APPROVER", "FEE_CONFIG_APPLIER"},
            cid |-> {"FEE_CONFIG_APPLIER", "FEE_CONFIG_OPERATOR"}]

MCCache == [bonk |-> "token", wif |-> "token", wallet |-> "portfolio", feed |-> "discovery"]

Parts == {"demo", "rental", "collection", "cache", "dispatch", "rollout",
          "simulation", "snapshot", "migrations", "sessions", "fees", "probe", "pages"}

(* Components that start in several states start in one of them when they  *)
(* are not the part.                                                       *)
ServicesInit ==
  /\ part \in Parts
  /\ IF part = "demo" THEN Init
     ELSE /\ accounts = [u \in Users |-> None] /\ trades = [u \in Users |-> <<>>]
          /\ feeBps = CHOOSE bps \in FeeRates : TRUE
          /\ tx = [h \in Handlers |-> None]
  /\ RentalInit /\ CollectionInit /\ CacheInit /\ DispatchInit /\ RolloutInit
  /\ SimulationInit /\ SnapshotInit /\ MigrationsInit /\ SessionsInit /\ FeeInit /\ ProbeInit /\ PagesInit
  /\ part # "simulation" => \A f \in Copiers : policies[f] = [enabled |-> FALSE, maxCopy |-> 0, maxPosition |-> 0]
  /\ part # "probe" => slots = 0 /\ providers = {}
  /\ part # "pages" => view = "consent"

ServicesNext ==
  \/ /\ part = "demo" /\ Next
     /\ UNCHANGED <<part, rentalVars, collectionVars, cacheVars, dispatchVars, rolloutVars,
                   simulationVars, snapshotVars, migrationVars, sessionVars, feeVars, probeVars, pageVars>>
  \/ /\ part = "rental" /\ RentalNext
     /\ UNCHANGED <<part, vars, collectionVars, cacheVars, dispatchVars, rolloutVars,
                   simulationVars, snapshotVars, migrationVars, sessionVars, feeVars, probeVars, pageVars>>
  \/ /\ part = "collection" /\ CollectionNext
     /\ UNCHANGED <<part, vars, rentalVars, cacheVars, dispatchVars, rolloutVars,
                   simulationVars, snapshotVars, migrationVars, sessionVars, feeVars, probeVars, pageVars>>
  \/ /\ part = "cache" /\ CacheNext
     /\ UNCHANGED <<part, vars, rentalVars, collectionVars, dispatchVars, rolloutVars,
                   simulationVars, snapshotVars, migrationVars, sessionVars, feeVars, probeVars, pageVars>>
  \/ /\ part = "dispatch" /\ DispatchNext
     /\ UNCHANGED <<part, vars, rentalVars, collectionVars, cacheVars, rolloutVars,
                   simulationVars, snapshotVars, migrationVars, sessionVars, feeVars, probeVars, pageVars>>
  \/ /\ part = "rollout" /\ RolloutNext
     /\ UNCHANGED <<part, vars, rentalVars, collectionVars, cacheVars, dispatchVars,
                   simulationVars, snapshotVars, migrationVars, sessionVars, feeVars, probeVars, pageVars>>
  \/ /\ part = "simulation" /\ SimulationNext
     /\ UNCHANGED <<part, vars, rentalVars, collectionVars, cacheVars, dispatchVars,
                   rolloutVars, snapshotVars, migrationVars, sessionVars, feeVars, probeVars, pageVars>>
  \/ /\ part = "snapshot" /\ SnapshotNext
     /\ UNCHANGED <<part, vars, rentalVars, collectionVars, cacheVars, dispatchVars,
                   rolloutVars, simulationVars, migrationVars, sessionVars, feeVars, probeVars, pageVars>>
  \/ /\ part = "migrations" /\ MigrationsNext
     /\ UNCHANGED <<part, vars, rentalVars, collectionVars, cacheVars, dispatchVars,
                   rolloutVars, simulationVars, snapshotVars, sessionVars, feeVars, probeVars, pageVars>>
  \/ /\ part = "sessions" /\ SessionsNext
     /\ UNCHANGED <<part, vars, rentalVars, collectionVars, cacheVars, dispatchVars,
                   rolloutVars, simulationVars, snapshotVars, migrationVars, feeVars, probeVars, pageVars>>
  \/ /\ part = "fees" /\ FeeNext
     /\ UNCHANGED <<part, vars, rentalVars, collectionVars, cacheVars, dispatchVars,
                   rolloutVars, simulationVars, snapshotVars, migrationVars, sessionVars, probeVars, pageVars>>
  \/ /\ part = "probe" /\ MarketProbeNext
     /\ UNCHANGED <<part, vars, rentalVars, collectionVars, cacheVars, dispatchVars,
                   rolloutVars, simulationVars, snapshotVars, migrationVars, sessionVars, feeVars, pageVars>>
  \/ /\ part = "pages" /\ PagesNext
     /\ UNCHANGED <<part, vars, rentalVars, collectionVars, cacheVars, dispatchVars,
                   rolloutVars, simulationVars, snapshotVars, migrationVars, sessionVars, feeVars, probeVars>>

ServicesSpec ==
  ServicesInit /\ [][ServicesNext]_<<part, vars, rentalVars, collectionVars, cacheVars, dispatchVars, rolloutVars,
                                    simulationVars, snapshotVars, migrationVars, sessionVars, feeVars, probeVars, pageVars>>

Symmetry == Permutations(Askers) \cup Permutations(Clerks)
=============================================================================
