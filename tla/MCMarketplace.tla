--------------------------- MODULE MCMarketplace ---------------------------
(* The trader's side and the follower's side of the marketplace on small   *)
(* sets.  They share the listing alone, which CopyMandates lets change at  *)
(* any time, so a behaviour is one of one side while the other keeps its   *)
(* initial state.  f1 owns t2, so the self-copy check bites.               *)
EXTENDS TraderMarketplace, CopyMandates, TLC

CONSTANTS f1, t1, t2,
  Sides    \* the sides a behaviour may be of

VARIABLE side

MCTraders == {t1, t2}
MCOwner == t1 :> None @@ t2 :> f1

MarketplaceInit ==
  /\ side \in Sides
  /\ MarketInit
  /\ IF side = "mandates" THEN Init
     ELSE /\ copyable = {} /\ policies = [p \in Policies |-> None]
          /\ audit = {} /\ task = [h \in Handlers |-> None]

MarketplaceNext ==
  \/ side = "market" /\ MarketNext /\ UNCHANGED <<side, vars>>
  \/ side = "mandates" /\ Next /\ UNCHANGED <<side, marketVars>>

MarketplaceSpec == MarketplaceInit /\ [][MarketplaceNext]_<<side, marketVars, vars>>

(* No property tells requests, policies, evidence or applicants apart.  A  *)
(* behaviour has requests of one side only, so both sides share the model  *)
(* values of requests, and of policies and evidence.                       *)
Symmetry == Permutations(Handlers) \cup Permutations(Policies) \cup Permutations(Applicants)
=============================================================================
