----------------------------- MODULE MCProgress -----------------------------
(* Whether requests that wait are served: evaluations that wait for        *)
(* connections of the pool, and verifications that wait for each other's   *)
(* rows.  The two share no state, so a behaviour is one of either kind.    *)
EXTENDS AutoTradePipeline, Sequences, TLC

CONSTANTS Wallets, Challenges, Users, Sessions, ConsentTypes, Versions, ConsentLists, RateLimit, None

VARIABLES challenges, wallets, accounts, consents, sessions, uses, tx, part

Login == INSTANCE WalletAuth

loginVars == <<challenges, wallets, accounts, consents, sessions, uses, tx>>

(* A returning user, asked to accept a new version of both documents. *)
MCTypes == {"TERMS", "RISK_DISCLOSURE"}
MCNewVersion == {<<<<"TERMS", 2>>, <<"RISK_DISCLOSURE", 2>>>>,
                 <<<<"RISK_DISCLOSURE", 2>>, <<"TERMS", 2>>>>}

Returning(u, w) ==
  /\ challenges = [c \in Challenges |-> None]
  /\ wallets = [x \in Wallets |-> IF x = w THEN u ELSE None]
  /\ accounts = {u}
  /\ consents = {u} \X (MCTypes \X {1})
  /\ sessions = [s \in Sessions |-> None]
  /\ uses = [c \in Challenges |-> 0]
  /\ tx = [h \in Handlers |-> None]

ProgressInit ==
  /\ part \in {"trade", "login"}
  /\ Init
  /\ part = "login" => ~mandate /\ ~ready
  /\ \E u \in Users, w \in Wallets : Returning(u, w)

ProgressNext ==
  \/ part = "trade" /\ Next /\ UNCHANGED <<part, loginVars>>
  \/ part = "login" /\ Login!Next /\ UNCHANGED <<part, vars>>

ProgressSpec ==
  ProgressInit /\ [][ProgressNext]_<<part, vars, loginVars>> /\ Fairness /\ Login!Fairness

VerificationEnds == Login!VerificationEnds
=============================================================================
