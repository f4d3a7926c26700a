--------------------------- MODULE MCRequestRaces ---------------------------
(* Requests of one process that race on the rows of the database: logins   *)
(* of new wallets and of a user who returns and is asked to accept a       *)
(* second version of both documents, and evaluations that count the        *)
(* decisions of the day.  The two share no state, so a behaviour is one of *)
(* either kind.                                                            *)
EXTENDS WalletAuth, TLC

CONSTANTS PoolSize, MaxTrades, ShadowUnlimited, MaxDecisions, MaxLeft

VARIABLES req, left, today, recent, mandate, ready, part

Trade == INSTANCE AutoTradePipeline

tradeVars == <<req, left, today, recent, mandate, ready>>

MCTypes == {"TERMS", "RISK_DISCLOSURE"}

(* All that an account needs, in both orders, and incomplete ones. *)
MCLists == {<<<<"TERMS", 2>>, <<"RISK_DISCLOSURE", 2>>>>,
            <<<<"RISK_DISCLOSURE", 2>>, <<"TERMS", 2>>>>,
            <<<<"TERMS", 2>>>>, <<>>}

Returning(u, w) ==
  /\ challenges = [c \in Challenges |-> None]
  /\ wallets = [x \in Wallets |-> IF x = w THEN u ELSE None]
  /\ accounts = {u}
  /\ consents = {u} \X (MCTypes \X {1})
  /\ sessions = [s \in Sessions |-> None]
  /\ uses = [c \in Challenges |-> 0]
  /\ tx = [h \in Handlers |-> None]

RacesInit ==
  /\ part \in {"login", "trade"}
  /\ \/ Init
     \/ part = "login" /\ \E u \in Users, w \in Wallets : Returning(u, w)
  /\ Trade!Init
  /\ part = "login" => ~mandate /\ ~ready

RacesNext ==
  \/ part = "login" /\ Next /\ UNCHANGED <<part, tradeVars>>
  \/ part = "trade" /\ Trade!Next /\ UNCHANGED <<part, vars>>

RacesSpec == RacesInit /\ [][RacesNext]_<<part, vars, tradeVars>>

OvershootBounded == Trade!OvershootBounded

Symmetry == Permutations(Handlers) \cup Permutations(Challenges) \cup Permutations(Users)
            \cup Permutations(Sessions) \cup Permutations(Wallets)
=============================================================================
