----------------------------- MODULE WalletAuth -----------------------------
(***************************************************************************)
(* Wallet login and wallet ownership proofs (wallet-auth.mjs, tables of    *)
(* migrations/012).  A verification is one database transaction: it locks  *)
(* the challenge row, and what it inserts is private to it until it        *)
(* commits, except that the unique indexes make a second writer of the     *)
(* same key wait for the first one to end.                                 *)
(*                                                                         *)
(* No code of the repository changes the status of an account, which is    *)
(* therefore always ACTIVE here.                                           *)
(***************************************************************************)
EXTENDS Naturals, Sequences, FiniteSets

CONSTANTS
  Wallets,
  Challenges,    \* challenge_id values
  Users,         \* user_id values
  Sessions,      \* session_id values
  Handlers,      \* HTTP requests served at the same time
  ConsentTypes,  \* the consents a new account must accept, in any version
  Versions,      \* policy versions
  ConsentLists,  \* the lists of consents a login may carry, in their order
  RateLimit,     \* challenges a wallet may have in one minute
  None

Consents == ConsentTypes \X Versions

ASSUME ListsOfConsents == ConsentLists \subseteq Seq(Consents)
ASSUME RateLimitPositive == RateLimit \in Nat \ {0}
ASSUME FiniteSystem == IsFiniteSet(Challenges) /\ IsFiniteSet(Handlers)

VARIABLES
  challenges,  \* wallet_auth_challenges
  wallets,     \* user_wallets: the account of each wallet
  accounts,    \* user_accounts
  consents,    \* user_consents
  sessions,    \* wallet_auth_sessions, with the challenge each one came from
  uses,        \* history: verifications of each challenge that succeeded
  tx           \* the transaction, or the pending statement, of each handler

tables == <<challenges, wallets, accounts, consents, sessions, uses>>
vars == <<tables, tx>>

(* Every purpose other than LOGIN is treated like BECOME_TRADER. *)
Purposes == {"LOGIN", "BECOME_TRADER"}

ChallengeRows == [wallet : Wallets, purpose : Purposes, used : BOOLEAN,
                  age : {"recent", "live", "expired"}]

Transactions == [pc : {"issue", "lock", "lookup", "register", "consent", "prove"},
                 purpose : Purposes, wallet : Wallets,
                 challenge : Challenges \cup {None}, list : Seq(Consents),
                 user : Users \cup {None}, created : BOOLEAN, added : SUBSET Consents]

ASSUME NoneIsNoValue ==
  None \notin Challenges \cup Users \cup ChallengeRows \cup Transactions \cup [user : Users, challenge : Challenges]

Init ==
  /\ challenges = [c \in Challenges |-> None]
  /\ wallets = [w \in Wallets |-> None]
  /\ accounts = {}
  /\ consents = {}
  /\ sessions = [s \in Sessions |-> None]
  /\ uses = [c \in Challenges |-> 0]
  /\ tx = [h \in Handlers |-> None]

At(h, pc) == tx[h] # None /\ tx[h].pc = pc

-----------------------------------------------------------------------------
(* ROLLBACK: the private writes and the row lock are gone. *)
Rollback(h) ==
  /\ tx' = [tx EXCEPT ![h] = None]
  /\ UNCHANGED tables

Continue(h, t) ==
  /\ tx' = [tx EXCEPT ![h] = t]
  /\ UNCHANGED tables

Recent(w) == {c \in Challenges :
  challenges[c] # None /\ challenges[c].wallet = w /\ challenges[c].age = "recent"}

(* Mutant: one challenge too many. *)
BelowLimitOrAt(w) == Cardinality(Recent(w)) <= RateLimit

BelowLimit(w) == Cardinality(Recent(w)) < RateLimit

(* issueChallenge counts first ... *)
CountRecent(h, w, purpose) ==
  /\ tx[h] = None
  /\ BelowLimit(w)
  /\ Continue(h, [pc |-> "issue", purpose |-> purpose, wallet |-> w, challenge |-> None,
                  list |-> <<>>, user |-> None, created |-> FALSE, added |-> {}])

(* ... and inserts in a statement of its own. *)
InsertChallenge(h, c) ==
  /\ At(h, "issue")
  /\ challenges[c] = None
  /\ challenges' = [challenges EXCEPT ![c] =
       [wallet |-> tx[h].wallet, purpose |-> tx[h].purpose, used |-> FALSE, age |-> "recent"]]
  /\ tx' = [tx EXCEPT ![h] = None]
  /\ UNCHANGED <<wallets, accounts, consents, sessions, uses>>

(* A minute after its creation, then at expires_at. *)
Age(c) ==
  /\ challenges[c] # None /\ challenges[c].age # "expired"
  /\ challenges' = [challenges EXCEPT ![c].age = IF @ = "recent" THEN "live" ELSE "expired"]
  /\ UNCHANGED <<wallets, accounts, consents, sessions, uses, tx>>

(* BEGIN of verifyLogin (with the consents of the request) or of           *)
(* verifyOwnership.                                                        *)
Begin(h, c, w, purpose, list) ==
  /\ tx[h] = None
  /\ purpose # "LOGIN" => list = <<>>
  /\ Continue(h, [pc |-> "lock", purpose |-> purpose, wallet |-> w, challenge |-> c,
                  list |-> list, user |-> None, created |-> FALSE, added |-> {}])

-----------------------------------------------------------------------------
(* Mutant: SELECT without FOR UPDATE. *)
NeverHeld(g, c) == FALSE

HoldsRow(g, c) == tx[g] # None /\ tx[g].challenge = c /\ tx[g].pc # "lock"

Inserting(g, w) == tx[g] # None /\ tx[g].created /\ tx[g].wallet = w

Adding(g, u, k) == tx[g] # None /\ tx[g].user = u /\ k \in tx[g].added

(* The transaction of g holds what the next statement of h needs. *)
BlockedOn(h, g) ==
  /\ g # h
  /\ \/ At(h, "lock") /\ HoldsRow(g, tx[h].challenge)
     \/ At(h, "register") /\ Inserting(g, tx[h].wallet)
     \/ /\ At(h, "consent") /\ tx[h].list # <<>>
        /\ Adding(g, tx[h].user, Head(tx[h].list))

Blocked(h) == \E g \in Handlers : BlockedOn(h, g)

(* Mutant: the wallet of the request is not compared. *)
ValidForAnyWallet(t) ==
  LET row == challenges[t.challenge] IN
  row # None /\ row.purpose = t.purpose /\ ~row.used /\ row.age # "expired"

Valid(t) ==
  LET row == challenges[t.challenge] IN
  /\ row # None
  /\ row.purpose = t.purpose /\ row.wallet = t.wallet
  /\ ~row.used /\ row.age # "expired"

(* Mutant: a refused verification is not rolled back. *)
RefuseAndForget(h) == UNCHANGED vars

Refuse(h) == Rollback(h)

(* SELECT ... FOR UPDATE and the checks of the row; a bad signature is a   *)
(* Fail of this request.                                                   *)
LockChallenge(h) ==
  /\ At(h, "lock") /\ ~Blocked(h)
  /\ IF Valid(tx[h])
     THEN Continue(h, [tx[h] EXCEPT !.pc = IF tx[h].purpose = "LOGIN" THEN "lookup" ELSE "prove"])
     ELSE Refuse(h)

(* Mutant: any consent will do. *)
SomeConsent(list) == list # <<>>

RequiredConsents(list) == \A k \in ConsentTypes : \E i \in 1 .. Len(list) : list[i][1] = k

(* The account of the wallet, or the insertion of a new one. *)
LookupUser(h) ==
  /\ At(h, "lookup")
  /\ \/ /\ wallets[tx[h].wallet] # None
        /\ Continue(h, [tx[h] EXCEPT !.pc = "consent", !.user = wallets[tx[h].wallet]])
     \/ /\ wallets[tx[h].wallet] = None
        /\ IF RequiredConsents(tx[h].list)
           THEN \E u \in Users :
                  /\ u \notin accounts
                  /\ \A g \in Handlers : tx[g] # None => tx[g].user # u
                  /\ Continue(h, [tx[h] EXCEPT !.pc = "register", !.user = u])
           ELSE Refuse(h)

(* Mutant: user_wallets has no unique wallet_address. *)
NeverRegistered(w) == FALSE

Registered(w) == wallets[w] # None

(* INSERT user_wallets. *)
RegisterWallet(h) ==
  /\ At(h, "register") /\ ~Blocked(h)
  /\ IF Registered(tx[h].wallet) THEN Refuse(h)
     ELSE Continue(h, [tx[h] EXCEPT !.pc = "consent", !.created = TRUE])

(* INSERT user_consents ... ON CONFLICT DO NOTHING, for the next consent. *)
RecordConsent(h) ==
  /\ At(h, "consent") /\ tx[h].list # <<>> /\ ~Blocked(h)
  /\ Continue(h, [tx[h] EXCEPT !.list = Tail(tx[h].list),
       !.added = IF <<tx[h].user, Head(tx[h].list)>> \in consents THEN tx[h].added
                 ELSE tx[h].added \cup {Head(tx[h].list)}])

MarkUsed(c) == [challenges EXCEPT ![c].used = TRUE]

(* The session, used_at, and COMMIT. *)
CommitLogin(h, s) ==
  /\ At(h, "consent") /\ tx[h].list = <<>>
  /\ sessions[s] = None
  /\ LET t == tx[h] IN
       /\ accounts' = IF t.created THEN accounts \cup {t.user} ELSE accounts
       /\ wallets' = IF t.created THEN [wallets EXCEPT ![t.wallet] = t.user] ELSE wallets
       /\ consents' = consents \cup {<<t.user, k>> : k \in t.added}
       /\ sessions' = [sessions EXCEPT ![s] = [user |-> t.user, challenge |-> t.challenge]]
       /\ challenges' = MarkUsed(t.challenge)
       /\ uses' = [uses EXCEPT ![t.challenge] = @ + 1]
  /\ tx' = [tx EXCEPT ![h] = None]

(* used_at and COMMIT of verifyOwnership. *)
CommitOwnership(h) ==
  /\ At(h, "prove")
  /\ challenges' = MarkUsed(tx[h].challenge)
  /\ uses' = [uses EXCEPT ![tx[h].challenge] = @ + 1]
  /\ tx' = [tx EXCEPT ![h] = None]
  /\ UNCHANGED <<wallets, accounts, consents, sessions>>

(* An error, a lost connection or a bad signature, before the COMMIT. *)
Fail(h) == tx[h] # None /\ Rollback(h)

(* PostgreSQL ends one transaction of a cycle of waiting ones. *)
BreakDeadlock(h) ==
  /\ \E S \in SUBSET Handlers :
       h \in S /\ \A g \in S : \E k \in S : BlockedOn(g, k)
  /\ tx' = [tx EXCEPT ![h] = None]
  /\ UNCHANGED tables

-----------------------------------------------------------------------------
Advance(h) ==
  \/ LockChallenge(h)
  \/ LookupUser(h)
  \/ RegisterWallet(h)
  \/ RecordConsent(h)
  \/ \E s \in Sessions : CommitLogin(h, s)
  \/ CommitOwnership(h)

Handle(h) ==
  \/ \E w \in Wallets, purpose \in Purposes : CountRecent(h, w, purpose)
  \/ \E c \in Challenges : InsertChallenge(h, c)
  \/ \E c \in Challenges, w \in Wallets, purpose \in Purposes, list \in ConsentLists :
       Begin(h, c, w, purpose, list)
  \/ Advance(h)
  \/ Fail(h)
  \/ BreakDeadlock(h)

Next == (\E c \in Challenges : Age(c)) \/ (\E h \in Handlers : Handle(h))

Spec == Init /\ [][Next]_vars

(* Row locks and index waits are granted in the order of the requests, so  *)
(* a statement that is free to run again and again runs.                   *)
Fairness == \A h \in Handlers : SF_vars(Advance(h)) /\ WF_vars(BreakDeadlock(h))

-----------------------------------------------------------------------------
TypeOK ==
  /\ challenges \in [Challenges -> ChallengeRows \cup {None}]
  /\ wallets \in [Wallets -> Users \cup {None}]
  /\ accounts \in SUBSET Users
  /\ consents \in SUBSET (Users \X Consents)
  /\ sessions \in [Sessions -> [user : Users, challenge : Challenges] \cup {None}]
  /\ uses \in [Challenges -> Nat]
  /\ tx \in [Handlers -> Transactions \cup {None}]

(* A challenge is verified at most once, whatever requests present it at   *)
(* the same time, and it counts as used exactly when it was: a failed      *)
(* attempt does not burn it (verifyLogin, verifyOwnership).                *)
ConsumedOnce == \A c \in Challenges :
  uses[c] = IF challenges[c] # None /\ challenges[c].used THEN 1 ELSE 0

(* Two first logins of a wallet make one account, and the loser of the     *)
(* race leaves no account without a wallet behind (verifyLogin).           *)
OneAccountPerWallet ==
  /\ \A u \in accounts : \E w \in Wallets : wallets[w] = u
  /\ \A w \in Wallets : wallets[w] # None =>
       wallets[w] \in accounts /\ \A x \in Wallets : wallets[x] = wallets[w] => x = w

(* No account exists whose required consents were not all recorded, even   *)
(* when requests of its user record consents at the same time.             *)
ConsentsRecorded == \A u \in accounts, k \in ConsentTypes :
  \E v \in Versions : <<u, <<k, v>>>> \in consents

(* A session belongs to the account of the wallet that was challenged for  *)
(* it, and it came from a LOGIN challenge (verifyLogin).                   *)
SessionOfChallengedWallet == \A s \in Sessions : sessions[s] # None =>
  LET c == challenges[sessions[s].challenge] IN
  c # None /\ c.purpose = "LOGIN" /\ wallets[c.wallet] = sessions[s].user

(* Counting and inserting are two statements, so a wallet can exceed its   *)
(* rate limit, but by no more than the requests in flight (issueChallenge).*)
RateBounded == \A w \in Wallets :
  Cardinality(Recent(w)) + Cardinality({h \in Handlers : At(h, "issue") /\ tx[h].wallet = w})
    <= RateLimit - 1 + Cardinality(Handlers)

(* A verification ends: waiting for another one's row lock, or for the     *)
(* wallet or a consent that another one is inserting, is never for ever    *)
(* (verifyLogin, verifyOwnership).                                         *)
VerificationEnds == \A h \in Handlers :
  (tx[h] # None /\ ~At(h, "issue")) ~> (tx[h] = None)

=============================================================================
