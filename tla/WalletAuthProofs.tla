-------------------------- MODULE WalletAuthProofs --------------------------
(***************************************************************************)
(* Logins and ownership proofs are safe for any number of wallets,         *)
(* challenges and requests in flight.  The argument: a transaction that    *)
(* went past LockChallenge holds its row, alone (RowsHeld), and the        *)
(* account it makes is its own until it commits (NewAccounts).             *)
(***************************************************************************)
EXTENDS WalletAuth, SequenceTheorems, FiniteSetTheorems, TLAPS

(* What the statements of a transaction have established.                  *)
Shape(t) ==
  /\ t.pc # "issue" => t.challenge \in Challenges
  /\ t.pc = "issue" => t.challenge = None
  /\ t.pc \in {"register", "consent"} => t.user \in Users
  /\ t.pc \notin {"register", "consent"} => t.user = None
  /\ t.created => t.pc = "consent"
  /\ t.pc # "consent" => t.added = {}

Shapes == \A h \in Handlers : tx[h] # None => Shape(tx[h])

LEMMA Edited ==
  ASSUME NEW t \in Transactions
  PROVE  /\ \A pc \in {"lookup", "prove"} : [t EXCEPT !.pc = pc] \in Transactions
         /\ \A pc \in {"register", "consent"}, u \in Users : [t EXCEPT !.pc = pc, !.user = u] \in Transactions
         /\ [t EXCEPT !.pc = "consent", !.created = TRUE] \in Transactions
         /\ \A list \in Seq(Consents), added \in SUBSET Consents :
              [t EXCEPT !.list = list, !.added = added] \in Transactions
  BY DEF Transactions

LEMMA Used ==
  ASSUME TypeOK, NEW c \in Challenges, challenges[c] # None
  PROVE  /\ MarkUsed(c) \in [Challenges -> ChallengeRows \cup {None}]
         /\ [uses EXCEPT ![c] = @ + 1] \in [Challenges -> Nat]
<1>1. challenges[c] \in ChallengeRows
  BY DEF TypeOK
<1>2. [challenges[c] EXCEPT !.used = TRUE] \in ChallengeRows
  BY <1>1 DEF ChallengeRows
<1>3. MarkUsed(c) \in [Challenges -> ChallengeRows \cup {None}]
  BY <1>2 DEF TypeOK, MarkUsed
<1>4. [uses EXCEPT ![c] = @ + 1] \in [Challenges -> Nat]
  BY DEF TypeOK
<1> QED  BY <1>3, <1>4

RowsHeld == \A h \in Handlers :
  tx[h] # None /\ tx[h].pc \in {"lookup", "register", "consent", "prove"} =>
    LET row == challenges[tx[h].challenge] IN
    /\ row # None /\ row.wallet = tx[h].wallet /\ row.purpose = tx[h].purpose /\ ~row.used
    /\ tx[h].pc # "prove" => tx[h].purpose = "LOGIN"
    /\ \A g \in Handlers : HoldsRow(g, tx[h].challenge) => g = h

Safe == TypeOK /\ Shapes /\ RowsHeld /\ ConsumedOnce

LEMMA SafeInit == Init => Safe
  BY NoneIsNoValue DEF Init, Safe, TypeOK, Shapes, RowsHeld, ConsumedOnce

LEMMA SafeStep == Safe /\ [Next]_vars => Safe'
<1> SUFFICES ASSUME Safe, [Next]_vars  PROVE Safe'
  OBVIOUS
<1>0. None \notin Challenges /\ None \notin Users /\ None \notin ChallengeRows /\ None \notin Transactions
  BY NoneIsNoValue
<1> USE <1>0 DEF Safe
<1>1. CASE UNCHANGED vars
  BY <1>1 DEF vars, tables, TypeOK, Shapes, RowsHeld, ConsumedOnce, HoldsRow
<1>2. ASSUME NEW c \in Challenges, Age(c)  PROVE Safe'
  <2>1. challenges' \in [Challenges -> ChallengeRows \cup {None}]
    BY <1>2 DEF Age, TypeOK, ChallengeRows
  <2>2. \A d \in Challenges : /\ challenges'[d] = None <=> challenges[d] = None
                              /\ challenges[d] # None =>
                                   /\ challenges'[d].wallet = challenges[d].wallet
                                   /\ challenges'[d].purpose = challenges[d].purpose
                                   /\ challenges'[d].used = challenges[d].used
    BY <1>2, <2>1 DEF Age, TypeOK, ChallengeRows
  <2> QED
    BY <1>2, <2>1, <2>2 DEF Age, TypeOK, Shapes, Shape, RowsHeld, ConsumedOnce, HoldsRow
<1>3. ASSUME NEW h \in Handlers, Handle(h)  PROVE Safe'
  <2>1. ASSUME tables' = tables, tx' = [tx EXCEPT ![h] = None]  PROVE Safe'
    BY <2>1 DEF tables, TypeOK, Shapes, RowsHeld, ConsumedOnce, HoldsRow
  <2>2. ASSUME NEW t \in Transactions, Continue(h, t), Shape(t),
               t.pc \in {"issue", "lock"} \/
                 LET row == challenges[t.challenge] IN
                 /\ row # None /\ row.wallet = t.wallet /\ row.purpose = t.purpose /\ ~row.used
                 /\ t.pc # "prove" => t.purpose = "LOGIN"
                 /\ \A g \in Handlers : HoldsRow(g, t.challenge) => g = h
        PROVE  Safe'
    <3>1. TypeOK' /\ Shapes' /\ ConsumedOnce'
      BY <2>2 DEF Continue, tables, TypeOK, Shapes, ConsumedOnce
    <3>2. ASSUME NEW k \in Handlers, tx'[k] # None, tx'[k].pc \in {"lookup", "register", "consent", "prove"}
          PROVE  LET row == challenges'[tx'[k].challenge] IN
                 /\ row # None /\ row.wallet = tx'[k].wallet /\ row.purpose = tx'[k].purpose /\ ~row.used
                 /\ tx'[k].pc # "prove" => tx'[k].purpose = "LOGIN"
                 /\ \A g \in Handlers : HoldsRow(g, tx[k].challenge)' => g = k
      <4>1. CASE k = h
        BY <2>2, <3>2, <4>1 DEF Continue, tables, TypeOK, HoldsRow
      <4>2. CASE k # h
        <5>1. tx'[k] = tx[k] /\ challenges' = challenges /\ tx[k].challenge \in Challenges
          BY <2>2, <3>2, <4>2 DEF Continue, tables, TypeOK, Shapes, Shape
        <5>2. \A g \in Handlers : HoldsRow(g, tx[k].challenge) => g = k
          BY <5>1, <3>2 DEF RowsHeld
        <5>3. HoldsRow(k, tx[k].challenge)
          BY <5>1, <3>2 DEF HoldsRow
        <5>4. ASSUME NEW g \in Handlers, HoldsRow(g, tx[k].challenge)'  PROVE g = k
          <6>1. CASE g # h
            BY <5>1, <5>2, <5>4, <6>1, <2>2 DEF HoldsRow, Continue, TypeOK
          <6>2. CASE g = h
            <7>1. t.challenge = tx[k].challenge /\ t.pc # "lock"
              BY <5>1, <5>4, <6>2, <2>2 DEF HoldsRow, Continue, TypeOK
            <7>2. t.pc # "issue"
              BY <7>1, <5>1, <2>2 DEF Shape
            <7> QED  BY <7>1, <7>2, <5>3, <4>2, <2>2
          <6> QED  BY <6>1, <6>2
        <5> QED  BY <5>1, <5>4, <3>2 DEF RowsHeld
      <4> QED  BY <4>1, <4>2
    <3> QED  BY <3>1, <3>2 DEF RowsHeld
  <2>3. ASSUME NEW w \in Wallets, NEW purpose \in Purposes, CountRecent(h, w, purpose)  PROVE Safe'
    <3> DEFINE t == [pc |-> "issue", purpose |-> purpose, wallet |-> w, challenge |-> None,
                     list |-> <<>>, user |-> None, created |-> FALSE, added |-> {}]
    <3>1. t \in Transactions
      BY DEF Transactions
    <3>2. Shape(t) /\ t.pc = "issue"
      BY DEF Shape
    <3>3. Continue(h, t)
      BY <2>3 DEF CountRecent
    <3> HIDE DEF t
    <3> QED  BY <2>2, <3>1, <3>2, <3>3
  <2>4. ASSUME NEW c \in Challenges, InsertChallenge(h, c)  PROVE Safe'
    <3> DEFINE row == [wallet |-> tx[h].wallet, purpose |-> tx[h].purpose, used |-> FALSE, age |-> "recent"]
    <3>1. tx[h] \in Transactions
      BY <2>4 DEF InsertChallenge, At, TypeOK
    <3>2. row \in ChallengeRows /\ row.used = FALSE
      BY <3>1 DEF ChallengeRows, Transactions
    <3>3. challenges[c] = None /\ challenges' = [challenges EXCEPT ![c] = row]
      BY <2>4 DEF InsertChallenge
    <3> HIDE DEF row
    <3>4. TypeOK' /\ ConsumedOnce'
      BY <2>4, <3>2, <3>3 DEF InsertChallenge, TypeOK, ConsumedOnce
    <3>5. \A k \in Handlers : tx'[k] # None => tx'[k] = tx[k] /\ tx[k] # None
      BY <2>4 DEF InsertChallenge, TypeOK
    <3>6. \A k \in Handlers : tx'[k] # None /\ tx'[k].pc \in {"lookup", "register", "consent", "prove"} =>
            challenges'[tx[k].challenge] = challenges[tx[k].challenge]
      BY <3>3, <3>5 DEF RowsHeld, Shapes, Shape, TypeOK
    <3> QED
      BY <3>4, <3>5, <3>6 DEF Shapes, RowsHeld, HoldsRow
  <2>5. ASSUME NEW c \in Challenges, NEW w \in Wallets, NEW purpose \in Purposes, NEW list \in ConsentLists,
               Begin(h, c, w, purpose, list)
        PROVE  Safe'
    <3> DEFINE t == [pc |-> "lock", purpose |-> purpose, wallet |-> w, challenge |-> c,
                     list |-> list, user |-> None, created |-> FALSE, added |-> {}]
    <3>1. t \in Transactions
      BY ListsOfConsents DEF Transactions
    <3>2. Shape(t) /\ t.pc = "lock"
      BY DEF Shape
    <3>3. Continue(h, t)
      BY <2>5 DEF Begin
    <3> HIDE DEF t
    <3> QED  BY <2>2, <3>1, <3>2, <3>3
  <2>6. CASE LockChallenge(h)
    <3> DEFINE t == [tx[h] EXCEPT !.pc = IF tx[h].purpose = "LOGIN" THEN "lookup" ELSE "prove"]
    <3>1. tx[h] \in Transactions /\ tx[h].pc = "lock" /\ Shape(tx[h])
      BY <2>6 DEF LockChallenge, At, TypeOK, Shapes
    <3>2. CASE ~Valid(tx[h])
      BY <2>6, <3>2, <2>1 DEF LockChallenge, Refuse, Rollback
    <3>3. CASE Valid(tx[h])
      <4>0. t \in Transactions
        BY <3>1, Edited
      <4>1. Continue(h, t)
        BY <2>6, <3>3 DEF LockChallenge
      <4>2. t.challenge = tx[h].challenge /\ t.wallet = tx[h].wallet /\ t.purpose = tx[h].purpose
            /\ t.user = tx[h].user /\ t.created = tx[h].created /\ t.added = tx[h].added
            /\ t.pc \in {"lookup", "prove"} /\ (t.pc # "prove" => t.purpose = "LOGIN")
        BY <3>1 DEF Transactions
      <4>3. \A g \in Handlers : HoldsRow(g, tx[h].challenge) => g = h
        BY <2>6 DEF LockChallenge, Blocked, BlockedOn
      <4> HIDE DEF t
      <4> QED  BY SMTT(60), <2>2, <3>1, <3>3, <4>0, <4>1, <4>2, <4>3 DEF Valid, Shape
    <3> QED  BY <3>2, <3>3
  <2>7. ASSUME tx[h] # None, tx[h].pc \in {"lookup", "register", "consent"},
               NEW t \in Transactions, Continue(h, t), Shape(t), t.pc \in {"register", "consent"},
               t.challenge = tx[h].challenge, t.wallet = tx[h].wallet, t.purpose = tx[h].purpose
        PROVE  Safe'
    BY SMTT(60), <2>2, <2>7 DEF RowsHeld
  <2>8. CASE LookupUser(h)
    <3>1. tx[h] # None /\ tx[h] \in Transactions /\ tx[h].pc = "lookup" /\ Shape(tx[h])
      BY <2>8 DEF LookupUser, At, TypeOK, Shapes
    <3>2. ASSUME NEW u \in Users, NEW pc \in {"register", "consent"}, Continue(h, [tx[h] EXCEPT !.pc = pc, !.user = u])
          PROVE  Safe'
      <4> DEFINE t == [tx[h] EXCEPT !.pc = pc, !.user = u]
      <4>1. t \in Transactions
        BY <3>1, Edited
      <4>2. t.challenge = tx[h].challenge /\ t.wallet = tx[h].wallet /\ t.purpose = tx[h].purpose
            /\ t.user = u /\ t.created = tx[h].created /\ t.added = tx[h].added /\ t.pc = pc
        BY <3>1 DEF Transactions
      <4>3. Shape(t)
        BY <3>1, <4>2 DEF Shape
      <4> HIDE DEF t
      <4>4. Continue(h, t)
        BY <3>2 DEF t
      <4> QED  BY SMTT(60), <2>7, <3>1, <4>1, <4>2, <4>3, <4>4
    <3>3. wallets[tx[h].wallet] \in Users \cup {None}
      BY <3>1 DEF TypeOK, Transactions
    <3>4. CASE Refuse(h)
      BY <3>4, <2>1 DEF Refuse, Rollback
    <3> QED  BY <2>8, <3>2, <3>3, <3>4 DEF LookupUser
  <2>9. CASE RegisterWallet(h)
    <3> DEFINE t == [tx[h] EXCEPT !.pc = "consent", !.created = TRUE]
    <3>1. tx[h] # None /\ tx[h] \in Transactions /\ tx[h].pc = "register" /\ Shape(tx[h])
      BY SMTT(60), <2>9 DEF RegisterWallet, At, TypeOK, Shapes
    <3>2. t \in Transactions
      BY <3>1, Edited
    <3>3. t.challenge = tx[h].challenge /\ t.wallet = tx[h].wallet /\ t.purpose = tx[h].purpose
          /\ t.user = tx[h].user /\ t.created /\ t.added = tx[h].added /\ t.pc = "consent"
      BY <3>1 DEF Transactions
    <3>4. CASE Refuse(h)
      BY <3>4, <2>1 DEF Refuse, Rollback
    <3>5. CASE Continue(h, t)
      <4> HIDE DEF t
      <4>1. Shape(t)
        BY <3>1, <3>3 DEF Shape
      <4> QED  BY <2>7, <3>1, <3>2, <3>3, <3>5, <4>1
    <3> QED  BY <2>9, <3>4, <3>5 DEF RegisterWallet
  <2>10. CASE RecordConsent(h)
    <3> DEFINE added == IF <<tx[h].user, Head(tx[h].list)>> \in consents THEN tx[h].added
                        ELSE tx[h].added \cup {Head(tx[h].list)}
               t == [tx[h] EXCEPT !.list = Tail(tx[h].list), !.added = added]
    <3>1. tx[h] # None /\ tx[h] \in Transactions /\ tx[h].pc = "consent" /\ Shape(tx[h]) /\ tx[h].list # <<>>
      BY <2>10 DEF RecordConsent, At, TypeOK, Shapes
    <3>2. tx[h].list \in Seq(Consents) /\ tx[h].added \in SUBSET Consents
      BY <3>1 DEF Transactions
    <3>3. Tail(tx[h].list) \in Seq(Consents) /\ Head(tx[h].list) \in Consents
      BY <3>1, <3>2, HeadTailProperties
    <3>4. added \in SUBSET Consents
      BY SMTT(60), <3>2, <3>3
    <3> HIDE DEF added
    <3>5. t \in Transactions
      BY <3>1, <3>3, <3>4, Edited
    <3>6. t.challenge = tx[h].challenge /\ t.wallet = tx[h].wallet /\ t.purpose = tx[h].purpose
          /\ t.user = tx[h].user /\ t.created = tx[h].created /\ t.pc = tx[h].pc
      BY <3>1 DEF Transactions
    <3>7. Continue(h, t)
      BY <2>10 DEF RecordConsent, added
    <3> HIDE DEF t
    <3>8. Shape(t)
      BY <3>1, <3>6 DEF Shape
    <3> QED  BY <2>7, <3>1, <3>5, <3>6, <3>7, <3>8
  <2>11. ASSUME tx[h] # None, tx[h].pc \in {"consent", "prove"}, tx' = [tx EXCEPT ![h] = None],
                challenges' = MarkUsed(tx[h].challenge), uses' = [uses EXCEPT ![tx[h].challenge] = @ + 1]
         PROVE  /\ challenges' \in [Challenges -> ChallengeRows \cup {None}]
                /\ uses' \in [Challenges -> Nat] /\ tx' \in [Handlers -> Transactions \cup {None}]
                /\ Shapes' /\ RowsHeld' /\ ConsumedOnce'
    <3>1. tx[h].challenge \in Challenges /\ challenges[tx[h].challenge] # None /\ ~challenges[tx[h].challenge].used
      BY <2>11 DEF Shapes, Shape, RowsHeld
    <3>2. challenges' \in [Challenges -> ChallengeRows \cup {None}] /\ uses' \in [Challenges -> Nat]
      BY <2>11, <3>1, Used
    <3>3. tx' \in [Handlers -> Transactions \cup {None}] /\ Shapes'
      BY <2>11 DEF TypeOK, Shapes
    <3>4. challenges[tx[h].challenge] \in ChallengeRows
      BY <3>1 DEF TypeOK
    <3>5. challenges'[tx[h].challenge].used /\ challenges'[tx[h].challenge] # None
          /\ \A c \in Challenges \ {tx[h].challenge} : challenges'[c] = challenges[c]
      BY <2>11, <3>1, <3>2, <3>4 DEF TypeOK, MarkUsed, ChallengeRows
    <3>6. ConsumedOnce'
      BY <2>11, <3>1, <3>2, <3>5 DEF ConsumedOnce, TypeOK
    <3>7. \A k \in Handlers : tx'[k] # None => k # h /\ tx'[k] = tx[k] /\ tx[k] # None
      BY <2>11 DEF TypeOK
    <3>8. \A k \in Handlers : k # h /\ tx[k] # None /\ tx[k].pc \in {"lookup", "register", "consent", "prove"} =>
            tx[k].challenge # tx[h].challenge /\ tx[k].challenge \in Challenges
      BY <2>11 DEF RowsHeld, HoldsRow, Shapes, Shape
    <3>9. RowsHeld'
      BY <3>5, <3>7, <3>8 DEF RowsHeld, HoldsRow
    <3> QED  BY <3>2, <3>3, <3>6, <3>9
  <2>12. ASSUME NEW s \in Sessions, CommitLogin(h, s)  PROVE Safe'
    <3>1. tx[h] # None /\ tx[h].pc = "consent" /\ tx[h] \in Transactions /\ Shape(tx[h])
      BY <2>12 DEF CommitLogin, At, TypeOK, Shapes
    <3>2. tx[h].user \in Users /\ tx[h].challenge \in Challenges /\ tx[h].wallet \in Wallets
          /\ tx[h].added \subseteq Consents
      BY <3>1 DEF Shape, Transactions
    <3>3. accounts' \in SUBSET Users /\ wallets' \in [Wallets -> Users \cup {None}]
      BY <2>12, <3>2 DEF CommitLogin, TypeOK
    <3>4. consents' \in SUBSET (Users \X Consents)
      BY <2>12, <3>2 DEF CommitLogin, TypeOK
    <3>5. sessions' \in [Sessions -> [user : Users, challenge : Challenges] \cup {None}]
      BY <2>12, <3>2 DEF CommitLogin, TypeOK
    <3> QED  BY <2>11, <2>12, <3>1, <3>3, <3>4, <3>5 DEF CommitLogin, TypeOK
  <2>13. CASE CommitOwnership(h)
    BY <2>11, <2>13 DEF CommitOwnership, At, TypeOK
  <2>14. CASE Fail(h)
    BY <2>1, <2>14 DEF Fail, Rollback
  <2>15. CASE BreakDeadlock(h)
    BY <2>1, <2>15 DEF BreakDeadlock
  <2> QED
    BY <1>3, <2>3, <2>4, <2>5, <2>6, <2>8, <2>9, <2>10, <2>12, <2>13, <2>14, <2>15 DEF Handle, Advance
<1> QED
  BY <1>1, <1>2, <1>3 DEF Next

LEMMA SafeAlways == Spec => []Safe
  BY SafeInit, SafeStep, PTL DEF Spec

(* The tables, the histories and the transactions keep their types.        *)
THEOREM TypeCorrect == Spec => []TypeOK
<1>1. Safe => TypeOK
  BY DEF Safe
<1> QED  BY <1>1, SafeAlways, PTL

(* A challenge is verified at most once, for any number of requests that   *)
(* present it.                                                             *)
THEOREM ChallengeConsumedOnce == Spec => []ConsumedOnce
<1>1. Safe => ConsumedOnce
  BY DEF Safe
<1> QED  BY <1>1, SafeAlways, PTL

-----------------------------------------------------------------------------
(* A transaction that makes an account has its user id, and later the      *)
(* wallet, to itself; any other one that logs in has the wallet's account. *)
Making(t) == t # None /\ (t.pc = "register" \/ t.created)

NewAccounts == \A h \in Handlers :
  /\ Making(tx[h]) => /\ tx[h].user \notin accounts
                      /\ \A g \in Handlers \ {h} : tx[g] # None => tx[g].user # tx[h].user
  /\ tx[h] # None /\ tx[h].created => /\ wallets[tx[h].wallet] = None
                                      /\ \A g \in Handlers : Inserting(g, tx[h].wallet) => g = h
  /\ tx[h] # None /\ tx[h].pc = "consent" /\ ~tx[h].created => wallets[tx[h].wallet] = tx[h].user

Accounted == NewAccounts /\ OneAccountPerWallet /\ SessionOfChallengedWallet

LEMMA AccountedInit == Init => Accounted
  BY DEF Init, Accounted, NewAccounts, Making, OneAccountPerWallet, SessionOfChallengedWallet

(* A challenge that exists keeps its wallet and its purpose.               *)
LEMMA ChallengesKept ==
  ASSUME Safe, [Next]_vars
  PROVE  \A c \in Challenges : challenges[c] # None =>
           challenges'[c] # None /\ challenges'[c].wallet = challenges[c].wallet
           /\ challenges'[c].purpose = challenges[c].purpose
<1>1. None \notin ChallengeRows
  BY NoneIsNoValue
<1> SUFFICES ASSUME NEW c \in Challenges, challenges[c] # None
             PROVE  challenges'[c] # None /\ challenges'[c].wallet = challenges[c].wallet
                    /\ challenges'[c].purpose = challenges[c].purpose
  OBVIOUS
<1>2. challenges[c] \in ChallengeRows
  BY DEF Safe, TypeOK
<1>3. ASSUME NEW h \in Handlers, tx[h] # None, tx[h].pc # "issue", challenges' = MarkUsed(tx[h].challenge)
      PROVE  challenges'[c] # None /\ challenges'[c].wallet = challenges[c].wallet
             /\ challenges'[c].purpose = challenges[c].purpose
  <2>1. challenges'[c] = challenges[c] \/ challenges'[c] = [challenges[c] EXCEPT !.used = TRUE]
    BY <1>3 DEF MarkUsed, Safe, TypeOK
  <2>2. [challenges[c] EXCEPT !.used = TRUE] \in ChallengeRows
        /\ [challenges[c] EXCEPT !.used = TRUE].wallet = challenges[c].wallet
        /\ [challenges[c] EXCEPT !.used = TRUE].purpose = challenges[c].purpose
    BY <1>2 DEF ChallengeRows
  <2> QED  BY <1>1, <2>1, <2>2
<1>4. CASE challenges' = challenges
  BY <1>4
<1>5. ASSUME NEW d \in Challenges, Age(d)
      PROVE  challenges'[c] # None /\ challenges'[c].wallet = challenges[c].wallet
             /\ challenges'[c].purpose = challenges[c].purpose
  BY <1>1, <1>2, <1>5 DEF Age, ChallengeRows, Safe, TypeOK
<1>6. ASSUME NEW h \in Handlers, NEW d \in Challenges, InsertChallenge(h, d)
      PROVE  challenges'[c] = challenges[c]
  BY <1>6 DEF InsertChallenge, Safe, TypeOK
<1>7. ASSUME NEW h \in Handlers, Advance(h)
      PROVE  challenges' = challenges \/ (tx[h] # None /\ tx[h].pc # "issue" /\ challenges' = MarkUsed(tx[h].challenge))
  BY <1>7 DEF Advance, LockChallenge, LookupUser, RegisterWallet, RecordConsent, CommitLogin, CommitOwnership,
              Refuse, Rollback, Continue, tables, At
<1>8. ASSUME NEW h \in Handlers, Handle(h)
      PROVE  challenges'[c] # None /\ challenges'[c].wallet = challenges[c].wallet
             /\ challenges'[c].purpose = challenges[c].purpose
  <2>1. CASE Advance(h)
    BY <2>1, <1>3, <1>4, <1>7
  <2>2. ASSUME NEW d \in Challenges, InsertChallenge(h, d)
        PROVE  challenges'[c] # None /\ challenges'[c].wallet = challenges[c].wallet
               /\ challenges'[c].purpose = challenges[c].purpose
    BY <2>2, <1>6
  <2> QED
    BY <1>8, <1>4, <2>1, <2>2 DEF Handle, CountRecent, Begin, Fail, BreakDeadlock, Rollback, Continue, tables
<1> QED
  BY <1>4, <1>5, <1>8 DEF Next, vars, tables

LEMMA AccountedStep == Safe /\ Safe' /\ Accounted /\ [Next]_vars => Accounted'
<1> SUFFICES ASSUME Safe, Safe', Accounted, [Next]_vars  PROVE Accounted'
  OBVIOUS
<1>0. None \notin Challenges /\ None \notin Users
  BY NoneIsNoValue
<1> USE <1>0
<1>1. ASSUME wallets' = wallets, accounts' = accounts, sessions' = sessions
      PROVE  OneAccountPerWallet' /\ SessionOfChallengedWallet'
  <2>1. OneAccountPerWallet'
    BY <1>1 DEF Accounted, OneAccountPerWallet
  <2>2. ASSUME NEW s \in Sessions, sessions[s] # None
        PROVE  sessions[s].challenge \in Challenges
    BY <2>2 DEF Safe, TypeOK
  <2>3. SessionOfChallengedWallet'
    BY <1>1, <2>2, ChallengesKept DEF Accounted, SessionOfChallengedWallet
  <2> QED  BY <2>1, <2>3
<1>2. ASSUME wallets' = wallets, accounts' = accounts,
             \A g \in Handlers : tx'[g] # None => tx'[g] = tx[g] /\ tx[g] # None
      PROVE  NewAccounts'
  BY <1>2 DEF Accounted, NewAccounts, Making, Inserting
<1>3. CASE UNCHANGED vars
  BY <1>3, <1>1, <1>2 DEF vars, tables, Accounted
<1>4. ASSUME NEW c \in Challenges, Age(c)  PROVE Accounted'
  BY <1>4, <1>1, <1>2 DEF Age, Accounted
<1>5. ASSUME NEW h \in Handlers, Handle(h)  PROVE Accounted'
  <2>1. ASSUME tables' = tables, tx' = [tx EXCEPT ![h] = None]  PROVE Accounted'
    <3>1. \A g \in Handlers : tx'[g] # None => tx'[g] = tx[g] /\ tx[g] # None
      BY <2>1 DEF Safe, TypeOK
    <3> QED  BY <2>1, <3>1, <1>1, <1>2 DEF tables, Accounted
  <2>2. ASSUME NEW t, Continue(h, t), t # None, Shape(t),
               Making(t) => /\ t.user \notin accounts
                            /\ \A g \in Handlers \ {h} : tx[g] # None => tx[g].user # t.user,
               t.created => /\ wallets[t.wallet] = None
                            /\ \A g \in Handlers \ {h} : ~Inserting(g, t.wallet),
               t.pc = "consent" /\ ~t.created => wallets[t.wallet] = t.user,
               \A g \in Handlers \ {h} : Making(tx[g]) => tx[g].user # t.user
        PROVE  Accounted'
    <3>1. wallets' = wallets /\ accounts' = accounts /\ sessions' = sessions
      BY <2>2 DEF Continue, tables
    <3>2. tx'[h] = t /\ \A g \in Handlers \ {h} : tx'[g] = tx[g]
      BY <2>2 DEF Continue, Safe, TypeOK
    <3>3. ASSUME NEW k \in Handlers
          PROVE  /\ Making(tx'[k]) => /\ tx'[k].user \notin accounts'
                                      /\ \A g \in Handlers \ {k} : tx'[g] # None => tx'[g].user # tx'[k].user
                 /\ tx'[k] # None /\ tx'[k].created => /\ wallets'[tx'[k].wallet] = None
                                                       /\ \A g \in Handlers : Inserting(g, tx[k].wallet)' => g = k
                 /\ tx'[k] # None /\ tx'[k].pc = "consent" /\ ~tx'[k].created => wallets'[tx'[k].wallet] = tx'[k].user
      <4>1. CASE k = h
        BY <2>2, <3>1, <3>2, <4>1 DEF Making, Inserting
      <4>2. CASE k # h
        <5>1. tx'[k] = tx[k]
          BY <3>2, <4>2
        <5>2. tx[k] # None /\ tx[k].created => \A g \in Handlers : Inserting(g, tx[k].wallet)' => g = k
          BY <2>2, <3>2, <4>2, <5>1 DEF Accounted, NewAccounts, Inserting
        <5> QED  BY <2>2, <3>1, <3>2, <4>2, <5>1, <5>2 DEF Accounted, NewAccounts, Making
      <4> QED  BY <4>1, <4>2
    <3>4. NewAccounts'
      BY <3>3 DEF NewAccounts
    <3> QED  BY <3>1, <3>4, <1>1 DEF Accounted
  <2>3. \A g \in Handlers : Making(tx[g]) => tx[g].user \in Users /\ tx[g].user \notin accounts
    BY DEF Accounted, NewAccounts, Making, Safe, Shapes, Shape
  <2>4. ASSUME NEW t, Continue(h, t), t # None, Shape(t), t.pc \notin {"register", "consent"}  PROVE Accounted'
    BY <2>2, <2>3, <2>4 DEF Shape, Making
  <2>5. ASSUME NEW w \in Wallets, NEW purpose \in Purposes, CountRecent(h, w, purpose)  PROVE Accounted'
    <3> DEFINE t == [pc |-> "issue", purpose |-> purpose, wallet |-> w, challenge |-> None,
                     list |-> <<>>, user |-> None, created |-> FALSE, added |-> {}]
    <3>1. Shape(t) /\ t.pc = "issue" /\ t \in Transactions
      BY DEF Shape, Transactions
    <3>2. Continue(h, t) /\ t # None
      BY <2>5, <3>1, NoneIsNoValue DEF CountRecent
    <3> HIDE DEF t
    <3> QED  BY <2>4, <3>1, <3>2
  <2>6. ASSUME NEW c \in Challenges, InsertChallenge(h, c)  PROVE Accounted'
    <3>1. \A g \in Handlers : tx'[g] # None => tx'[g] = tx[g] /\ tx[g] # None
      BY <2>6 DEF InsertChallenge, Safe, TypeOK
    <3> QED  BY <2>6, <3>1, <1>1, <1>2 DEF InsertChallenge, Accounted
  <2>7. ASSUME NEW c \in Challenges, NEW w \in Wallets, NEW purpose \in Purposes, NEW list \in ConsentLists,
               Begin(h, c, w, purpose, list)
        PROVE  Accounted'
    <3> DEFINE t == [pc |-> "lock", purpose |-> purpose, wallet |-> w, challenge |-> c,
                     list |-> list, user |-> None, created |-> FALSE, added |-> {}]
    <3>1. Shape(t) /\ t.pc = "lock" /\ t \in Transactions
      BY ListsOfConsents DEF Shape, Transactions
    <3>2. Continue(h, t) /\ t # None
      BY <2>7, <3>1, NoneIsNoValue DEF Begin
    <3> HIDE DEF t
    <3> QED  BY <2>4, <3>1, <3>2
  <2>8. tx[h] # None => tx[h] \in Transactions /\ Shape(tx[h]) /\ tx[h].wallet \in Wallets
    BY DEF Safe, TypeOK, Shapes, Transactions
  <2>9. tx'[h] # None => tx'[h] \in Transactions /\ Shape(tx'[h])
    BY DEF Safe, TypeOK, Shapes
  <2>10. \A t : Continue(h, t) => tx'[h] = t
    BY DEF Continue, Safe, TypeOK
  <2>11. CASE LockChallenge(h)
    <3> DEFINE t == [tx[h] EXCEPT !.pc = IF tx[h].purpose = "LOGIN" THEN "lookup" ELSE "prove"]
    <3>1. t \in Transactions /\ t.pc \in {"lookup", "prove"}
      BY ZenonT(60), <2>8, <2>11, Edited DEF LockChallenge, At, Transactions
    <3>2. CASE Continue(h, t)
      <4>1. t # None
        BY <3>1, NoneIsNoValue
      <4> HIDE DEF t
      <4> QED  BY <2>4, <2>9, <2>10, <3>1, <3>2, <4>1
    <3>3. CASE Refuse(h)
      BY <3>3, <2>1 DEF Refuse, Rollback
    <3> QED  BY <2>11, <3>2, <3>3 DEF LockChallenge
  <2>12. CASE LookupUser(h)
    <3>1. tx[h] # None /\ tx[h] \in Transactions /\ tx[h].pc = "lookup" /\ Shape(tx[h]) /\ tx[h].wallet \in Wallets
      BY <2>12, <2>8 DEF LookupUser, At
    <3>2. CASE wallets[tx[h].wallet] # None /\ Continue(h, [tx[h] EXCEPT !.pc = "consent", !.user = wallets[tx[h].wallet]])
      <4> DEFINE t == [tx[h] EXCEPT !.pc = "consent", !.user = wallets[tx[h].wallet]]
      <4>1. wallets[tx[h].wallet] \in Users /\ wallets[tx[h].wallet] \in accounts
        BY <3>1, <3>2 DEF Safe, TypeOK, Accounted, OneAccountPerWallet
      <4>2. t \in Transactions
        BY <3>1, <4>1, Edited
      <4>3. t.pc = "consent" /\ t.user = wallets[tx[h].wallet] /\ t.created = FALSE /\ t.wallet = tx[h].wallet
        BY <3>1 DEF Transactions, Shape
      <4>4. Continue(h, t)
        BY <3>2
      <4>5. t # None
        BY <4>2, NoneIsNoValue
      <4> HIDE DEF t
      <4>6. Shape(t)
        BY <2>9, <2>10, <4>4, <4>5
      <4> QED  BY <2>2, <2>3, <4>1, <4>3, <4>4, <4>5, <4>6 DEF Making
    <3>3. ASSUME NEW u \in Users, u \notin accounts, \A g \in Handlers : tx[g] # None => tx[g].user # u,
                 Continue(h, [tx[h] EXCEPT !.pc = "register", !.user = u])
          PROVE  Accounted'
      <4> DEFINE t == [tx[h] EXCEPT !.pc = "register", !.user = u]
      <4>1. t \in Transactions
        BY <3>1, Edited
      <4>2. t.pc = "register" /\ t.user = u /\ t.created = FALSE
        BY <3>1 DEF Transactions, Shape
      <4>3. Continue(h, t)
        BY <3>3
      <4>4. t # None
        BY <4>1, NoneIsNoValue
      <4> HIDE DEF t
      <4>5. Shape(t)
        BY <2>9, <2>10, <4>3, <4>4
      <4> QED  BY <2>2, <3>3, <4>2, <4>3, <4>4, <4>5 DEF Making
    <3>4. CASE Refuse(h)
      BY <3>4, <2>1 DEF Refuse, Rollback
    <3> QED  BY <2>12, <3>2, <3>3, <3>4 DEF LookupUser
  <2>13. CASE RegisterWallet(h)
    <3> DEFINE t == [tx[h] EXCEPT !.pc = "consent", !.created = TRUE]
    <3>1. tx[h] # None /\ tx[h] \in Transactions /\ tx[h].pc = "register" /\ Shape(tx[h])
      BY <2>13, <2>8 DEF RegisterWallet, At
    <3>2. CASE Refuse(h)
      BY <3>2, <2>1 DEF Refuse, Rollback
    <3>3. CASE wallets[tx[h].wallet] = None /\ Continue(h, t)
      <4>1. t \in Transactions
        BY <3>1, Edited
      <4>2. t.pc = "consent" /\ t.user = tx[h].user /\ t.created /\ t.wallet = tx[h].wallet
        BY <3>1 DEF Transactions
      <4>3. t # None
        BY <4>1, NoneIsNoValue
      <4>4. \A g \in Handlers \ {h} : ~Inserting(g, tx[h].wallet)
        BY <2>13, <3>1 DEF RegisterWallet, Blocked, BlockedOn, At
      <4>5. /\ tx[h].user \notin accounts
            /\ \A g \in Handlers \ {h} : tx[g] # None => tx[g].user # tx[h].user
        BY <3>1 DEF Accounted, NewAccounts, Making
      <4>6. \A g \in Handlers \ {h} : Making(tx[g]) => tx[g].user # tx[h].user
        BY <4>5 DEF Making
      <4> HIDE DEF t
      <4>7. Shape(t)
        BY <2>9, <2>10, <3>3, <4>3
      <4> QED  BY SMTT(60), <2>2, <3>3, <4>2, <4>3, <4>4, <4>5, <4>6, <4>7
    <3> QED  BY <2>13, <3>2, <3>3 DEF RegisterWallet, Registered
  <2>14. CASE RecordConsent(h)
    <3> DEFINE added == IF <<tx[h].user, Head(tx[h].list)>> \in consents THEN tx[h].added
                        ELSE tx[h].added \cup {Head(tx[h].list)}
               t == [tx[h] EXCEPT !.list = Tail(tx[h].list), !.added = added]
    <3>1. tx[h] # None /\ tx[h] \in Transactions /\ tx[h].pc = "consent" /\ Shape(tx[h])
      BY <2>14, <2>8 DEF RecordConsent, At
    <3>2. Continue(h, t)
      BY <2>14 DEF RecordConsent
    <3>3. t.pc = "consent" /\ t.user = tx[h].user /\ t.created = tx[h].created /\ t.wallet = tx[h].wallet
      BY <3>1 DEF Transactions
    <3>4. tx'[h] = t /\ t # None
      <4>1. tx[h].list \in Seq(Consents) /\ tx[h].list # <<>> /\ tx[h].added \in SUBSET Consents
        BY <2>14, <3>1 DEF RecordConsent, Transactions
      <4>2. Tail(tx[h].list) \in Seq(Consents) /\ Head(tx[h].list) \in Consents
        BY <4>1, HeadTailProperties
      <4>3. added \in SUBSET Consents
        BY SMTT(60), <4>1, <4>2
      <4> HIDE DEF added
      <4>4. t \in Transactions
        BY <3>1, <4>2, <4>3, Edited
      <4> HIDE DEF t
      <4> QED  BY <2>10, <3>2, <4>4, NoneIsNoValue
    <3>5. /\ Making(tx[h]) => /\ tx[h].user \notin accounts
                              /\ \A g \in Handlers \ {h} : tx[g] # None => tx[g].user # tx[h].user
          /\ tx[h].created => /\ wallets[tx[h].wallet] = None
                              /\ \A g \in Handlers \ {h} : ~Inserting(g, tx[h].wallet)
          /\ ~tx[h].created => wallets[tx[h].wallet] = tx[h].user
      BY <3>1 DEF Accounted, NewAccounts
    <3>6. \A g \in Handlers \ {h} : Making(tx[g]) => tx[g].user # tx[h].user
      BY <3>1 DEF Accounted, NewAccounts, Making
    <3> HIDE DEF t
    <3>7. Shape(t)
      BY <2>9, <3>4
    <3>8. Making(t) => Making(tx[h])
      BY <3>1, <3>3 DEF Making
    <3> QED  BY <2>2, <3>2, <3>3, <3>4, <3>5, <3>6, <3>7, <3>8
  <2>15. ASSUME NEW s \in Sessions, CommitLogin(h, s)  PROVE Accounted'
    <3>1. tx[h] # None /\ tx[h].pc = "consent" /\ tx[h] \in Transactions /\ Shape(tx[h]) /\ tx[h].wallet \in Wallets
      BY <2>15, <2>8 DEF CommitLogin, At
    <3>2. tx[h].user \in Users /\ tx[h].challenge \in Challenges
      BY <3>1 DEF Shape
    <3>3. \A g \in Handlers : tx'[g] # None => g # h /\ tx'[g] = tx[g] /\ tx[g] # None
      BY <2>15 DEF CommitLogin, Safe, TypeOK
    <3>4. tx[h].created =>
            /\ wallets[tx[h].wallet] = None /\ tx[h].user \notin accounts
            /\ wallets' = [wallets EXCEPT ![tx[h].wallet] = tx[h].user] /\ accounts' = accounts \cup {tx[h].user}
      BY <2>15, <3>1 DEF CommitLogin, Accounted, NewAccounts, Making
    <3>5. ~tx[h].created => wallets' = wallets /\ accounts' = accounts /\ wallets[tx[h].wallet] = tx[h].user
      BY <2>15, <3>1 DEF CommitLogin, Accounted, NewAccounts
    <3>6. /\ wallets'[tx[h].wallet] = tx[h].user
          /\ \A w \in Wallets : wallets[w] # None => wallets'[w] = wallets[w]
          /\ \A w \in Wallets \ {tx[h].wallet} : wallets'[w] = wallets[w]
      BY <3>1, <3>4, <3>5 DEF Safe, TypeOK
    <3>7. NewAccounts'
      <4>1. ASSUME NEW k \in Handlers, k # h, tx[k] # None
            PROVE  /\ Making(tx[k]) => tx[k].user \notin accounts'
                   /\ tx[k].created => wallets'[tx[k].wallet] = None
                   /\ tx[k].pc = "consent" /\ ~tx[k].created => wallets'[tx[k].wallet] = tx[k].user
        <5>1. Making(tx[k]) => tx[k].user # tx[h].user /\ tx[k].user \notin accounts
          BY <4>1, <3>1 DEF Accounted, NewAccounts
        <5>2. tx[k].wallet \in Wallets /\ (tx[k].pc = "consent" => tx[k].user \in Users)
          BY <4>1 DEF Safe, TypeOK, Transactions, Shapes, Shape
        <5>3. tx[k].created /\ tx[h].created => tx[k].wallet # tx[h].wallet
          BY <4>1, <3>1 DEF Accounted, NewAccounts, Inserting
        <5>4. tx[k].created => wallets[tx[k].wallet] = None
          BY <4>1 DEF Accounted, NewAccounts
        <5>5. tx[k].pc = "consent" /\ ~tx[k].created => wallets[tx[k].wallet] = tx[k].user
          BY <4>1 DEF Accounted, NewAccounts
        <5>6. Making(tx[k]) => tx[k].user \notin accounts'
          BY <3>4, <3>5, <5>1
        <5>7. tx[k].created => wallets'[tx[k].wallet] = None
          <6>1. CASE tx[h].created
            <7>1. tx[k].created => wallets'[tx[k].wallet] = wallets[tx[k].wallet]
              BY <6>1, <3>6, <5>2, <5>3
            <7> QED  BY <7>1, <5>4
          <6>2. CASE ~tx[h].created
            BY <6>2, <3>5, <5>4
          <6> QED  BY <6>1, <6>2
        <5>8. tx[k].pc = "consent" /\ ~tx[k].created => wallets'[tx[k].wallet] = tx[k].user
          BY <3>6, <5>2, <5>5
        <5> QED  BY <5>6, <5>7, <5>8
      <4>2. \A k \in Handlers : tx[k] # None /\ Making(tx[k]) =>
              \A g \in Handlers \ {k} : tx[g] # None => tx[g].user # tx[k].user
        BY DEF Accounted, NewAccounts
      <4>3. \A k \in Handlers : tx[k] # None /\ tx[k].created =>
              \A g \in Handlers : Inserting(g, tx[k].wallet) => g = k
        BY DEF Accounted, NewAccounts
      <4>4. \A k, g \in Handlers : tx'[k] # None /\ Inserting(g, tx[k].wallet)' => Inserting(g, tx[k].wallet)
        BY <3>3 DEF Inserting
      <4> QED  BY <3>3, <4>1, <4>2, <4>3, <4>4 DEF NewAccounts, Making
    <3>8. OneAccountPerWallet'
      <4>1. ASSUME NEW u \in accounts'  PROVE \E w \in Wallets : wallets'[w] = u
        <5>1. CASE u \in accounts
          <6>1. PICK w \in Wallets : wallets[w] = u
            BY <5>1 DEF Accounted, OneAccountPerWallet
          <6>2. u # None
            BY <5>1 DEF Safe, TypeOK
          <6> QED  BY <6>1, <6>2, <3>6
        <5>2. CASE u = tx[h].user
          BY <5>2, <3>1, <3>6
        <5> QED  BY <5>1, <5>2, <3>4, <3>5
      <4>2. ASSUME NEW w \in Wallets, wallets'[w] # None
            PROVE  wallets'[w] \in accounts' /\ \A x \in Wallets : wallets'[x] = wallets'[w] => x = w
        <5>1. CASE ~tx[h].created
          BY <5>1, <4>2, <3>5 DEF Accounted, OneAccountPerWallet
        <5>2. CASE tx[h].created
          <6>1. \A x \in Wallets : wallets[x] # None => wallets[x] # tx[h].user
            BY <5>2, <3>4 DEF Accounted, OneAccountPerWallet
          <6>2. CASE w = tx[h].wallet
            <7>1. wallets'[w] = tx[h].user /\ tx[h].user \in accounts'
              BY <5>2, <6>2, <3>4, <3>6
            <7>2. ASSUME NEW x \in Wallets, x # w, wallets'[x] = tx[h].user  PROVE FALSE
              <8>1. wallets[x] = tx[h].user
                BY <7>2, <6>2, <3>6
              <8> QED  BY <8>1, <6>1, <3>2
            <7> QED  BY <7>1, <7>2
          <6>3. CASE w # tx[h].wallet
            <7>1. wallets'[w] = wallets[w] /\ wallets[w] \in accounts
              BY <6>3, <4>2, <3>6 DEF Accounted, OneAccountPerWallet
            <7>2. ASSUME NEW x \in Wallets, wallets'[x] = wallets'[w]  PROVE x = w
              <8>1. x # tx[h].wallet
                <9>1. wallets[w] # tx[h].user
                  BY <7>1, <6>1, <4>2
                <9> QED  BY <9>1, <7>1, <7>2, <3>6
              <8> QED  BY <7>1, <7>2, <8>1, <4>2, <3>6 DEF Accounted, OneAccountPerWallet
            <7> QED  BY <5>2, <7>1, <7>2, <3>4
          <6> QED  BY <6>2, <6>3
        <5> QED  BY <5>1, <5>2
      <4> QED  BY <4>1, <4>2 DEF OneAccountPerWallet
    <3>9. SessionOfChallengedWallet'
      <4>1. ASSUME NEW r \in Sessions, r # s, sessions[r] # None
            PROVE  LET c == challenges'[sessions[r].challenge] IN
                   c # None /\ c.purpose = "LOGIN" /\ wallets'[c.wallet] = sessions[r].user
        <5> DEFINE c == challenges[sessions[r].challenge]
        <5>1. sessions[r].challenge \in Challenges /\ sessions[r].user \in Users
          BY <4>1 DEF Safe, TypeOK
        <5>2. c # None /\ c.purpose = "LOGIN" /\ wallets[c.wallet] = sessions[r].user
          BY <4>1 DEF Accounted, SessionOfChallengedWallet
        <5>3. c.wallet \in Wallets
          BY <5>1, <5>2 DEF Safe, TypeOK, ChallengeRows
        <5>4. wallets'[c.wallet] = sessions[r].user
          BY <5>1, <5>2, <5>3, <3>6
        <5>5. challenges'[sessions[r].challenge] # None
              /\ challenges'[sessions[r].challenge].wallet = c.wallet
              /\ challenges'[sessions[r].challenge].purpose = c.purpose
          BY <5>1, <5>2, ChallengesKept
        <5> HIDE DEF c
        <5> QED  BY <5>2, <5>4, <5>5
      <4>2. challenges[tx[h].challenge] # None /\ challenges[tx[h].challenge].purpose = "LOGIN"
            /\ challenges[tx[h].challenge].wallet = tx[h].wallet
        BY <3>1 DEF Safe, RowsHeld
      <4>3. challenges'[tx[h].challenge] # None /\ challenges'[tx[h].challenge].purpose = "LOGIN"
            /\ challenges'[tx[h].challenge].wallet = tx[h].wallet
        BY <4>2, <3>2, ChallengesKept
      <4>4. sessions'[s] = [user |-> tx[h].user, challenge |-> tx[h].challenge]
            /\ \A r \in Sessions \ {s} : sessions'[r] = sessions[r]
        BY <2>15 DEF CommitLogin, Safe, TypeOK
      <4>5. sessions'[s].user = tx[h].user /\ sessions'[s].challenge = tx[h].challenge
        BY <4>4
      <4> QED  BY <4>1, <4>3, <4>4, <4>5, <3>6 DEF SessionOfChallengedWallet
    <3> QED  BY <3>7, <3>8, <3>9 DEF Accounted
  <2>16. CASE CommitOwnership(h)
    <3>1. \A g \in Handlers : tx'[g] # None => tx'[g] = tx[g] /\ tx[g] # None
      BY <2>16 DEF CommitOwnership, Safe, TypeOK
    <3> QED  BY <2>16, <3>1, <1>1, <1>2 DEF CommitOwnership, Accounted
  <2>17. CASE Fail(h) \/ BreakDeadlock(h)
    BY <2>1, <2>17 DEF Fail, Rollback, BreakDeadlock
  <2> QED
    BY <1>5, <2>5, <2>6, <2>7, <2>11, <2>12, <2>13, <2>14, <2>15, <2>16, <2>17 DEF Handle, Advance
<1> QED
  BY <1>3, <1>4, <1>5 DEF Next

LEMMA AccountedAlways == Spec => []Accounted
  BY SafeAlways, AccountedInit, AccountedStep, PTL DEF Spec

(* Racing first logins make one account per wallet, for any number of them.*)
THEOREM AccountUnique == Spec => []OneAccountPerWallet
<1>1. Accounted => OneAccountPerWallet
  BY DEF Accounted
<1> QED  BY <1>1, AccountedAlways, PTL

(* Every session belongs to the account of the wallet that was challenged. *)
THEOREM SessionForWallet == Spec => []SessionOfChallengedWallet
<1>1. Accounted => SessionOfChallengedWallet
  BY DEF Accounted
<1> QED  BY <1>1, AccountedAlways, PTL

-----------------------------------------------------------------------------
(* The consents that a transaction has recorded or still has to record.    *)
Listed(list) == {list[i] : i \in 1 .. Len(list)}

Covers(S) == \A k \in ConsentTypes : \E e \in S : e[1] = k

Consenting == \A h \in Handlers : tx[h] # None =>
  /\ tx[h].pc = "register" => Covers(Listed(tx[h].list))
  /\ tx[h].created => Covers(tx[h].added \cup Listed(tx[h].list))

Recorded ==
  /\ Consenting
  /\ \A e \in consents : e[1] \in accounts
  /\ ConsentsRecorded

LEMMA ListedTail ==
  ASSUME NEW list \in Seq(Consents), list # <<>>
  PROVE  Listed(list) \subseteq {Head(list)} \cup Listed(Tail(list))
<1>1. SUFFICES ASSUME NEW i \in 1 .. Len(list), i # 1  PROVE list[i] \in Listed(Tail(list))
  BY HeadTailProperties DEF Listed
<1>2. i - 1 \in 1 .. Len(Tail(list)) /\ Tail(list)[i - 1] = list[i]
  BY <1>1, HeadTailProperties
<1> QED  BY <1>2 DEF Listed

LEMMA RecordedInit == Init => Recorded
  BY DEF Init, Recorded, Consenting, ConsentsRecorded

LEMMA RecordedStep == Safe /\ Safe' /\ Accounted /\ Recorded /\ [Next]_vars => Recorded'
<1> SUFFICES ASSUME Safe, Safe', Accounted, Recorded, [Next]_vars  PROVE Recorded'
  OBVIOUS
<1>1. ASSUME accounts' = accounts, consents' = consents,
             \A g \in Handlers : tx'[g] # None => tx'[g] = tx[g] /\ tx[g] # None
      PROVE  Recorded'
  BY <1>1 DEF Recorded, Consenting, ConsentsRecorded
<1>2. CASE UNCHANGED vars
  BY <1>1, <1>2 DEF vars, tables
<1>3. ASSUME NEW c \in Challenges, Age(c)  PROVE Recorded'
  BY <1>1, <1>3 DEF Age
<1>4. ASSUME NEW h \in Handlers, Handle(h)  PROVE Recorded'
  <2>1. ASSUME tables' = tables, tx' = [tx EXCEPT ![h] = None]  PROVE Recorded'
    <3>1. \A g \in Handlers : tx'[g] # None => tx'[g] = tx[g] /\ tx[g] # None
      BY <2>1 DEF Safe, TypeOK
    <3> QED  BY <2>1, <3>1, <1>1 DEF tables
  <2>2. ASSUME NEW t, Continue(h, t),
               t.pc = "register" => Covers(Listed(t.list)),
               t.created => Covers(t.added \cup Listed(t.list))
        PROVE  Recorded'
    <3>1. accounts' = accounts /\ consents' = consents
      BY <2>2 DEF Continue, tables
    <3>2. tx'[h] = t /\ \A g \in Handlers \ {h} : tx'[g] = tx[g]
      BY <2>2 DEF Continue, Safe, TypeOK
    <3>3. Consenting'
      BY <2>2, <3>2 DEF Recorded, Consenting
    <3> QED  BY <3>1, <3>3 DEF Recorded, ConsentsRecorded
  <2>3. tx[h] # None => tx[h] \in Transactions /\ Shape(tx[h])
    BY DEF Safe, TypeOK, Shapes
  <2>4. ASSUME NEW w \in Wallets, NEW purpose \in Purposes, CountRecent(h, w, purpose)  PROVE Recorded'
    BY <2>4, <2>2 DEF CountRecent
  <2>5. ASSUME NEW c \in Challenges, InsertChallenge(h, c)  PROVE Recorded'
    <3>1. \A g \in Handlers : tx'[g] # None => tx'[g] = tx[g] /\ tx[g] # None
      BY <2>5 DEF InsertChallenge, Safe, TypeOK
    <3> QED  BY <2>5, <3>1, <1>1 DEF InsertChallenge
  <2>6. ASSUME NEW c \in Challenges, NEW w \in Wallets, NEW purpose \in Purposes, NEW list \in ConsentLists,
               Begin(h, c, w, purpose, list)
        PROVE  Recorded'
    BY <2>6, <2>2 DEF Begin
  <2>7. CASE LockChallenge(h)
    <3> DEFINE t == [tx[h] EXCEPT !.pc = IF tx[h].purpose = "LOGIN" THEN "lookup" ELSE "prove"]
    <3>1. t.pc # "register" /\ t.created = FALSE
      BY <2>3, <2>7 DEF LockChallenge, At, Transactions, Shape
    <3>2. CASE Continue(h, t)
      <4> HIDE DEF t
      <4> QED  BY <2>2, <3>1, <3>2
    <3> QED  BY <2>1, <2>7, <3>2 DEF LockChallenge, Refuse, Rollback
  <2>8. CASE LookupUser(h)
    <3>1. tx[h] # None /\ tx[h] \in Transactions /\ tx[h].created = FALSE
      BY <2>3, <2>8 DEF LookupUser, At, Shape, Transactions
    <3>2. ASSUME NEW u, Continue(h, [tx[h] EXCEPT !.pc = "consent", !.user = u])  PROVE Recorded'
      <4> DEFINE t == [tx[h] EXCEPT !.pc = "consent", !.user = u]
      <4>1. t.pc = "consent" /\ t.created = FALSE
        BY <3>1 DEF Transactions
      <4>2. Continue(h, t)
        BY <3>2
      <4> HIDE DEF t
      <4> QED  BY <2>2, <4>1, <4>2
    <3>3. ASSUME NEW u, RequiredConsents(tx[h].list), Continue(h, [tx[h] EXCEPT !.pc = "register", !.user = u])
          PROVE  Recorded'
      <4> DEFINE t == [tx[h] EXCEPT !.pc = "register", !.user = u]
      <4>1. t.created = FALSE /\ t.list = tx[h].list
        BY <3>1 DEF Transactions
      <4>2. Covers(Listed(tx[h].list))
        BY <3>3 DEF RequiredConsents, Covers, Listed
      <4>3. Continue(h, t)
        BY <3>3
      <4> HIDE DEF t
      <4> QED  BY <2>2, <4>1, <4>2, <4>3
    <3> QED  BY <2>1, <2>8, <3>2, <3>3 DEF LookupUser, Refuse, Rollback
  <2>9. CASE RegisterWallet(h)
    <3> DEFINE t == [tx[h] EXCEPT !.pc = "consent", !.created = TRUE]
    <3>1. tx[h] # None /\ tx[h] \in Transactions /\ tx[h].pc = "register" /\ tx[h].added = {}
      BY <2>3, <2>9 DEF RegisterWallet, At, Shape
    <3>2. t.pc = "consent" /\ t.list = tx[h].list
      BY <3>1 DEF Transactions
    <3>3. Covers(t.added \cup Listed(tx[h].list))
      BY <3>1 DEF Recorded, Consenting, Covers
    <3>4. CASE Continue(h, t)
      <4> HIDE DEF t
      <4> QED  BY <2>2, <3>2, <3>3, <3>4
    <3> QED  BY <2>1, <2>9, <3>4 DEF RegisterWallet, Refuse, Rollback
  <2>10. CASE RecordConsent(h)
    <3> DEFINE head == Head(tx[h].list)
               added == IF <<tx[h].user, head>> \in consents THEN tx[h].added ELSE tx[h].added \cup {head}
               t == [tx[h] EXCEPT !.list = Tail(tx[h].list), !.added = added]
    <3>1. tx[h] # None /\ tx[h] \in Transactions /\ tx[h].pc = "consent" /\ tx[h].list # <<>>
      BY <2>3, <2>10 DEF RecordConsent, At
    <3>2. Continue(h, t)
      BY <2>10 DEF RecordConsent
    <3>3. t.pc = "consent" /\ t.list = Tail(tx[h].list) /\ t.added = added /\ t.created = tx[h].created
      BY <3>1 DEF Transactions
    <3>4. ASSUME tx[h].created  PROVE Covers(added \cup Listed(Tail(tx[h].list)))
      <4>1. tx[h].user \notin accounts
        BY <3>1, <3>4 DEF Accounted, NewAccounts, Making
      <4>2. <<tx[h].user, head>> \notin consents
        BY <4>1 DEF Recorded
      <4>3. Listed(tx[h].list) \subseteq {head} \cup Listed(Tail(tx[h].list))
        BY <3>1, ListedTail DEF Transactions
      <4>4. Covers(tx[h].added \cup Listed(tx[h].list))
        BY <3>1, <3>4 DEF Recorded, Consenting
      <4> QED  BY <4>2, <4>3, <4>4 DEF Covers
    <3> HIDE DEF t, added
    <3> QED  BY <2>2, <3>2, <3>3, <3>4
  <2>11. ASSUME NEW s \in Sessions, CommitLogin(h, s)  PROVE Recorded'
    <3>1. tx[h] # None /\ tx[h].pc = "consent" /\ tx[h] \in Transactions /\ Shape(tx[h]) /\ tx[h].list = <<>>
      BY <2>3, <2>11 DEF CommitLogin, At
    <3>2. Consenting'
      <4>1. \A g \in Handlers : tx'[g] # None => tx'[g] = tx[g] /\ tx[g] # None
        BY <2>11 DEF CommitLogin, Safe, TypeOK
      <4> QED  BY <4>1 DEF Recorded, Consenting
    <3>3. consents' = consents \cup {<<tx[h].user, k>> : k \in tx[h].added}
          /\ accounts' = IF tx[h].created THEN accounts \cup {tx[h].user} ELSE accounts
      BY <2>11 DEF CommitLogin
    <3>4. tx[h].user \in accounts'
      <4>1. tx[h].wallet \in Wallets /\ tx[h].user \in Users /\ None \notin Users
        BY <3>1, NoneIsNoValue DEF Transactions, Shape
      <4>2. ~tx[h].created => wallets[tx[h].wallet] = tx[h].user
        BY <3>1 DEF Accounted, NewAccounts
      <4> QED  BY <3>3, <4>1, <4>2 DEF Accounted, OneAccountPerWallet
    <3>5. \A e \in consents' : e[1] \in accounts'
      BY <3>3, <3>4 DEF Recorded
    <3>6. ASSUME NEW u \in accounts', NEW k \in ConsentTypes
          PROVE  \E v \in Versions : <<u, <<k, v>>>> \in consents'
      <4>1. CASE u \in accounts
        BY <4>1, <3>3 DEF Recorded, ConsentsRecorded
      <4>2. CASE u = tx[h].user /\ tx[h].created
        <5>1. Listed(tx[h].list) = {}
          BY <3>1 DEF Listed
        <5>2. PICK e \in tx[h].added : e[1] = k
          BY <3>1, <4>2, <5>1 DEF Recorded, Consenting, Covers
        <5>3. e \in ConsentTypes \X Versions
          BY <3>1, <5>2 DEF Transactions, Consents
        <5>4. e = <<k, e[2]>> /\ e[2] \in Versions
          BY <5>2, <5>3
        <5>5. <<u, e>> \in consents'
          BY <3>3, <4>2, <5>2
        <5> QED  BY <5>4, <5>5
      <4> QED  BY <3>3, <4>1, <4>2
    <3> QED  BY <3>2, <3>5, <3>6 DEF Recorded, ConsentsRecorded
  <2>12. CASE CommitOwnership(h)
    <3>1. \A g \in Handlers : tx'[g] # None => tx'[g] = tx[g] /\ tx[g] # None
      BY <2>12 DEF CommitOwnership, Safe, TypeOK
    <3> QED  BY <2>12, <3>1, <1>1 DEF CommitOwnership
  <2>13. CASE Fail(h) \/ BreakDeadlock(h)
    BY <2>1, <2>13 DEF Fail, Rollback, BreakDeadlock
  <2> QED
    BY <1>4, <2>4, <2>5, <2>6, <2>7, <2>8, <2>9, <2>10, <2>11, <2>12, <2>13 DEF Handle, Advance
<1> QED
  BY <1>2, <1>3, <1>4 DEF Next

(* No account is ever there without the consents it must have.             *)
THEOREM AccountsConsented == Spec => []ConsentsRecorded
<1>1. Recorded => ConsentsRecorded
  BY DEF Recorded
<1> QED  BY <1>1, SafeAlways, AccountedAlways, RecordedInit, RecordedStep, PTL DEF Spec

-----------------------------------------------------------------------------
Issuing(w) == {h \in Handlers : At(h, "issue") /\ tx[h].wallet = w}

WithinRate(w) ==
  Cardinality(Recent(w)) + Cardinality(Issuing(w)) <= RateLimit - 1 + Cardinality(Handlers)

LEMMA SubsetSmaller ==
  ASSUME NEW S, IsFiniteSet(S), NEW T \in SUBSET S
  PROVE  IsFiniteSet(T) /\ Cardinality(T) <= Cardinality(S) /\ Cardinality(T) \in Nat /\ Cardinality(S) \in Nat
  BY FS_Subset, FS_CardinalityType

(* What does not add a recent challenge or an issuing request keeps a bound.*)
LEMMA RateStep == Safe /\ Safe' /\ RateBounded /\ [Next]_vars => RateBounded'
<1> SUFFICES ASSUME Safe, Safe', RateBounded, [Next]_vars, NEW w \in Wallets
             PROVE  WithinRate(w)'
  BY DEF RateBounded, WithinRate, Issuing
<1>0. IsFiniteSet(Challenges) /\ IsFiniteSet(Handlers) /\ RateLimit \in Nat /\ None \notin ChallengeRows
      /\ None \notin Transactions
  BY FiniteSystem, RateLimitPositive, NoneIsNoValue
<1>1. /\ Recent(w) \in SUBSET Challenges /\ Recent(w)' \in SUBSET Challenges
      /\ Issuing(w) \in SUBSET Handlers /\ Issuing(w)' \in SUBSET Handlers
  BY DEF Recent, Issuing
<1>2. /\ IsFiniteSet(Recent(w)) /\ Cardinality(Recent(w)) \in Nat /\ Cardinality(Recent(w)') \in Nat
      /\ IsFiniteSet(Issuing(w)) /\ Cardinality(Issuing(w)) \in Nat /\ Cardinality(Issuing(w)') \in Nat
      /\ Cardinality(Handlers) \in Nat /\ Cardinality(Issuing(w)') <= Cardinality(Handlers)
  BY <1>0, <1>1, SubsetSmaller
<1>3. WithinRate(w)
  BY DEF RateBounded, WithinRate, Issuing
<1>4. ASSUME Recent(w)' \subseteq Recent(w), Issuing(w)' \subseteq Issuing(w)
      PROVE  WithinRate(w)'
  <2>1. Cardinality(Recent(w)') <= Cardinality(Recent(w)) /\ Cardinality(Issuing(w)') <= Cardinality(Issuing(w))
    BY <1>2, <1>4, SubsetSmaller
  <2> QED  BY <1>0, <1>2, <1>3, <2>1 DEF WithinRate
<1>5. ASSUME NEW h \in Handlers, tx[h] # None, tx[h].pc = "issue",
             NEW c \in Challenges, InsertChallenge(h, c)
      PROVE  WithinRate(w)'
  <2>1. tx'[h] = None /\ \A g \in Handlers \ {h} : tx'[g] = tx[g]
    BY <1>5 DEF InsertChallenge, Safe, TypeOK
  <2>2. /\ challenges'[c].wallet = tx[h].wallet
        /\ \A d \in Challenges \ {c} : challenges'[d] = challenges[d]
    BY <1>5 DEF InsertChallenge, Safe, TypeOK
  <2>3. CASE tx[h].wallet # w
    <3>1. Recent(w)' \subseteq Recent(w)
      BY <2>2, <2>3 DEF Recent
    <3>2. Issuing(w)' \subseteq Issuing(w)
      BY <2>1 DEF Issuing, At
    <3> QED  BY <1>4, <3>1, <3>2
  <2>4. CASE tx[h].wallet = w
    <3>1. Recent(w)' \subseteq Recent(w) \cup {c} /\ c \notin Recent(w)
      BY <1>5, <2>2 DEF InsertChallenge, Recent
    <3>2. Issuing(w)' = Issuing(w) \ {h} /\ h \in Issuing(w)
      BY <1>5, <2>1, <2>4 DEF Issuing, At
    <3>3. Cardinality(Issuing(w)') = Cardinality(Issuing(w)) - 1
      BY <1>2, <3>2, FS_RemoveElement
    <3>4. IsFiniteSet(Recent(w) \cup {c}) /\ Cardinality(Recent(w) \cup {c}) = Cardinality(Recent(w)) + 1
      BY <1>2, <3>1, FS_AddElement
    <3>5. Cardinality(Recent(w)') <= Cardinality(Recent(w)) + 1
      BY <3>1, <3>4, SubsetSmaller
    <3> QED  BY <1>0, <1>2, <1>3, <3>3, <3>5 DEF WithinRate
  <2> QED  BY <2>3, <2>4
<1>6. ASSUME NEW h \in Handlers, NEW purpose \in Purposes, CountRecent(h, w, purpose)
      PROVE  WithinRate(w)'
  <2>1. Recent(w)' = Recent(w)
    BY <1>6 DEF CountRecent, Continue, tables, Recent
  <2>2. Cardinality(Recent(w)) < RateLimit
    BY <1>6 DEF CountRecent, BelowLimit
  <2> QED  BY <1>0, <1>2, <2>1, <2>2 DEF WithinRate
<1>7. ASSUME challenges' = challenges,
             NEW h \in Handlers, tx'[h] # None => tx'[h].pc # "issue" \/ tx'[h].wallet # w,
             \A g \in Handlers \ {h} : tx'[g] = tx[g]
      PROVE  WithinRate(w)'
  <2>1. Recent(w)' \subseteq Recent(w) /\ Issuing(w)' \subseteq Issuing(w)
    BY <1>7 DEF Recent, Issuing, At
  <2> QED  BY <1>4, <2>1
<1>8. CASE UNCHANGED vars
  <2>1. Recent(w)' \subseteq Recent(w) /\ Issuing(w)' \subseteq Issuing(w)
    BY <1>8 DEF Recent, Issuing, At, vars, tables
  <2> QED  BY <1>4, <2>1
<1>9. ASSUME NEW c \in Challenges, Age(c)
      PROVE  WithinRate(w)'
  <2>1. challenges[c] \in ChallengeRows
    BY <1>9 DEF Age, Safe, TypeOK
  <2>2. challenges'[c].age # "recent" /\ \A d \in Challenges \ {c} : challenges'[d] = challenges[d]
    BY <1>9, <2>1 DEF Age, ChallengeRows, Safe, TypeOK
  <2>3. Recent(w)' \subseteq Recent(w)
    BY <2>2 DEF Recent
  <2>4. Issuing(w)' \subseteq Issuing(w)
    BY <1>9 DEF Age, Issuing, At
  <2> QED  BY <1>4, <2>3, <2>4
<1>10. ASSUME NEW h \in Handlers, Handle(h)
      PROVE  WithinRate(w)'
  <2>1. ASSUME tables' = tables, tx' = [tx EXCEPT ![h] = None]
        PROVE  WithinRate(w)'
    <3>1. challenges' = challenges /\ tx'[h] = None /\ \A g \in Handlers \ {h} : tx'[g] = tx[g]
      BY <2>1 DEF tables, Safe, TypeOK
    <3> QED  BY <1>7, <3>1
  <2>2. ASSUME NEW t, Continue(h, t), t.pc # "issue" \/ t.wallet # w
        PROVE  WithinRate(w)'
    <3>1. challenges' = challenges /\ tx'[h] = t /\ \A g \in Handlers \ {h} : tx'[g] = tx[g]
      BY <2>2 DEF Continue, tables, Safe, TypeOK
    <3> QED  BY <1>7, <2>2, <3>1
  <2>3. tx[h] # None => tx[h] \in Transactions
    BY DEF Safe, TypeOK
  <2>4. ASSUME NEW v \in Wallets, NEW purpose \in Purposes, CountRecent(h, v, purpose)
        PROVE  WithinRate(w)'
    BY <1>6, <2>2, <2>4 DEF CountRecent
  <2>5. ASSUME NEW c \in Challenges, InsertChallenge(h, c)
        PROVE  WithinRate(w)'
    BY <1>5, <2>5 DEF InsertChallenge, At
  <2>6. ASSUME NEW c \in Challenges, NEW v \in Wallets, NEW purpose \in Purposes, NEW list \in ConsentLists,
               Begin(h, c, v, purpose, list)
        PROVE  WithinRate(w)'
    BY <2>2, <2>6 DEF Begin
  <2>7. ASSUME tx[h] # None, NEW t, tx' = [tx EXCEPT ![h] = t], challenges' = challenges, t.pc # "issue"
        PROVE  WithinRate(w)'
    <3>1. tx'[h] = t /\ \A g \in Handlers \ {h} : tx'[g] = tx[g]
      BY <2>7 DEF Safe, TypeOK
    <3> QED  BY <1>7, <2>7, <3>1
  <2>8. CASE LockChallenge(h)
    <3> DEFINE t == [tx[h] EXCEPT !.pc = IF tx[h].purpose = "LOGIN" THEN "lookup" ELSE "prove"]
    <3>1. t.pc # "issue"
      BY <2>3, <2>8 DEF LockChallenge, At, Transactions
    <3>2. CASE Continue(h, t)
      <4> HIDE DEF t
      <4> QED  BY <2>2, <3>1, <3>2
    <3> QED  BY <2>1, <2>8, <3>2 DEF LockChallenge, Refuse, Rollback
  <2>9. ASSUME tx[h] # None, NEW u, NEW pc \in {"register", "consent"}, Continue(h, [tx[h] EXCEPT !.pc = pc, !.user = u])
        PROVE  WithinRate(w)'
    <3> DEFINE t == [tx[h] EXCEPT !.pc = pc, !.user = u]
    <3>1. t.pc # "issue"
      BY <2>3, <2>9 DEF Transactions
    <3>2. Continue(h, t)
      BY SMTT(60), <2>9
    <3> HIDE DEF t
    <3> QED  BY <2>2, <3>1, <3>2
  <2>10. CASE LookupUser(h)
    BY <2>1, <2>9, <2>10 DEF LookupUser, At, Refuse, Rollback
  <2>11. CASE RegisterWallet(h)
    <3> DEFINE t == [tx[h] EXCEPT !.pc = "consent", !.created = TRUE]
    <3>1. t.pc # "issue"
      BY <2>3, <2>11 DEF RegisterWallet, At, Transactions
    <3>2. CASE Continue(h, t)
      <4> HIDE DEF t
      <4> QED  BY <2>2, <3>1, <3>2
    <3> QED  BY <2>1, <2>11, <3>2 DEF RegisterWallet, Refuse, Rollback
  <2>12. CASE RecordConsent(h)
    <3> DEFINE added == IF <<tx[h].user, Head(tx[h].list)>> \in consents THEN tx[h].added
                        ELSE tx[h].added \cup {Head(tx[h].list)}
               t == [tx[h] EXCEPT !.list = Tail(tx[h].list), !.added = added]
    <3>1. t.pc # "issue"
      BY <2>3, <2>12 DEF RecordConsent, At, Transactions
    <3>2. Continue(h, t)
      BY <2>12 DEF RecordConsent
    <3> HIDE DEF t
    <3> QED  BY <2>2, <3>1, <3>2
  <2>13. ASSUME tx[h] # None, tx[h].pc \in {"consent", "prove"}, tx' = [tx EXCEPT ![h] = None], challenges' = MarkUsed(tx[h].challenge)
         PROVE  WithinRate(w)'
    <3>1. tx'[h] = None /\ \A g \in Handlers \ {h} : tx'[g] = tx[g]
      BY <2>13 DEF Safe, TypeOK
    <3>2. Issuing(w)' \subseteq Issuing(w)
      BY <3>1 DEF Issuing, At
    <3>3. ASSUME NEW c \in Recent(w)'  PROVE c \in Recent(w)
      <4>1. c \in Challenges /\ challenges'[c] # None /\ challenges'[c].wallet = w /\ challenges'[c].age = "recent"
        BY <3>3 DEF Recent
      <4>2. CASE challenges'[c] = challenges[c]
        BY <4>1, <4>2 DEF Recent
      <4>3. CASE c = tx[h].challenge
        <5>1. challenges[c] # None
          BY <2>13, <4>3 DEF Safe, RowsHeld
        <5>2. challenges[c] \in ChallengeRows
          BY <4>1, <5>1 DEF Safe, TypeOK
        <5>3. challenges'[c] = [challenges[c] EXCEPT !.used = TRUE]
          BY <2>13, <4>1, <4>3 DEF MarkUsed, Safe, TypeOK
        <5> QED  BY <4>1, <5>1, <5>2, <5>3 DEF Recent, ChallengeRows
      <4> QED  BY <2>13, <4>1, <4>2, <4>3 DEF MarkUsed, Safe, TypeOK
    <3> QED  BY <1>4, <3>2, <3>3
  <2>14. ASSUME NEW s \in Sessions, CommitLogin(h, s)
         PROVE  WithinRate(w)'
    BY <2>13, <2>14 DEF CommitLogin, At
  <2>15. CASE CommitOwnership(h)
    BY <2>13, <2>15 DEF CommitOwnership, At
  <2>16. CASE Fail(h) \/ BreakDeadlock(h)
    BY <2>1, <2>16 DEF Fail, Rollback, BreakDeadlock
  <2> QED
    BY <1>10, <2>4, <2>5, <2>6, <2>8, <2>10, <2>11, <2>12, <2>14, <2>15, <2>16 DEF Handle, Advance
<1> QED
  BY <1>8, <1>9, <1>10 DEF Next

LEMMA RateInit == Init => RateBounded
<1> SUFFICES ASSUME Init, NEW w \in Wallets
             PROVE  WithinRate(w)
  BY DEF RateBounded, WithinRate, Issuing
<1>1. Recent(w) = {} /\ Issuing(w) = {}
  BY DEF Init, Recent, Issuing, At
<1>2. Cardinality(Handlers) \in Nat /\ Cardinality({}) = 0 /\ RateLimit \in Nat \ {0}
  BY FiniteSystem, RateLimitPositive, FS_CardinalityType, FS_EmptySet
<1> QED  BY <1>1, <1>2 DEF WithinRate

(* The limit of challenges is passed by no more than the requests in       *)
(* flight, however many there are.                                         *)
THEOREM RateStaysBounded == Spec => []RateBounded
  BY SafeAlways, RateInit, RateStep, PTL DEF Spec
=============================================================================
