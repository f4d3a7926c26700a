---------------------------- MODULE CopyMandates ----------------------------
(***************************************************************************)
(* A follower's copy mandates (repositories/core.mjs), the admin's edits   *)
(* of them (repositories/admin.mjs), and the listing of traders they       *)
(* depend on.  An update reads the row, decides, and then writes every     *)
(* column back with no condition on what it read; task[h] is the row that  *)
(* handler h is about to write.                                            *)
(***************************************************************************)
EXTENDS Naturals

CONSTANTS
  Followers,  \* follower_user_id values
  Traders,
  Owner,      \* the user who owns each trader, None for a fixture
  Policies,   \* policy_id values
  Handlers,   \* HTTP requests served at the same time
  MaxAmount,  \* money amounts are 1 .. MaxAmount
  None

Amounts == 1 .. MaxAmount

Statuses == {"ACTIVE", "PAUSED", "CANCELLED"}

Rows == [follower : Followers, trader : Traders,
         status : Statuses, enabled : BOOLEAN,
         maxCopy : Amounts, maxPosition : Amounts]

(* A pending statement: the row to look for, to insert or to write back. *)
Tasks == [step : {"lookup", "insert", "write"}, policy : Policies \cup {None}, row : Rows]

ASSUME NoneIsNoValue == None \notin Amounts \cup Rows \cup Tasks
ASSUME AmountsExist == MaxAmount \in Nat \ {0}
ASSUME OwnerType == Owner \in [Traders -> Followers \cup {None}]

VARIABLES
  copyable,   \* traders that pass the five-flag check of createForFollower
  policies,   \* the copy_policies table
  audit,      \* the (mandate, status) pairs the audit trail reports
  task        \* what each handler is about to do

vars == <<copyable, policies, audit, task>>

(* Rows older than the status column (migrations 008, 009 and 014) are     *)
(* ACTIVE whatever their enabled flag says; the fixtures have no owner.    *)
LegacyRows == {r \in Rows :
  r.status = "ACTIVE" /\ r.maxCopy <= r.maxPosition /\ Owner[r.trader] = None}

Taken(table, row) == \E q \in Policies :
  table[q] # None /\ table[q].follower = row.follower /\ table[q].trader = row.trader

Init ==
  /\ copyable \in SUBSET Traders
  /\ \/ policies = [p \in Policies |-> None]
     \/ \E p \in Policies, r \in LegacyRows : policies = [q \in Policies |-> IF q = p THEN r ELSE None]
  /\ audit = {}
  /\ task = [h \in Handlers |-> None]

-----------------------------------------------------------------------------
(* The marketplace lists or withdraws a trader (TraderMarketplace).        *)
ListingChanges(t) ==
  /\ copyable' = IF t \in copyable THEN copyable \ {t} ELSE copyable \cup {t}
  /\ UNCHANGED <<policies, audit, task>>

Defer(h, step, p, row) ==
  /\ task' = [task EXCEPT ![h] = [step |-> step, policy |-> p, row |-> row]]
  /\ UNCHANGED <<copyable, policies, audit>>

(* createForFollower: the trader is read and checked first, ...            *)
CreateMandate(h, f, t) ==
  /\ task[h] = None
  /\ t \in copyable /\ Owner[t] # f
  /\ \E c, m \in Amounts :
       /\ c <= m
       /\ Defer(h, "lookup", None,
            [follower |-> f, trader |-> t, status |-> "ACTIVE", enabled |-> TRUE,
             maxCopy |-> c, maxPosition |-> m])

(* ... then getForPair looks for a mandate between the two, ...            *)
LookForPair(h) ==
  /\ task[h] # None /\ task[h].step = "lookup"
  /\ IF Taken(policies, task[h].row)
     THEN task' = [task EXCEPT ![h] = None]
     ELSE task' = [task EXCEPT ![h].step = "insert"]
  /\ UNCHANGED <<copyable, policies, audit>>

(* Every stored row is reported by the trigger aether_audit_copy_mandate.   *)
Store(p, row) ==
  /\ policies' = [policies EXCEPT ![p] = row]
  /\ audit' = audit \cup {<<p, row.status>>}

(* Mutant: the unique constraint on (follower, trader) is missing. *)
InsertUnchecked(h, p) ==
  /\ task[h] # None /\ task[h].step = "insert"
  /\ policies[p] = None
  /\ Store(p, task[h].row)
  /\ task' = [task EXCEPT ![h] = None]
  /\ UNCHANGED copyable

(* ... and the INSERT fails if another request got there in between.       *)
InsertMandate(h, p) ==
  /\ task[h] # None /\ task[h].step = "insert"
  /\ policies[p] = None
  /\ IF Taken(policies, task[h].row) THEN UNCHANGED <<policies, audit>> ELSE Store(p, task[h].row)
  /\ task' = [task EXCEPT ![h] = None]
  /\ UNCHANGED copyable

(* The limits an edit carries; None leaves a column as it was read. *)
Edited(row, c, m) ==
  [row EXCEPT !.maxCopy = IF c = None THEN @ ELSE c,
              !.maxPosition = IF m = None THEN @ ELSE m]

(* Mutant: only limits that are both supplied are compared. *)
LimitsComparedIfGiven(row, c, m) == c # None /\ m # None => c <= m

LimitsAccepted(row, c, m) ==
  Edited(row, c, m).maxCopy <= Edited(row, c, m).maxPosition

(* Mutant: a cancellation keeps the enabled flag. *)
ActedKeepsEnabled(row, action) ==
  CASE action = "PAUSE" -> [row EXCEPT !.status = "PAUSED", !.enabled = FALSE]
    [] action = "RESUME" -> [row EXCEPT !.status = "ACTIVE", !.enabled = TRUE]
    [] action = "CANCEL" -> [row EXCEPT !.status = "CANCELLED"]
    [] OTHER -> row

Acted(row, action) ==
  CASE action = "PAUSE" -> [row EXCEPT !.status = "PAUSED", !.enabled = FALSE]
    [] action = "RESUME" -> [row EXCEPT !.status = "ACTIVE", !.enabled = TRUE]
    [] action = "CANCEL" -> [row EXCEPT !.status = "CANCELLED", !.enabled = FALSE]
    [] OTHER -> row

(* updateForFollower: only RESUME looks at a cancellation. *)
FollowerUpdate(h, p, action, c, m) ==
  /\ task[h] = None /\ policies[p] # None
  /\ ~(action = "RESUME" /\ policies[p].status = "CANCELLED")
  /\ LimitsAccepted(policies[p], c, m)
  /\ Defer(h, "write", p, Edited(Acted(policies[p], action), c, m))

(* updateCopyPolicy: an admin may switch the mandate on or off. *)
AdminUpdate(h, p, switch, c, m) ==
  /\ task[h] = None /\ policies[p] # None
  /\ policies[p].status # "CANCELLED"
  /\ LimitsAccepted(policies[p], c, m)
  /\ Defer(h, "write", p,
       Edited(Acted(policies[p], CASE switch = "on" -> "RESUME" [] switch = "off" -> "PAUSE"
                                   [] OTHER -> "KEEP"), c, m))

(* UPDATE copy_policies SET every column WHERE policy_id = p. *)
WriteMandate(h) ==
  /\ task[h] # None /\ task[h].step = "write"
  /\ Store(task[h].policy, task[h].row)
  /\ task' = [task EXCEPT ![h] = None]
  /\ UNCHANGED copyable

(* The request dies between two of its statements. *)
Fail(h) ==
  /\ task[h] # None
  /\ task' = [task EXCEPT ![h] = None]
  /\ UNCHANGED <<copyable, policies, audit>>

-----------------------------------------------------------------------------
Limits == Amounts \cup {None}

Handle(h) ==
  \/ \E f \in Followers, t \in Traders : CreateMandate(h, f, t)
  \/ LookForPair(h)
  \/ \E p \in Policies : InsertMandate(h, p)
  \/ \E p \in Policies, c, m \in Limits, action \in {"PAUSE", "RESUME", "CANCEL", "UPDATE"} :
       FollowerUpdate(h, p, action, c, m)
  \/ \E p \in Policies, c, m \in Limits, switch \in {"on", "off", "unset"} :
       AdminUpdate(h, p, switch, c, m)
  \/ WriteMandate(h)
  \/ Fail(h)

Next == (\E t \in Traders : ListingChanges(t)) \/ (\E h \in Handlers : Handle(h))

Spec == Init /\ [][Next]_vars

-----------------------------------------------------------------------------
TypeOK ==
  /\ copyable \in SUBSET Traders
  /\ policies \in [Policies -> Rows \cup {None}]
  /\ audit \in SUBSET (Policies \X Statuses)
  /\ task \in [Handlers -> Tasks \cup {None}]

(* A follower never has two mandates for one trader, although two requests *)
(* may both have found none before either inserts (createForFollower).     *)
OneMandatePerPair == \A p, q \in Policies :
  /\ policies[p] # None /\ policies[q] # None
  /\ policies[p].follower = policies[q].follower /\ policies[p].trader = policies[q].trader
  => p = q

(* The position limit never falls below the limit of one copy, although an *)
(* edit checks the pair on a row that others may rewrite before it writes  *)
(* (updateForFollower, updateCopyPolicy).                                  *)
LimitsOrdered == \A p \in Policies :
  policies[p] # None => policies[p].maxCopy <= policies[p].maxPosition

(* A mandate the shadow simulator would copy, which it selects by its      *)
(* enabled flag alone, is ACTIVE: a paused or cancelled mandate is never   *)
(* left enabled, whichever writer comes last (shadow-simulator.mjs).       *)
EnabledMeansActive == \A p \in Policies :
  policies[p] # None /\ policies[p].enabled => policies[p].status = "ACTIVE"

(* A mandate that its follower has cancelled is not resumed: the HTTP test *)
(* asserts a 409 for it (run-trader-copy-http-tests.mjs).                  *)
CancelledIsNotResumed == \A p \in Policies :
  <<p, "CANCELLED">> \in audit => policies[p].status # "ACTIVE"

=============================================================================
