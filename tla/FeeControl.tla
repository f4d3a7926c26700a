----------------------------- MODULE FeeControl -----------------------------
(***************************************************************************)
(* fee-control.mjs: a change of the fees is proposed by an operator,       *)
(* approved by another person and applied by a third.  The change is a     *)
(* frozen document that its holders hand on; no copy of it is ever taken   *)
(* back.                                                                   *)
(***************************************************************************)
EXTENDS Integers, FiniteSets

CONSTANTS
  Officers,  \* the persons, with their ids
  RoleOf,    \* the roles of each, among those below
  Shares,    \* the values of a fee that are asked for, in basis points
  MaxChanges, \* bound on the documents
  Nobody

FeeRoles == {"FEE_CONFIG_OPERATOR", "FEE_CONFIG_APPROVER", "FEE_CONFIG_APPLIER"}
MaxBps == 10000

VARIABLES
  changes,  \* the change documents that were ever made
  audits    \* the audit records that apply has answered, with their configurations

feeVars == <<changes, audits>>

Bps(value) == value \in 0 .. MaxBps

ValidFees(config) ==
  /\ Bps(config.performance) /\ Bps(config.execution)
  /\ config.performance + config.execution <= MaxBps

ValidConfig(config) == ValidFees(config) /\ config.configuredBy # Nobody

FirstConfig == [performance |-> 0, execution |-> 0, configuredBy |-> "genesis"]

(* The configurations in force are those that were applied, and the first. *)
Configs == {FirstConfig} \cup {audit.config : audit \in audits}

FeeInit == changes = {} /\ audits = {}

HasRole(actor, role) == role \in RoleOf[actor]

ProposeFeeConfigChange(current, performance, execution, actor) ==
  LET proposed == [performance |-> performance, execution |-> execution, configuredBy |-> actor] IN
  /\ Cardinality(changes) < MaxChanges
  /\ ValidConfig(current)
  /\ HasRole(actor, "FEE_CONFIG_OPERATOR") /\ ValidFees(proposed)
  /\ changes' = changes \cup {[status |-> "PENDING_APPROVAL", requestedBy |-> actor, approvedBy |-> Nobody,
                               current |-> current, proposed |-> proposed, applied |-> FALSE]}
  /\ UNCHANGED audits

ValidChange(change) ==
  change.requestedBy # Nobody /\ ValidConfig(change.current) /\ ValidConfig(change.proposed)

ApproveFeeConfigChange(change, approver) ==
  /\ ValidChange(change)
  /\ HasRole(approver, "FEE_CONFIG_APPROVER")
  /\ change.requestedBy # approver
  /\ change.status = "PENDING_APPROVAL" /\ ~change.applied
  /\ changes' = changes \cup {[change EXCEPT !.status = "APPROVED", !.approvedBy = approver]}
  /\ UNCHANGED audits

(* Mutant: only the requester is compared. *)
NotTheRequester(change, actor) == actor # change.requestedBy

Separated(change, actor) == actor \notin {change.requestedBy, change.approvedBy}

ApplyApprovedFeeConfig(change, actor) ==
  /\ ValidChange(change)
  /\ HasRole(actor, "FEE_CONFIG_APPLIER")
  /\ change.status = "APPROVED" /\ ~change.applied
  /\ change.approvedBy # Nobody
  /\ Separated(change, actor)
  /\ changes' = changes \cup {[change EXCEPT !.status = "APPLIED", !.applied = TRUE]}
  /\ audits' = audits \cup {[requestedBy |-> change.requestedBy, approvedBy |-> change.approvedBy,
                             appliedBy |-> actor, config |-> change.proposed]}

FeeNext ==
  \/ \E current \in Configs, performance, execution \in Shares, actor \in Officers :
       ProposeFeeConfigChange(current, performance, execution, actor)
  \/ \E change \in changes, approver \in Officers : ApproveFeeConfigChange(change, approver)
  \/ \E change \in changes, actor \in Officers : ApplyApprovedFeeConfig(change, actor)

FeeSpec == FeeInit /\ [][FeeNext]_feeVars

(* Whoever hands which copy of a change to whom, the fees that are applied *)
(* were asked for, approved and applied by three persons, each with the    *)
(* role, and together they never exceed the whole.                         *)
ThreePersons ==
  \A audit \in audits :
    /\ audit.requestedBy # audit.approvedBy
    /\ audit.appliedBy \notin {audit.requestedBy, audit.approvedBy}
    /\ HasRole(audit.requestedBy, "FEE_CONFIG_OPERATOR")
    /\ HasRole(audit.approvedBy, "FEE_CONFIG_APPROVER")
    /\ HasRole(audit.appliedBy, "FEE_CONFIG_APPLIER")
    /\ audit.config.performance + audit.config.execution <= MaxBps
    /\ audit.config.configuredBy = audit.requestedBy
=============================================================================
