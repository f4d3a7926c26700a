------------------------- MODULE ExecutionLifecycle -------------------------
(***************************************************************************)
(* What an execution promises (STATES, TRANSITIONS and TERMINAL of         *)
(* execution-boundary.mjs, execution-audit.mjs): its history only grows,   *)
(* along the transition table, and it is audited once, in the step that    *)
(* reaches a terminal state, as that state.                                *)
(***************************************************************************)
EXTENDS Sequences, Naturals

CONSTANTS Dispatches, NoAudit

VARIABLES history, audits

Outs == {"REJECTED", "FAILED"}

Transitions ==
  [CREATED |-> {"RISK_CHECKED"} \cup Outs, RISK_CHECKED |-> {"QUOTED"} \cup Outs,
   QUOTED |-> {"SIMULATED"} \cup Outs, SIMULATED |-> {"AUTHORIZED"} \cup Outs,
   AUTHORIZED |-> {"DISPATCHED"} \cup Outs, DISPATCHED |-> {"CONFIRMED", "FAILED"},
   CONFIRMED |-> {"RECONCILED", "FAILED"}, RECONCILED |-> {}, REJECTED |-> {}, FAILED |-> {}]

Terminal(h) == h # <<>> /\ Transitions[h[Len(h)]] = {}

Follows(old, new) ==
  /\ Len(old) < Len(new) /\ SubSeq(new, 1, Len(old)) = old
  /\ new[1] = "CREATED"
  /\ \A i \in 1 .. Len(new) - 1 : new[i + 1] \in Transitions[new[i]]

Init ==
  /\ history = [d \in Dispatches |-> <<>>]
  /\ audits = [d \in Dispatches |-> NoAudit]

Extend(d) ==
  /\ Follows(history[d], history'[d])
  /\ history' = [history EXCEPT ![d] = history'[d]]
  /\ audits' = [audits EXCEPT ![d] =
       IF Terminal(history'[d]) THEN history'[d][Len(history'[d])] ELSE NoAudit]

Next == \E d \in Dispatches : Extend(d)

Spec == Init /\ [][Next]_<<history, audits>>
=============================================================================
