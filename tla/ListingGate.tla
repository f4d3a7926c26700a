---------------------------- MODULE ListingGate ----------------------------
(***************************************************************************)
(* What the marketplace promises about its public listing, without rows,   *)
(* flags or handlers: a trader is listed by an explicit publication, never *)
(* before a verification decision has tied him to a piece of evidence, and *)
(* every withdrawal or new decision takes him off the list.                *)
(* TraderMarketplace implements this specification.                        *)
(***************************************************************************)

CONSTANTS Traders, Evidence, None

VARIABLES
  listed,   \* the traders the public API shows
  backing   \* the evidence that backs each trader, None when nothing does

gateVars == <<listed, backing>>

Init ==
  /\ listed = {}
  /\ backing = [t \in Traders |-> None]

(* A verification decision backs t by e and asks for a new publication.   *)
Verify(t, e) ==
  /\ backing' = [backing EXCEPT ![t] = e]
  /\ listed' = listed \ {t}

(* Only a backed trader can be published, and nothing else changes then.  *)
Publish(t) ==
  /\ backing[t] # None
  /\ listed' = listed \cup {t}
  /\ UNCHANGED backing

Unpublish(t) ==
  /\ listed' = listed \ {t}
  /\ UNCHANGED backing

(* A rejection or a suspension takes the backing and the listing away.    *)
Withdraw(t) ==
  /\ backing' = [backing EXCEPT ![t] = None]
  /\ listed' = listed \ {t}

Next == \E t \in Traders :
  \/ \E e \in Evidence : Verify(t, e)
  \/ Publish(t)
  \/ Unpublish(t)
  \/ Withdraw(t)

Spec == Init /\ [][Next]_gateVars

=============================================================================
