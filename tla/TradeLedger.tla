---------------------------- MODULE TradeLedger ----------------------------
(***************************************************************************)
(* What the reconciled ledger of a trader promises (migrations/017): rows  *)
(* are added one at a time and never changed or removed, no trade event    *)
(* and no transaction is ever in two rows, and a record of a collection of *)
(* evidence only sums rows of the ledger.                                  *)
(***************************************************************************)
VARIABLES rows, collected

Init == rows = {} /\ collected = {}

Record(row) ==
  /\ \A r \in rows : r.event # row.event /\ r.tx # row.tx
  /\ rows' = rows \cup {row}
  /\ UNCHANGED collected

Collect(some) ==
  /\ some \subseteq rows
  /\ collected' = collected \cup {some}
  /\ UNCHANGED rows

Next == (\E row \in rows' : Record(row)) \/ (\E some \in collected' : Collect(some))

Spec == Init /\ [][Next]_<<rows, collected>>
=============================================================================
