------------------------------- MODULE Rental -------------------------------
(***************************************************************************)
(* Rentals of the execution engine (routes of server.mjs, tables of        *)
(* migrations/005 and 007, execution-rental-gate.mjs).  Every request      *)
(* writes in two statements with no transaction around them; a refused     *)
(* statement is an action that is not taken.                               *)
(***************************************************************************)
EXTENDS Integers, Sequences, FiniteSets

CONSTANTS
  Renters,     \* traders
  Clerks,      \* requests in flight
  MaxRentals,  \* bound: rentals
  MaxDay       \* bound: the last day; a period ends on one of the days or after them

ASSUME RentalBounds == MaxRentals \in Nat /\ MaxDay \in Nat

VARIABLES
  day,
  rentals,   \* execution_engine_rentals by created_at, each with its row of billing_ledger
  calls,     \* the second statement of each request in flight
  requests   \* execution_requests: the rentals they were let in for

rentalVars == <<day, rentals, calls, requests>>

NoCall == [then |-> "none", rental |-> 0, word |-> "none"]

(* REFUNDED is treated as FAILED. *)
Payments == {"PAID", "FAILED", "VOID", "PENDING"}

(* CHECK of billing_ledger.status, without the default. *)
Bills == {"PENDING", "PAID", "VOID"}

RentalInit ==
  /\ day = 0
  /\ rentals = <<>>
  /\ calls = [c \in Clerks |-> NoCall]
  /\ requests = {}

Dawn == day < MaxDay /\ day' = day + 1 /\ UNCHANGED <<rentals, calls, requests>>

(* Mutant: no unique index. *)
NeverTaken(r, status) == TRUE

(* uq_execution_engine_rental_active *)
OnlyActive(r, status) == status = "ACTIVE" =>
  \A i \in DOMAIN rentals : i # r.id /\ rentals[i].trader = r.trader => rentals[i].status # "ACTIVE"

Calls(c, then, rental, word) ==
  /\ calls[c] = NoCall
  /\ calls' = [calls EXCEPT ![c] = [then |-> then, rental |-> rental, word |-> word]]

Respond(c) == calls' = [calls EXCEPT ![c] = NoCall]

-----------------------------------------------------------------------------
(* POST /api/execution/rental: paid by word, or by a date of payment. *)
Rent(c, t, end, word, dated) ==
  LET paid == word = "PAID" \/ dated
      status == IF paid THEN "ACTIVE" ELSE "PAST_DUE"
      payment == IF paid THEN "PAID" ELSE "PENDING"
      id == Len(rentals) + 1 IN
  /\ id <= MaxRentals
  /\ OnlyActive([id |-> id, trader |-> t], status)
  /\ rentals' = Append(rentals, [id |-> id, trader |-> t, status |-> status, payment |-> payment,
                                 end |-> end, dated |-> dated, bill |-> "none"])
  /\ Calls(c, "insert", id, payment)
  /\ UNCHANGED <<day, requests>>

(* The status of the UPDATE of PATCH /api/execution/rental/payment. *)
PaidStatus(r, word) ==
  IF word # "PAID" THEN r.status ELSE IF r.end > day THEN "ACTIVE" ELSE "EXPIRED"

Pay(c, i, word) ==
  LET r == rentals[i] IN
  /\ OnlyActive(r, PaidStatus(r, word))
  /\ rentals' = [rentals EXCEPT ![i].payment = word, ![i].status = PaidStatus(r, word),
                                ![i].dated = @ \/ word = "PAID"]
  /\ Calls(c, "update", i, word)
  /\ UNCHANGED <<day, requests>>

(* The ledger row is written, or updated unless it is VOID. *)
Bill(c) ==
  LET call == calls[c] IN
  /\ call.then \in {"insert", "update"}
  /\ rentals' = [rentals EXCEPT ![call.rental].bill =
       IF call.then = "insert" \/ (@ \notin {"none", "VOID"} /\ call.word \in Bills) THEN call.word ELSE @]
  /\ Respond(c)
  /\ UNCHANGED <<day, requests>>

-----------------------------------------------------------------------------
OfTrader(t) == {i \in DOMAIN rentals : rentals[i].trader = t}

Latest(t) == CHOOSE i \in OfTrader(t) : \A j \in OfTrader(t) : j <= i

(* checkExecutionEngineRental *)
Allowed(t) ==
  /\ OfTrader(t) # {}
  /\ LET r == rentals[Latest(t)] IN
     r.status = "ACTIVE" /\ r.payment = "PAID" /\ r.dated /\ r.end > day

(* POST /api/executions: the gate, and then the request. *)
Execute(c, t) ==
  /\ Allowed(t)
  /\ Calls(c, "request", Latest(t), "none")
  /\ UNCHANGED <<day, rentals, requests>>

CreateRequest(c) ==
  /\ calls[c].then = "request"
  /\ requests' = requests \cup {calls[c].rental}
  /\ Respond(c)
  /\ UNCHANGED <<day, rentals>>

Drop(c) == calls[c] # NoCall /\ Respond(c) /\ UNCHANGED <<day, rentals, requests>>

RentalNext ==
  \/ Dawn
  \/ \E c \in Clerks :
       \/ \E t \in Renters, end \in 1 .. MaxDay + 1, word \in {"PAID", "none"}, dated \in BOOLEAN :
            Rent(c, t, end, word, dated)
       \/ \E i \in DOMAIN rentals, word \in Payments : Pay(c, i, word)
       \/ \E t \in Renters : Execute(c, t)
       \/ Bill(c) \/ CreateRequest(c) \/ Drop(c)

RentalSpec == RentalInit /\ [][RentalNext]_rentalVars

-----------------------------------------------------------------------------
(* In whatever order rentals are made, paid, refunded and paid again, a    *)
(* trader never has two periods under way that are paid for, and no        *)
(* execution request was let in for a rental that was never paid.          *)
NeverPaidTwice ==
  /\ \A i, j \in DOMAIN rentals :
       LET running(r) == r.payment = "PAID" /\ r.end > day IN
       running(rentals[i]) /\ running(rentals[j]) /\ rentals[i].trader = rentals[j].trader => i = j
  /\ \A i \in requests : rentals[i].dated
=============================================================================
