------------------------- MODULE EvidenceCollection -------------------------
(***************************************************************************)
(* The automatic collection of a trader's signatures                       *)
(* (automatic-evidence-service.mjs, collectSolanaRpcEvidence of            *)
(* solana-evidence-source.mjs): pages of the node's answers, from the      *)
(* newest on, and one row for all of them.  The signatures of the wallet   *)
(* are numbered as they reach the chain.                                   *)
(***************************************************************************)
EXTENDS Integers, FiniteSets

CONSTANTS
  Collections,  \* requests
  PageSize,     \* limit
  MaxPages,     \* max_pages
  MaxChain      \* bound: signatures

ASSUME CollectionBounds == {PageSize, MaxPages} \subseteq Nat \ {0} /\ MaxChain \in Nat

VARIABLES
  chain,     \* the number of signatures
  approved,  \* the trader is APPROVED, in SHADOW
  coll       \* each collection

collectionVars == <<chain, approved, coll>>

NoCollection == [pc |-> "none", top |-> 0, rows |-> {}, before |-> 0, pages |-> 0,
                 complete |-> FALSE, newest |-> 0]

CollectionInit ==
  /\ chain = 0
  /\ approved = TRUE
  /\ coll = [c \in Collections |-> NoCollection]

Arrive == chain < MaxChain /\ chain' = chain + 1 /\ UNCHANGED <<approved, coll>>

(* An administrator's review. *)
ReviewTrader == approved' = ~approved /\ UNCHANGED <<chain, coll>>

CollectionStep(c, r) == coll' = [coll EXCEPT ![c] = r] /\ UNCHANGED <<chain, approved>>

(* loadApprovedTrader *)
LoadTrader(c) ==
  /\ coll[c].pc = "none" /\ approved
  /\ CollectionStep(c, [NoCollection EXCEPT !.pc = "page"])

(* Mutant: pages are counted from the newest signature there is. *)
PageByOffset(r) ==
  LET above == chain - r.pages * PageSize IN {n \in 1 .. chain : n <= above /\ n > above - PageSize}

(* getSignaturesForAddress with limit and before. *)
Page(r) ==
  LET above == IF r.pages = 0 THEN chain ELSE r.before - 1 IN
  {n \in 1 .. chain : n <= above /\ n > above - PageSize}

Oldest(page) == CHOOSE n \in page : \A m \in page : n <= m

(* top is history: the newest signature when the first page was read. *)
FetchPage(c) ==
  LET r == coll[c]
      page == Page(r)
      full == Cardinality(page) = PageSize IN
  /\ r.pc = "page"
  /\ CollectionStep(c, [r EXCEPT
       !.top = IF r.pages = 0 THEN chain ELSE @,
       !.rows = @ \cup page,
       !.before = IF full THEN Oldest(page) ELSE @,
       !.pages = @ + 1,
       !.complete = ~full,
       !.pc = IF full /\ r.pages + 1 < MaxPages THEN "page" ELSE "record"])

(* Two signatures share a slot. *)
Slot(n) == (n + 1) \div 2

(* canonicalSignatures: by slot, and by the text of the signature. *)
First(rows) == {n \in rows : \A m \in rows : Slot(m) <= Slot(n)}

(* The INSERT of a PENDING_DATA run. *)
Record(c) ==
  LET r == coll[c] IN
  /\ r.pc = "record"
  /\ \E n \in IF r.rows = {} THEN {0} ELSE First(r.rows) :
       CollectionStep(c, [r EXCEPT !.pc = "recorded", !.newest = n])

(* The node, or the database, does not answer. *)
Abort(c) == coll[c].pc \in {"page", "record"} /\ CollectionStep(c, NoCollection)

CollectionNext ==
  \/ Arrive
  \/ ReviewTrader
  \/ \E c \in Collections : LoadTrader(c) \/ FetchPage(c) \/ Record(c) \/ Abort(c)

CollectionSpec == CollectionInit /\ [][CollectionNext]_collectionVars

-----------------------------------------------------------------------------
(* Signatures that arrive between two pages neither shift nor repeat any:  *)
(* a recorded run holds exactly the newest signatures of the moment its    *)
(* first page was read, as many as its pages hold, it is complete only if  *)
(* those are all, and its reference names one of the newest slot.          *)
CollectionComplete == \A c \in Collections :
  LET r == coll[c] IN
  r.pc = "recorded" =>
    /\ r.rows = {n \in 1 .. r.top : n > r.top - PageSize * MaxPages}
    /\ r.complete <=> r.top < PageSize * MaxPages
    /\ r.rows # {} => Slot(r.newest) = Slot(r.top)
=============================================================================
