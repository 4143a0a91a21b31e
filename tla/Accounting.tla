------------------------------ MODULE Accounting ------------------------------
(***************************************************************************)
(* The books of AccService (apps/api/src/acc/service.ts): what the approval  *)
(* of a document writes into them, the openings they start from             *)
(* (apps/api/src/vou/opening-service.ts), and the closing and reopening of  *)
(* their months with the cost and depreciation entries it derives           *)
(* (acc/month-end.ts, acc/depreciation.ts).                                 *)
(*                                                                           *)
(* Every request takes the advisory lock of its month first, whatever the   *)
(* book.  A document then locks the row of the control book, a closing the   *)
(* row of its own book and, shared, the entry of its opening: requests for   *)
(* different months of different books run side by side.                     *)
(*                                                                           *)
(* Amounts are left out except where an entry is derived: an asset is worn   *)
(* off by one unit a month, and a document moves one unit of the one product *)
(* in the one warehouse.  Bills, funds, settlements, containers, mappings    *)
(* that are missing or do not balance, and months that have not ended are    *)
(* left out; revisions only refuse more.                                     *)
(***************************************************************************)
EXTENDS Integers, FiniteSets, Functions

CONSTANTS
  Documents,      \* vou documents; an asset has the name of its acquisition
  NoDocument,
  Books,
  NoBook,
  Control,        \* the control book
  Start,          \* acc_books.start_month
  LastMonth,      \* bound: the last month that has ended
  Posts,          \* pairs of book and kind the current mapping posts (else UN_POST)
  Life,           \* useful life of an asset in months
  KindsOf,        \* bound: the kinds a document may be of
  OpeningStock,   \* quantities an opening may carry
  OpeningAdopts,  \* bound: may an opening take over assets that are registered?
  EarlyDisposals, \* bound: may a disposal be dated before the acquisition?
  Requests        \* requests under way at a time

Months == 1..LastMonth
Kinds  == {"receive", "issue", "acquire", "dispose"}
Moves  == {"receive", "issue"}

ASSUME AccountingAssumption ==
  /\ NoDocument \notin Documents /\ NoBook \notin Books
  /\ Control \in Books
  /\ LastMonth \in Nat \ {0} /\ Start \in [Books -> Nat \ {0}]
  /\ Posts \subseteq Books \X Kinds
  /\ KindsOf \in [Documents -> SUBSET Kinds]
  /\ Life \in Nat \ {0} /\ OpeningStock \subseteq Int /\ {OpeningAdopts, EarlyDisposals} \subseteq BOOLEAN

VARIABLES
  document,      \* vou_documents with their entry: status, kind, month, asset disposed of
  register,      \* acc_asset_registers.state_vou_approval_entry_id
  worth,         \* acc_asset_book_values, and whether the book has a depreciation basis
  opening,       \* the opening entry of a book and its snapshot
  journal,       \* acc_journal_entries
  recorded,      \* recorded[d]: the documents with inventory entries from the first to d
  depreciation,  \* acc_asset_depreciation_entries: amounts by book, asset and month
  allocated,     \* acc_inventory_cost_allocations: the rows of a month, and what each came after
  locked,        \* acc_periods: the months locked
  balances,      \* acc_period_balances: the journal a month was closed with
  request        \* what each request is doing and the locks it has come to

facts == <<document, register, worth, opening, journal, recorded>>
derived == <<depreciation, allocated, locked, balances>>
vars == <<facts, derived, request>>

NoDoc     == [status |-> "none", kind |-> "receive", month |-> 1, asset |-> NoDocument]
NoWorth   == [held |-> FALSE, basis |-> FALSE, spent |-> 0]
NoWear    == [m \in Months |-> 0]
NoCost    == [d \in Documents |-> {}]
NoOpening == [status |-> "none", adopts |-> {}, stock |-> 0]
Idle      == [stage |-> "idle", op |-> "none", document |-> NoDoc,
              id |-> NoDocument, book |-> NoBook, month |-> 1]

DocumentRow == [status : {"none", "open", "approved"}, kind : Kinds,
                month : Months, asset : Documents \cup {NoDocument}]
Entry       == [source : {"OPENING", "VOU", "COST_SETTLEMENT", "DEPRECIATION"},
                of : Documents \cup {NoDocument}, month : Nat, amount : Int]

TypeOK ==
  /\ document \in [Documents -> DocumentRow]
  /\ register \in [Documents -> Documents \cup {NoDocument}]
  /\ worth \in [Books -> [Documents -> [held : BOOLEAN, basis : BOOLEAN, spent : Int]]]
  /\ opening \in [Books -> [status : {"none", "open", "approved"},
                            adopts : SUBSET Documents, stock : Int]]
  /\ journal \in [Books -> SUBSET Entry]
  /\ depreciation \in [Books -> [Documents -> [Months -> Int]]]
  /\ recorded \in [Documents -> SUBSET Documents]
  /\ allocated \in [Books -> [Months -> [Documents -> SUBSET Documents]]]
  /\ locked \in [Books -> SUBSET Months]
  /\ balances \in [Books -> [Months -> SUBSET Entry]]
  /\ request \in [Requests -> [stage : {"idle", "month", "row"},
                               op : {"none", "submit", "approve", "unapprove",
                                     "delete", "lock", "unlock"},
                               document : DocumentRow, id : Documents \cup {NoDocument},
                               book : Books \cup {NoBook}, month : Months]]

Init ==
  /\ document = [d \in Documents |-> NoDoc]
  /\ register = [d \in Documents |-> NoDocument]
  /\ worth = [b \in Books |-> [a \in Documents |-> NoWorth]]
  /\ opening = [b \in Books |-> NoOpening]
  /\ journal = [b \in Books |-> {}]
  /\ recorded = [d \in Documents |-> {}]
  /\ depreciation = [b \in Books |-> [a \in Documents |-> NoWear]]
  /\ allocated = [b \in Books |-> [m \in Months |-> NoCost]]
  /\ locked = [b \in Books |-> {}]
  /\ balances = [b \in Books |-> [m \in Months |-> {}]]
  /\ request = [t \in Requests |-> Idle]

-------------------------------------------------------------------------------
(* What a request holds.                                                    *)
MonthIgnored(m) == TRUE   \* What if the month were not locked?
MonthFree(m)   == \A u \in Requests : request[u] # Idle => request[u].month # m
RowFree(b)     == \A u \in Requests : request[u].stage = "row" => request[u].book # b
OpeningFree(b) == \A u \in Requests :
                    request[u].stage = "row" /\ request[u].op = "lock" => request[u].book # b

EndMarked(t) == request' = [request EXCEPT ![t].stage = "done"]   \* What if it stayed?
End(t)       == request' = [request EXCEPT ![t] = Idle]

(* lockDocumentPeriod: locked in any book.  What if only in the control one?*)
ClosedInControl(m) == m \in locked[Control]
Closed(m)          == \E b \in Books : m \in locked[b]

(* The inventory rows of a book up to a month; those that come no later than *)
(* a row, by the dates and then by the order of the vouchers; and the       *)
(* quantity that such rows leave.                                           *)
Voucher(d)    == [source |-> "VOU", of |-> d, month |-> document[d].month, amount |-> 0]
Rows(b, m)    == {d \in Documents : /\ recorded[d] # {} /\ document[d].month <= m
                                    /\ Voucher(d) \in journal[b]}
Through(b, d) == {x \in Rows(b, document[d].month) :
                    document[x].month < document[d].month \/ x \in recorded[d]}
Quantity(b, rows) ==
  opening[b].stock + Cardinality({d \in rows : document[d].kind = "receive"})
                   - Cardinality({d \in rows : document[d].kind = "issue"})
Stock(b, m)   == Quantity(b, Rows(b, m))
Before(b, d)  == Quantity(b, Through(b, d) \ {d})
After(b, d)   == Quantity(b, Through(b, d))

(* No row takes the quantity below zero, or further below.                  *)
Progresses(b, m) ==
  \A d \in Rows(b, m) : After(b, d) >= 0 \/ After(b, d) >= Before(b, d)

(* assertControlInventoryProgress, once the rows have changed.  What if it  *)
(* looked at the quantity in the end only?                                  *)
StockAllowsInTheEnd(d, books) ==
  document[d].kind \in Moves /\ Control \in books => Stock(Control, LastMonth)' >= 0
StockAllows(d, books) ==
  document[d].kind \in Moves /\ Control \in books =>
    /\ Progresses(Control, LastMonth)'
    /\ \/ Stock(Control, LastMonth)' >= 0
       \/ Stock(Control, LastMonth)' >= Stock(Control, LastMonth)

-------------------------------------------------------------------------------
(* acc_asset_registers and what the books hold of an asset.                 *)
Active(a) == register[a] = a

Applicable(m) == {b \in Books : opening[b].status = "approved" /\ Start[b] <= m}
PostingTo(d)  == {b \in Applicable(document[d].month) : <<b, document[d].kind>> \in Posts}

(* applyGlobalRegistrations, changeAssetStatus, adoptDepreciationBasis.     *)
Register(d) ==
  CASE document[d].kind = "acquire" ->
         /\ register' = [register EXCEPT ![d] = d]
         /\ worth' = [b \in Books |-> IF b \in Applicable(document[d].month)
                        THEN [worth[b] EXCEPT ![d] = [held |-> TRUE, spent |-> 0,
                                                      basis |-> b \in PostingTo(d)]]
                        ELSE worth[b]]
    [] document[d].kind = "dispose" ->
         /\ Active(document[d].asset)
         /\ EarlyDisposals \/ document[document[d].asset].month <= document[d].month
         /\ register' = [register EXCEPT ![document[d].asset] = d]
         /\ UNCHANGED worth
    [] OTHER -> UNCHANGED <<register, worth>>

(* The register row takes the values, the bases and the depreciation        *)
(* entries of every book with it (ON DELETE CASCADE).                       *)
DropAsset(a) ==
  /\ register' = [register EXCEPT ![a] = NoDocument]
  /\ worth' = [b \in Books |-> [worth[b] EXCEPT ![a] = NoWorth]]
  /\ depreciation' = [b \in Books |-> [depreciation[b] EXCEPT ![a] = NoWear]]

(* reverseGlobalRegistrations.  What if it did not look for a disposal?     *)
DeregisterAnyway(d) ==
  CASE document[d].kind = "acquire" -> DropAsset(d)
    [] document[d].kind = "dispose" ->
         /\ register' = [register EXCEPT ![document[d].asset] = document[d].asset]
         /\ UNCHANGED <<worth, depreciation>>
    [] OTHER -> UNCHANGED <<register, worth, depreciation>>

Deregister(d) ==
  CASE document[d].kind = "acquire" -> Active(d) /\ DropAsset(d)
    [] document[d].kind = "dispose" ->
         /\ register' = [register EXCEPT ![document[d].asset] = document[d].asset]
         /\ UNCHANGED <<worth, depreciation>>
    [] OTHER -> UNCHANGED <<register, worth, depreciation>>

-------------------------------------------------------------------------------
(* A request begins when it is granted the lock of its month                *)
(* (lockAccountingPeriod); while it waits for that it holds nothing.  What  *)
(* it would be refused for at once is not asked.                            *)
Begin(t, r) == /\ request[t] = Idle
               /\ MonthFree(r.month)
               /\ request' = [request EXCEPT ![t] = r]
               /\ UNCHANGED <<facts, derived>>

(* A disposal is validated against the register when it is submitted only.  *)
BeginSubmit(t, d, k, m, a) ==
  /\ document[d].status = "none"
  /\ k \in KindsOf[d]
  /\ IF k = "dispose" THEN a \in Documents /\ Active(a) ELSE a = NoDocument
  /\ Begin(t, [Idle EXCEPT !.stage = "month", !.op = "submit", !.id = d, !.month = m,
                           !.document = [status |-> "open", kind |-> k, month |-> m, asset |-> a]])

(* The month of a review is that of the entry, which never changes.         *)
BeginReview(t, d, op) ==
  /\ document[d].status = (IF op = "unapprove" THEN "approved" ELSE "open")
  /\ Begin(t, [Idle EXCEPT !.stage = "month", !.op = op, !.id = d, !.month = document[d].month])

BeginPeriod(t, b, m, op) ==
  /\ m >= Start[b]
  /\ (op = "unlock") = (m \in locked[b])
  /\ Begin(t, [Idle EXCEPT !.stage = "month", !.op = op, !.book = b, !.month = m])

(* Any request may fail, for a reason of its own or for one left out here.  *)
Refuse(t) ==
  /\ request[t] # Idle
  /\ End(t)
  /\ UNCHANGED <<facts, derived>>

-------------------------------------------------------------------------------
(* The operations on documents: the row of the control book is taken, and   *)
(* with it and the month the rest is one step.                              *)
Writing(t, op) ==
  /\ request[t].stage = "month" /\ request[t].op = op
  /\ RowFree(Control)
  /\ ~ Closed(request[t].month)
  /\ End(t)

Submit(t) == LET d == request[t].id  new == request[t].document IN
  /\ Writing(t, "submit")
  /\ document[d].status = "none"
  /\ new.kind = "dispose" => Active(new.asset)
  /\ document' = [document EXCEPT ![d] = new]
  /\ UNCHANGED <<register, worth, opening, journal, recorded, derived>>

Delete(t) == LET d == request[t].id IN
  /\ Writing(t, "delete")
  /\ document[d].status = "open"
  /\ document' = [document EXCEPT ![d] = NoDoc]
  /\ UNCHANGED <<register, worth, opening, journal, recorded, derived>>

(* apply of an approval.                                                    *)
Approve(t) == LET d == request[t].id IN
  /\ Writing(t, "approve")
  /\ document[d].status = "open"
  /\ document' = [document EXCEPT ![d].status = "approved"]
  /\ Register(d)
  /\ journal' = [b \in Books |-> journal[b] \cup (IF b \in PostingTo(d) THEN {Voucher(d)} ELSE {})]
  /\ recorded' = IF document[d].kind \in Moves
                   THEN [recorded EXCEPT ![d] = {x \in Documents : recorded[x] # {}} \cup {d}]
                   ELSE recorded
  /\ UNCHANGED <<opening, derived>>
  /\ StockAllows(d, PostingTo(d))

(* apply of an unapproval.                                                  *)
Unapprove(t) == LET d == request[t].id IN
  /\ Writing(t, "unapprove")
  /\ document[d].status = "approved"
  /\ document' = [document EXCEPT ![d].status = "open"]
  /\ Deregister(d)
  /\ journal' = [b \in Books |-> journal[b] \ {Voucher(d)}]
  /\ recorded' = [x \in Documents |-> IF x = d THEN {} ELSE recorded[x] \ {d}]
  /\ UNCHANGED <<opening, allocated, locked, balances>>
  /\ StockAllows(d, {b \in Books : Voucher(d) \in journal[b]})

-------------------------------------------------------------------------------
(* The openings.  A review holds the row of the control book and the entry. *)
OpeningEntry(b) == [source |-> "OPENING", of |-> NoDocument, month |-> Start[b],
                    amount |-> opening[b].stock]

SubmitOpening(b, adopts, stock) ==
  /\ opening[b].status = "none"
  /\ \A a \in adopts : register[a] # NoDocument
  /\ opening' = [opening EXCEPT ![b] = [status |-> "open", adopts |-> adopts, stock |-> stock]]
  /\ UNCHANGED <<document, register, worth, journal, recorded, derived, request>>

(* persistOpeningFacts: an asset has one value in a book.                   *)
ApproveOpening(b) ==
  /\ RowFree(Control) /\ OpeningFree(b)
  /\ opening[b].status = "open"
  /\ \A a \in opening[b].adopts : register[a] # NoDocument /\ ~ worth[b][a].held
  /\ opening' = [opening EXCEPT ![b].status = "approved"]
  /\ journal' = [journal EXCEPT ![b] = @ \cup {OpeningEntry(b)}]
  /\ worth' = [worth EXCEPT ![b] = [a \in Documents |-> IF a \in opening[b].adopts
                 THEN [held |-> TRUE, basis |-> TRUE, spent |-> 0] ELSE worth[b][a]]]
  /\ UNCHANGED <<document, register, recorded, derived, request>>

(* deleteOpeningFacts.                                                      *)
UnapproveOpening(b) ==
  /\ RowFree(Control) /\ OpeningFree(b)
  /\ opening[b].status = "approved"
  /\ journal[b] = {OpeningEntry(b)}
  /\ locked[b] = {}
  /\ opening' = [opening EXCEPT ![b].status = "open"]
  /\ journal' = [journal EXCEPT ![b] = {}]
  /\ worth' = [worth EXCEPT ![b] = [a \in Documents |->
                 IF a \in opening[b].adopts THEN NoWorth ELSE worth[b][a]]]
  /\ UNCHANGED <<document, register, recorded, derived, request>>

DeleteOpening(b) ==
  /\ RowFree(Control) /\ OpeningFree(b)
  /\ opening[b].status = "open"
  /\ opening' = [opening EXCEPT ![b] = NoOpening]
  /\ UNCHANGED <<document, register, worth, journal, recorded, derived, request>>

-------------------------------------------------------------------------------
(* Months.  The first step takes the row of the book, and the entry of its  *)
(* opening, and validates; the second settles and commits.                  *)
IsNext(b, m)   == IF m = Start[b] THEN locked[b] = {}
                  ELSE m - 1 \in locked[b] /\ \A n \in locked[b] : n < m
IsLocked(b, m) == m \in locked[b]   \* What if any month could be unlocked?
IsLatest(b, m) == m \in locked[b] /\ \A n \in locked[b] : n <= m

(* validatePeriodLock.                                                      *)
MayLock(b, m) ==
  /\ IsNext(b, m)
  /\ opening[b].status = "approved"
  /\ \A d \in Documents : document[d].month = m => document[d].status # "open"

TakeRow(t) == LET r == request[t] IN
  /\ r.stage = "month" /\ r.op \in {"lock", "unlock"}
  /\ RowFree(r.book)
  /\ IF r.op = "lock" THEN MayLock(r.book, r.month) ELSE IsLatest(r.book, r.month)
  /\ request' = [request EXCEPT ![t].stage = "row"]
  /\ UNCHANGED <<facts, derived>>

(* settleInventoryCost: stock there when it leaves, none missing at the end.*)
CostBasis(b, m) ==
  /\ Progresses(b, m)
  /\ \A d \in Rows(b, m) : document[d].kind = "issue" => Before(b, d) > 0
  /\ Stock(b, m) >= 0

Costed(b, m) == [d \in Documents |-> IF d \in Rows(b, m) THEN Through(b, d) ELSE {}]
Costs(b, m)  == {[source |-> "COST_SETTLEMENT", of |-> d, month |-> m, amount |-> 0] :
                   d \in {x \in Rows(b, m) : document[x].kind = "issue" /\ document[x].month = m}}

(* settleDepreciation: what of an asset is worn off in a month, from what   *)
(* was worn off before; nothing is written where that is zero.              *)
DisposedBefore(a, m) == register[a] \in Documents \ {a} /\ document[register[a]].month < m
Due(b, a, m, spent) ==
  LET age == m - document[a].month IN
  IF ~ worth[b][a].basis \/ age <= 0 \/ DisposedBefore(a, m) THEN 0
  ELSE IF age >= Life \/ Life - spent < 1 THEN Life - spent
  ELSE 1

Wear(b, m) == [a \in Documents |-> Due(b, a, m, worth[b][a].spent)]
Depreciated(wear, m) ==
  {[source |-> "DEPRECIATION", of |-> a, month |-> m, amount |-> wear[a]] :
     a \in {x \in Documents : wear[x] # 0}}

UpTo(entries, m) == {e \in entries : e.month <= m}

Lock(t) == LET b == request[t].book  m == request[t].month IN
  /\ request[t].stage = "row" /\ request[t].op = "lock"
  /\ CostBasis(b, m)
  /\ allocated' = [allocated EXCEPT ![b][m] = Costed(b, m)]
  /\ depreciation' = [depreciation EXCEPT ![b] =
       [a \in Documents |-> [depreciation[b][a] EXCEPT ![m] = Wear(b, m)[a]]]]
  /\ worth' = [worth EXCEPT ![b] =
       [a \in Documents |-> [worth[b][a] EXCEPT !.spent = @ + Wear(b, m)[a]]]]
  /\ journal' = [journal EXCEPT ![b] = @ \cup Costs(b, m) \cup Depreciated(Wear(b, m), m)]
  /\ balances' = [balances EXCEPT ![b][m] = UpTo(journal'[b], m)]
  /\ locked' = [locked EXCEPT ![b] = @ \cup {m}]
  /\ End(t)
  /\ UNCHANGED <<document, register, opening, recorded>>

(* What the books hold as worn off in a month.                              *)
Worn(b, m) == [a \in Documents |-> depreciation[b][a][m]]

(* removeDepreciation: the values get back what is removed.  What if not?   *)
NotRestored(b, m) == worth[b]
Restored(b, m) ==
  [a \in Documents |-> [worth[b][a] EXCEPT !.spent = @ - Worn(b, m)[a]]]

(* removeInventoryCost, removeDepreciation, deletePeriodBalances.           *)
Unlock(t) == LET b == request[t].book  m == request[t].month IN
  /\ request[t].stage = "row" /\ request[t].op = "unlock"
  /\ allocated' = [allocated EXCEPT ![b][m] = NoCost]
  /\ depreciation' = [depreciation EXCEPT ![b] =
       [a \in Documents |-> [depreciation[b][a] EXCEPT ![m] = 0]]]
  /\ worth' = [worth EXCEPT ![b] = Restored(b, m)]
  /\ journal' = [journal EXCEPT ![b] =
       {e \in @ : ~ (e.source = "COST_SETTLEMENT" /\ e.month = m)} \ Depreciated(Worn(b, m), m)]
  /\ balances' = [balances EXCEPT ![b][m] = {}]
  /\ locked' = [locked EXCEPT ![b] = @ \ {m}]
  /\ End(t)
  /\ UNCHANGED <<document, register, opening, recorded>>

-------------------------------------------------------------------------------
Next ==
  \/ \E t \in Requests :
       \/ Submit(t) \/ Delete(t) \/ Approve(t) \/ Unapprove(t)
       \/ TakeRow(t) \/ Lock(t) \/ Unlock(t) \/ Refuse(t)
  \/ \E t \in Requests, d \in Documents, k \in Kinds, m \in Months, a \in Documents \cup {NoDocument} :
       BeginSubmit(t, d, k, m, a)
  \/ \E t \in Requests, d \in Documents, op \in {"approve", "unapprove", "delete"} : BeginReview(t, d, op)
  \/ \E t \in Requests, b \in Books, m \in Months, op \in {"lock", "unlock"} : BeginPeriod(t, b, m, op)
  \/ \E b \in Books : \/ ApproveOpening(b) \/ UnapproveOpening(b) \/ DeleteOpening(b)
                      \/ \E s \in OpeningStock, adopts \in SUBSET (IF OpeningAdopts THEN Documents ELSE {}) :
                           SubmitOpening(b, adopts, s)

Spec == Init /\ [][Next]_vars

-------------------------------------------------------------------------------
(* A closed month stands: the balances it was closed with are still those   *)
(* of the journal, whatever documents, openings and other months do.        *)
ClosedMonthsStand ==
  \A b \in Books : \A m \in locked[b] : balances[b][m] = UpTo(journal[b], m)

(* While any book has a month closed, no document of the month is open:     *)
(* none is submitted, or unapproved, behind the closing.                    *)
ClosedMonthsComplete ==
  \A d \in Documents : document[d].status = "open" => ~ Closed(document[d].month)

(* Months are closed without a gap from the start of the book, and only     *)
(* over an approved opening, without which nothing is in the journal.       *)
OrderlyClosing ==
  \A b \in Books :
    /\ \A m \in locked[b] : Start[b] <= m /\ \A n \in Start[b]..m : n \in locked[b]
    /\ opening[b].status # "approved" => journal[b] = {} /\ locked[b] = {}

(* What was worn off, and costed, in a closed month is what closing it      *)
(* again would give: nothing it was computed from has changed since.        *)
WornBefore(b, a, m) == SumFunctionOnSet(depreciation[b][a], 1..(m - 1))

ClosedMonthsReproducible == \A b \in Books : \A m \in locked[b] :
  /\ allocated[b][m] = Costed(b, m)
  /\ {e \in journal[b] : e.source = "DEPRECIATION" /\ e.month = m}
       = Depreciated([a \in Documents |-> Due(b, a, m, WornBefore(b, a, m))], m)

(* The stock of the control book never went short, and neither did that of  *)
(* any book in a month it has closed, whatever was withdrawn since.         *)
StockStands ==
  /\ Progresses(Control, LastMonth)
  /\ \A b \in Books : \A m \in locked[b] : CostBasis(b, m)

(* An asset is out of use exactly while the one document that disposed of   *)
(* it is approved, and in the register while its acquisition is.            *)
AssetsAccountedFor ==
  \A a \in Documents :
    /\ register[a] = NoDocument <=>
         ~ (document[a].status = "approved" /\ document[a].kind = "acquire")
    /\ \A d \in Documents \ {a} :
         register[a] = d <=> /\ document[d].status = "approved" /\ document[d].kind = "dispose"
                             /\ document[d].asset = a

(* What a book holds as worn off an asset is what its closed months wore    *)
(* off, and never more than the asset's life.                               *)
WearAddsUp ==
  \A b \in Books : \A a \in Documents :
    /\ worth[b][a].spent = WornBefore(b, a, LastMonth + 1)
    /\ worth[b][a].spent \in 0..Life
    /\ \A m \in Months \ locked[b] : depreciation[b][a][m] = 0
===============================================================================
