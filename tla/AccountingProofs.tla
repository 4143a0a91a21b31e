--------------------------- MODULE AccountingProofs ---------------------------
(***************************************************************************)
(* Proofs about Accounting: whatever is under way, in however many books    *)
(* and months, months are closed in order over an approved opening, no      *)
(* document is left open behind a closed month, and its balances stand.     *)
(*                                                                           *)
(* The months are the crux.  A document writes into books whose start is    *)
(* not after its month and none of which has closed it; since months are    *)
(* closed without a gap, every month such a book has closed is earlier, so  *)
(* its balances do not see the document.  A month that is closed or         *)
(* reopened is the first that is open or the last that is closed.           *)
(***************************************************************************)
EXTENDS Accounting, FiniteSums, TLAPS

USE AccountingAssumption

-------------------------------------------------------------------------------
(* What holds of the requests under way, and of what they have validated.   *)

RequestRow == [stage    : {"idle", "month", "row"},
               op       : {"none", "submit", "approve", "unapprove", "delete", "lock", "unlock"},
               document : DocumentRow,
               id       : Documents \cup {NoDocument},
               book     : Books \cup {NoBook},
               month    : Months]

Shape ==
  /\ document \in [Documents -> DocumentRow]
  /\ opening \in [Books -> [status : {"none", "open", "approved"},
                            adopts : SUBSET Documents, stock : Int]]
  /\ locked \in [Books -> SUBSET Months]
  /\ DOMAIN journal = Books /\ DOMAIN balances = Books
  /\ \A b \in Books : DOMAIN balances[b] = Months
  /\ request \in [Requests -> RequestRow]

(* A request knows what it is about.                                        *)
Purposeful(r) ==
  r.stage # "idle" =>
    /\ r.op = "submit" => /\ r.id \in Documents
                          /\ r.document.status = "open" /\ r.document.month = r.month
    /\ r.op \in {"approve", "unapprove", "delete"} =>
         r.id \in Documents /\ document[r.id].status # "none" /\ document[r.id].month = r.month
    /\ r.op \in {"lock", "unlock"} =>
         r.book \in Books /\ r.month \in Months /\ Start[r.book] <= r.month
    /\ r.stage = "row" => r.op \in {"lock", "unlock"}

Purposes == \A t \in Requests : Purposeful(request[t])

IdleMeansIdle == \A t \in Requests : request[t].stage = "idle" => request[t] = Idle

MonthsHeld ==
  \A t, u \in Requests : t # u /\ request[t].stage # "idle" /\ request[u].stage # "idle" =>
    request[t].month # request[u].month

RowsHeld ==
  \A t, u \in Requests : t # u /\ request[t].stage = "row" /\ request[u].stage = "row" =>
    request[t].book # request[u].book

(* What was validated under the row still holds when it is acted upon.      *)
Validated ==
  \A t \in Requests : request[t].stage = "row" =>
    /\ request[t].op = "lock" => MayLock(request[t].book, request[t].month)
    /\ request[t].op = "unlock" => IsLatest(request[t].book, request[t].month)

JournalDated ==
  \A b \in Books : \A e \in journal[b] : e.month \in Nat /\ Start[b] <= e.month

-------------------------------------------------------------------------------
(* The shapes of the variables.                                             *)

LEMMA IdleShaped == Idle \in RequestRow /\ Idle.stage = "idle" /\ NoDoc \in DocumentRow
  BY DEF Idle, NoDoc, RequestRow, DocumentRow, Kinds, Months

LEMMA BeginShaped ==
  ASSUME Shape, NEW t \in Requests, NEW r \in RequestRow, Begin(t, r)
  PROVE  Shape'
  BY DEF Shape, Begin, facts, derived

LEMMA SubmitBegins ==
  ASSUME Shape, NEW t \in Requests, NEW d \in Documents, NEW k \in Kinds, NEW m \in Months,
         NEW a \in Documents \cup {NoDocument}, BeginSubmit(t, d, k, m, a)
  PROVE  \E r \in RequestRow : /\ Begin(t, r)
                               /\ r.stage = "month" /\ r.op = "submit" /\ r.month = m
                               /\ r.id = d /\ r.document.status = "open" /\ r.document.month = m
<1> DEFINE r == [Idle EXCEPT !.stage = "month", !.op = "submit", !.id = d, !.month = m,
                    !.document = [status |-> "open", kind |-> k, month |-> m, asset |-> a]]
<1> m \in Nat
  BY DEF Months
<1>1. r \in RequestRow
  BY IdleShaped DEF RequestRow, DocumentRow
<1>2. /\ r.stage = "month" /\ r.op = "submit" /\ r.month = m
      /\ r.id = d /\ r.document.status = "open" /\ r.document.month = m
  BY DEF Idle
<1>3. Begin(t, r)
  BY DEF BeginSubmit
<1> QED
  BY <1>1, <1>2, <1>3

LEMMA ReviewBegins ==
  ASSUME Shape, NEW t \in Requests, NEW d \in Documents,
         NEW op \in {"approve", "unapprove", "delete"}, BeginReview(t, d, op)
  PROVE  \E r \in RequestRow : /\ Begin(t, r)
                               /\ r.stage = "month" /\ r.op = op /\ r.id = d
                               /\ r.month = document[d].month /\ document[d].status # "none"
<1> DEFINE r == [Idle EXCEPT !.stage = "month", !.op = op, !.id = d, !.month = document[d].month]
<1>1. r \in RequestRow
  BY IdleShaped DEF RequestRow, DocumentRow, Shape
<1>2. r.stage = "month" /\ r.op = op /\ r.id = d /\ r.month = document[d].month
  BY DEF Idle
<1>3. Begin(t, r) /\ document[d].status # "none"
  BY DEF BeginReview
<1> QED
  BY <1>1, <1>2, <1>3

LEMMA PeriodBegins ==
  ASSUME Shape, NEW t \in Requests, NEW b \in Books, NEW m \in Months,
         NEW op \in {"lock", "unlock"}, BeginPeriod(t, b, m, op)
  PROVE  \E r \in RequestRow : /\ Begin(t, r)
                               /\ r.stage = "month" /\ r.op = op /\ r.book = b
                               /\ r.month = m /\ Start[b] <= m
<1> DEFINE r == [Idle EXCEPT !.stage = "month", !.op = op, !.book = b, !.month = m]
<1> m \in Nat
  BY DEF Months
<1>1. r \in RequestRow
  BY IdleShaped DEF RequestRow, DocumentRow
<1>2. r.stage = "month" /\ r.op = op /\ r.book = b /\ r.month = m
  BY DEF Idle
<1>3. Begin(t, r) /\ Start[b] <= m
  BY DEF BeginPeriod, Months
<1> QED
  BY <1>1, <1>2, <1>3

LEMMA ShapeStep == Shape /\ Purposes /\ [Next]_vars => Shape'
<1> SUFFICES ASSUME Shape, Purposes, [Next]_vars PROVE Shape'
  OBVIOUS
<1> USE IdleShaped
<1>1. CASE UNCHANGED vars
  BY <1>1 DEF vars, facts, derived, Shape
<1>2. ASSUME NEW t \in Requests, Submit(t) PROVE Shape'
  <2>1. request[t].document \in DocumentRow
    BY DEF Shape, RequestRow
  <2> QED
    BY <1>2, <2>1 DEF Submit, Writing, End, Shape, derived
<1>3. ASSUME NEW t \in Requests, Delete(t) PROVE Shape'
  BY <1>3 DEF Delete, Writing, End, Shape, derived
<1>4. ASSUME NEW t \in Requests, Approve(t) PROVE Shape'
  <2>1. document' \in [Documents -> DocumentRow]
    BY <1>4 DEF Approve, Shape, DocumentRow
  <2> QED
    BY <1>4, <2>1 DEF Approve, Writing, End, Shape, derived
<1>5. ASSUME NEW t \in Requests, Unapprove(t) PROVE Shape'
  <2>1. document' \in [Documents -> DocumentRow]
    BY <1>5 DEF Unapprove, Shape, DocumentRow
  <2> QED
    BY <1>5, <2>1 DEF Unapprove, Writing, End, Shape
<1>6. ASSUME NEW t \in Requests, TakeRow(t) PROVE Shape'
  <2>1. request' \in [Requests -> RequestRow]
    BY <1>6 DEF TakeRow, Shape, RequestRow
  <2> QED
    BY <1>6, <2>1 DEF TakeRow, Shape, facts, derived
<1>7. ASSUME NEW t \in Requests, Lock(t) PROVE Shape'
  <2>1. request[t].month \in Months
    BY <1>7 DEF Lock, Purposes, Purposeful
  <2>2. locked' \in [Books -> SUBSET Months]
    BY <1>7, <2>1 DEF Lock, Shape
  <2>3. request' \in [Requests -> RequestRow]
    BY <1>7 DEF Lock, End, Shape
  <2>4. /\ DOMAIN journal' = Books /\ DOMAIN balances' = Books
        /\ \A b \in Books : DOMAIN balances'[b] = Months
    BY <1>7 DEF Lock, Shape
  <2> QED
    BY <1>7, <2>2, <2>3, <2>4 DEF Lock, Shape
<1>8. ASSUME NEW t \in Requests, Unlock(t) PROVE Shape'
  <2>1. locked' \in [Books -> SUBSET Months]
    BY <1>8 DEF Unlock, Shape
  <2>2. request' \in [Requests -> RequestRow]
    BY <1>8 DEF Unlock, End, Shape
  <2>3. /\ DOMAIN journal' = Books /\ DOMAIN balances' = Books
        /\ \A b \in Books : DOMAIN balances'[b] = Months
    BY <1>8 DEF Unlock, Shape
  <2> QED
    BY <1>8, <2>1, <2>2, <2>3 DEF Unlock, Shape
<1>9. ASSUME NEW t \in Requests, Refuse(t) PROVE Shape'
  BY <1>9 DEF Refuse, End, Shape, facts, derived
<1>10. ASSUME NEW b \in Books, ApproveOpening(b) \/ UnapproveOpening(b) \/ DeleteOpening(b)
       PROVE Shape'
  <2> DEFINE OpeningRow == [status : {"none", "open", "approved"},
                            adopts : SUBSET Documents, stock : Int]
  <2>1. ASSUME ApproveOpening(b) \/ UnapproveOpening(b)
        PROVE  opening' \in [Books -> OpeningRow]
    <3>1. \E s \in {"open", "approved"} : opening' = [opening EXCEPT ![b].status = s]
      BY <2>1 DEF ApproveOpening, UnapproveOpening
    <3> QED
      BY <3>1 DEF Shape
  <2>2. ASSUME DeleteOpening(b) PROVE opening' \in [Books -> OpeningRow]
    <3>1. NoOpening \in OpeningRow
      BY DEF NoOpening
    <3> QED
      BY <2>2, <3>1 DEF DeleteOpening, Shape
  <2> QED
    BY <1>10, <2>1, <2>2 DEF ApproveOpening, UnapproveOpening, DeleteOpening, Shape, derived
<1>11. ASSUME NEW b \in Books, NEW s \in OpeningStock, NEW adopts \in SUBSET Documents,
              SubmitOpening(b, adopts, s)
       PROVE Shape'
  BY <1>11 DEF SubmitOpening, Shape, derived
<1>12. ASSUME NEW t \in Requests, NEW r \in RequestRow, Begin(t, r) PROVE Shape'
  BY <1>12, BeginShaped
<1> QED
  BY <1>1, <1>2, <1>3, <1>4, <1>5, <1>6, <1>7, <1>8, <1>9, <1>10, <1>11, <1>12,
     SubmitBegins, ReviewBegins, PeriodBegins DEF Next
-------------------------------------------------------------------------------
(* Requests hold different months, and those in a row different books.      *)

HeldInv == IdleMeansIdle /\ MonthsHeld /\ RowsHeld

LEMMA RequestMoves ==
  ASSUME Shape, [Next]_vars
  PROVE  \/ UNCHANGED request
         \/ \E t \in Requests : End(t)
         \/ \E t \in Requests : TakeRow(t)
         \/ \E t \in Requests : \E r \in RequestRow : Begin(t, r) /\ r.stage = "month"
<1>1. CASE UNCHANGED vars
  BY <1>1 DEF vars
<1>2. ASSUME NEW t \in Requests,
             Submit(t) \/ Delete(t) \/ Approve(t) \/ Unapprove(t) \/ Lock(t) \/ Unlock(t) \/ Refuse(t)
      PROVE  End(t)
  BY <1>2 DEF Submit, Delete, Approve, Unapprove, Lock, Unlock, Refuse, Writing
<1>3. ASSUME NEW b \in Books,
             \/ ApproveOpening(b) \/ UnapproveOpening(b) \/ DeleteOpening(b)
             \/ \E s \in OpeningStock, adopts \in SUBSET (IF OpeningAdopts THEN Documents ELSE {}) :
                  SubmitOpening(b, adopts, s)
      PROVE  UNCHANGED request
  BY <1>3 DEF ApproveOpening, UnapproveOpening, DeleteOpening, SubmitOpening
<1> QED
  BY <1>1, <1>2, <1>3, SubmitBegins, ReviewBegins, PeriodBegins DEF Next

LEMMA HeldStep == Shape /\ HeldInv /\ [Next]_vars => HeldInv'
<1> SUFFICES ASSUME Shape, HeldInv, [Next]_vars PROVE HeldInv'
  OBVIOUS
<1>1. CASE UNCHANGED request
  BY <1>1 DEF HeldInv, IdleMeansIdle, MonthsHeld, RowsHeld
<1>2. ASSUME NEW t \in Requests, End(t) PROVE HeldInv'
  BY <1>2, IdleShaped DEF HeldInv, IdleMeansIdle, MonthsHeld, RowsHeld, End, Shape
<1>3. ASSUME NEW t \in Requests, TakeRow(t) PROVE HeldInv'
  <2>1. \A u \in Requests : /\ request'[u].month = request[u].month
                            /\ request'[u].book = request[u].book
                            /\ u # t => request'[u] = request[u]
    BY <1>3 DEF TakeRow, Shape, RequestRow
  <2>2. request[t].stage = "month" /\ request'[t].stage = "row"
    BY <1>3 DEF TakeRow, Shape, RequestRow
  <2>3. \A u \in Requests : request[u].stage = "row" => request[u].book # request[t].book
    BY <1>3 DEF TakeRow, RowFree
  <2>4. IdleMeansIdle' /\ MonthsHeld'
    BY <2>1, <2>2 DEF HeldInv, IdleMeansIdle, MonthsHeld
  <2>5. RowsHeld'
    BY <2>1, <2>2, <2>3 DEF HeldInv, RowsHeld
  <2> QED
    BY <2>4, <2>5 DEF HeldInv
<1>4. ASSUME NEW t \in Requests, NEW r \in RequestRow, Begin(t, r), r.stage = "month"
      PROVE  HeldInv'
  <2>1. \A u \in Requests : request'[u] = IF u = t THEN r ELSE request[u]
    BY <1>4 DEF Begin, Shape
  <2>2. \A u \in Requests : request[u].stage # "idle" => request[u].month # r.month
    BY <1>4, IdleShaped DEF Begin, MonthFree
  <2> QED
    BY <1>4, <2>1, <2>2 DEF HeldInv, IdleMeansIdle, MonthsHeld, RowsHeld
<1> QED
  BY <1>1, <1>2, <1>3, <1>4, RequestMoves

-------------------------------------------------------------------------------
(* What a request is about does not change under it: whoever changes its    *)
(* document holds the same month.                                           *)

LEMMA OtherDocuments ==
  ASSUME Shape, Purposes, MonthsHeld, NEW t \in Requests, NEW u \in Requests, t # u,
         request[t].stage # "idle", request[u].stage # "idle",
         request[t].op \in {"approve", "unapprove", "delete"},
         request[u].op \in {"approve", "unapprove", "delete"}
  PROVE  request[t].id # request[u].id
  BY DEF Purposes, Purposeful, MonthsHeld

LEMMA EndPurposes ==
  ASSUME Shape, Purposes, NEW t \in Requests, End(t),
         \A u \in Requests \ {t} :
           request[u].stage # "idle" /\ request[u].op \in {"approve", "unapprove", "delete"} =>
             /\ document'[request[u].id].status = "none" <=> document[request[u].id].status = "none"
             /\ document'[request[u].id].month = document[request[u].id].month
  PROVE  Purposes'
<1> SUFFICES ASSUME NEW u \in Requests PROVE Purposeful(request[u])'
  BY DEF Purposes
<1>1. CASE u = t
  BY <1>1, IdleShaped DEF End, Purposeful, Shape
<1>2. CASE u # t
  <2>1. request'[u] = request[u] /\ Purposeful(request[u])
    BY <1>2 DEF End, Shape, Purposes
  <2> QED
    BY <1>2, <2>1 DEF Purposeful
<1> QED
  BY <1>1, <1>2

LEMMA PurposeStep == Shape /\ HeldInv /\ Purposes /\ [Next]_vars => Purposes'
<1> SUFFICES ASSUME Shape, HeldInv, Purposes, [Next]_vars PROVE Purposes'
  OBVIOUS
<1> USE DEF HeldInv
<1>1. CASE UNCHANGED <<document, request>>
  BY <1>1 DEF Purposes, Purposeful
<1>2. ASSUME NEW t \in Requests, Submit(t) PROVE Purposes'
  <2>1. \A u \in Requests :
          request[u].stage # "idle" /\ request[u].op \in {"approve", "unapprove", "delete"} =>
            request[u].id # request[t].id
    BY <1>2 DEF Submit, Purposes, Purposeful
  <2>2. \A d \in Documents : d # request[t].id => document'[d] = document[d]
    BY <1>2 DEF Submit, Shape
  <2> QED
    BY <1>2, <2>1, <2>2, EndPurposes DEF Submit, Writing, Purposes, Purposeful
<1>3. ASSUME NEW t \in Requests, Delete(t) PROVE Purposes'
  <2>1. request[t].stage # "idle" /\ request[t].op = "delete"
    BY <1>3 DEF Delete, Writing
  <2>2. \A d \in Documents : d # request[t].id => document'[d] = document[d]
    BY <1>3 DEF Delete, Shape
  <2> QED
    BY <1>3, <2>1, <2>2, OtherDocuments, EndPurposes DEF Delete, Writing, Purposes, Purposeful
<1>4. ASSUME NEW t \in Requests, Approve(t) \/ Unapprove(t) PROVE Purposes'
  <2>1. \A d \in Documents : /\ document'[d].month = document[d].month
                             /\ document'[d].status = "none" <=> document[d].status = "none"
    <3>1. ASSUME NEW s \in {"open", "approved"}, document[request[t].id].status # "none",
                 document' = [document EXCEPT ![request[t].id].status = s]
          PROVE  \A d \in Documents : /\ document'[d].month = document[d].month
                                       /\ document'[d].status = "none" <=> document[d].status = "none"
      <4>1. \A d \in Documents : document[d] \in DocumentRow
        BY DEF Shape
      <4> QED
        BY <3>1, <4>1 DEF Shape, DocumentRow
    <3>2. CASE Approve(t)
      <4>1. /\ document[request[t].id].status # "none"
            /\ document' = [document EXCEPT ![request[t].id].status = "approved"]
        BY <3>2 DEF Approve
      <4> QED
        BY <3>1, <4>1
    <3>3. CASE Unapprove(t)
      <4>1. /\ document[request[t].id].status # "none"
            /\ document' = [document EXCEPT ![request[t].id].status = "open"]
        BY <3>3 DEF Unapprove
      <4> QED
        BY <3>1, <4>1
    <3> QED
      BY <1>4, <3>2, <3>3
  <2> QED
    BY <1>4, <2>1, EndPurposes DEF Approve, Unapprove, Writing, Purposes, Purposeful
<1>5. ASSUME NEW t \in Requests, TakeRow(t) PROVE Purposes'
  <2>1. request[t].op \in {"lock", "unlock"} /\ UNCHANGED document
    BY <1>5 DEF TakeRow, facts
  <2>2. \A u \in Requests : u # t => request'[u] = request[u]
    BY <1>5 DEF TakeRow, Shape
  <2>3. request[t].stage = "month" /\ request' = [request EXCEPT ![t].stage = "row"]
    BY <1>5 DEF TakeRow
  <2>4. Purposeful(request[t])'
    BY <2>1, <2>3 DEF Purposes, Purposeful, Shape, RequestRow
  <2> QED
    BY <2>1, <2>2, <2>4 DEF Purposes, Purposeful
<1>6. ASSUME NEW t \in Requests, Lock(t) \/ Unlock(t) \/ Refuse(t) PROVE Purposes'
  BY <1>6, EndPurposes DEF Lock, Unlock, Refuse, facts
<1>7. ASSUME NEW t \in Requests, NEW r \in RequestRow, Begin(t, r), Purposeful(r) PROVE Purposes'
  <2>1. UNCHANGED document /\ \A u \in Requests : request'[u] = IF u = t THEN r ELSE request[u]
    BY <1>7 DEF Begin, Shape, facts
  <2> QED
    BY <1>7, <2>1 DEF Purposes, Purposeful
<1>8. ASSUME NEW t \in Requests, NEW d \in Documents, NEW k \in Kinds, NEW m \in Months,
             NEW a \in Documents \cup {NoDocument}, BeginSubmit(t, d, k, m, a)
      PROVE  Purposes'
  BY <1>7, <1>8, SubmitBegins DEF Purposeful
<1>9. ASSUME NEW t \in Requests, NEW d \in Documents,
             NEW op \in {"approve", "unapprove", "delete"}, BeginReview(t, d, op)
      PROVE  Purposes'
  BY <1>7, <1>9, ReviewBegins DEF Purposeful
<1>10. ASSUME NEW t \in Requests, NEW b \in Books, NEW m \in Months,
              NEW op \in {"lock", "unlock"}, BeginPeriod(t, b, m, op)
       PROVE  Purposes'
  BY <1>7, <1>10, PeriodBegins DEF Purposeful
<1>11. ASSUME NEW b \in Books,
              \/ ApproveOpening(b) \/ UnapproveOpening(b) \/ DeleteOpening(b)
              \/ \E s \in OpeningStock, adopts \in SUBSET (IF OpeningAdopts THEN Documents ELSE {}) :
                   SubmitOpening(b, adopts, s)
       PROVE  UNCHANGED <<document, request>>
  BY <1>11 DEF ApproveOpening, UnapproveOpening, DeleteOpening, SubmitOpening
<1>12. CASE UNCHANGED vars
  BY <1>1, <1>12 DEF vars, facts
<1> QED
  BY <1>1, <1>2, <1>3, <1>4, <1>5, <1>6, <1>8, <1>9, <1>10, <1>11, <1>12 DEF Next
-------------------------------------------------------------------------------
(* Writing into a month that no book has closed.                            *)

BookInv == JournalDated /\ OrderlyClosing /\ ClosedMonthsStand

(* The months such a book has closed are all earlier.                       *)
LEMMA ClosedEarlier ==
  ASSUME Shape, OrderlyClosing, NEW b \in Books, NEW m \in Nat, Start[b] <= m, ~ Closed(m)
  PROVE  \A n \in locked[b] : n < m
<1> SUFFICES ASSUME NEW n \in locked[b], ~ (n < m) PROVE FALSE
  OBVIOUS
<1>1. n \in Nat /\ Start[b] \in Nat
  BY DEF Shape, Months
<1>2. m \in Start[b]..n
  BY <1>1
<1>3. m \in locked[b]
  BY <1>2 DEF OrderlyClosing
<1> QED
  BY <1>3 DEF Closed

(* Entries of a later month change no balance.                              *)
LEMMA LaterEntries ==
  ASSUME NEW js, NEW ks, NEW m \in Int, NEW n \in Int, n < m,
         \A e : (e \in js /\ e \notin ks) \/ (e \in ks /\ e \notin js) => e.month = m
  PROVE  UpTo(js, n) = UpTo(ks, n)
<1>1. \A e \in js : e.month <= n => e \in ks
  OBVIOUS
<1>2. \A e \in ks : e.month <= n => e \in js
  OBVIOUS
<1> QED
  BY <1>1, <1>2 DEF UpTo

LEMMA WritingKeeps ==
  ASSUME Shape, BookInv, NEW m \in Nat, ~ Closed(m),
         UNCHANGED <<locked, balances, opening>>,
         \A b \in Books : \A e :
           (e \in journal'[b] /\ e \notin journal[b]) \/ (e \in journal[b] /\ e \notin journal'[b]) =>
             e.month = m /\ Start[b] <= m /\ opening[b].status = "approved"
  PROVE  BookInv'
<1>1. JournalDated'
  BY DEF BookInv, JournalDated
<1>2. OrderlyClosing'
  <2> SUFFICES ASSUME NEW b \in Books, opening[b].status # "approved" PROVE journal'[b] = {}
    BY DEF BookInv, OrderlyClosing
  <2>1. journal[b] = {}
    BY DEF BookInv, OrderlyClosing
  <2> QED
    BY <2>1
<1>3. ClosedMonthsStand'
  <2> SUFFICES ASSUME NEW b \in Books, NEW n \in locked[b]
               PROVE  UpTo(journal'[b], n) = UpTo(journal[b], n)
    BY DEF BookInv, ClosedMonthsStand
  <2>1. n \in Int
    BY DEF Shape, Months
  <2>2. CASE journal'[b] = journal[b]
    BY <2>2
  <2>3. CASE journal'[b] # journal[b]
    <3>1. PICK e : (e \in journal'[b] /\ e \notin journal[b]) \/ (e \in journal[b] /\ e \notin journal'[b])
      BY <2>3
    <3>2. Start[b] <= m
      BY <3>1
    <3>3. n < m
      BY <3>2, ClosedEarlier DEF BookInv
    <3> QED
      BY <2>1, <3>3, LaterEntries
  <2> QED
    BY <2>2, <2>3
<1> QED
  BY <1>1, <1>2, <1>3 DEF BookInv

(* What the operations on documents share.                                  *)
LEMMA WritingOpen ==
  ASSUME Shape, Purposes, NEW t \in Requests, NEW op \in {"submit", "approve", "unapprove", "delete"},
         Writing(t, op)
  PROVE  /\ request[t].month \in Nat /\ ~ Closed(request[t].month)
         /\ request[t].id \in Documents /\ End(t)
         /\ op = "submit" => request[t].document.month = request[t].month
         /\ op # "submit" => document[request[t].id].month = request[t].month
  BY DEF Writing, Purposes, Purposeful, Shape, RequestRow, Months

LEMMA DocumentKeepsBooks ==
  ASSUME Shape, Purposes, BookInv, NEW t \in Requests,
         Submit(t) \/ Delete(t) \/ Approve(t) \/ Unapprove(t)
  PROVE  BookInv'
<1> DEFINE d == request[t].id
<1>1. CASE Submit(t) \/ Delete(t)
  BY <1>1 DEF Submit, Delete, derived, BookInv, JournalDated, OrderlyClosing, ClosedMonthsStand
<1>2. CASE Approve(t)
  <2>1. /\ request[t].month \in Nat /\ ~ Closed(request[t].month)
        /\ d \in Documents /\ document[d].month = request[t].month
    BY <1>2, WritingOpen DEF Approve
  <2>2. UNCHANGED <<locked, balances, opening>>
    BY <1>2 DEF Approve, derived
  <2>3. \A b \in Books : journal'[b] = journal[b] \cup (IF b \in PostingTo(d) THEN {Voucher(d)} ELSE {})
    BY <1>2 DEF Approve
  <2>4. \A b \in PostingTo(d) : Start[b] <= request[t].month /\ opening[b].status = "approved"
    BY <2>1 DEF PostingTo, Applicable
  <2>5. Voucher(d).month = request[t].month
    BY <2>1 DEF Voucher
  <2> HIDE DEF d
  <2> QED
    BY <2>1, <2>2, <2>3, <2>4, <2>5, WritingKeeps
<1>3. CASE Unapprove(t)
  <2>1. /\ request[t].month \in Nat /\ ~ Closed(request[t].month)
        /\ d \in Documents /\ document[d].month = request[t].month
    BY <1>3, WritingOpen DEF Unapprove
  <2>2. UNCHANGED <<locked, balances, opening>>
    BY <1>3 DEF Unapprove
  <2>3. \A b \in Books : journal'[b] = journal[b] \ {Voucher(d)}
    BY <1>3 DEF Unapprove
  <2>4. Voucher(d).month = request[t].month
    BY <2>1 DEF Voucher
  <2>5. \A b \in Books : Voucher(d) \in journal[b] =>
          Start[b] <= request[t].month /\ opening[b].status = "approved"
    BY <2>4 DEF BookInv, JournalDated, OrderlyClosing
  <2> HIDE DEF d
  <2> QED
    BY <2>1, <2>2, <2>3, <2>4, <2>5, WritingKeeps
<1> QED
  BY <1>1, <1>2, <1>3

LEMMA OpeningKeepsBooks ==
  ASSUME Shape, BookInv, NEW b \in Books,
         \/ ApproveOpening(b) \/ UnapproveOpening(b) \/ DeleteOpening(b)
         \/ \E s \in OpeningStock, adopts \in SUBSET (IF OpeningAdopts THEN Documents ELSE {}) :
              SubmitOpening(b, adopts, s)
  PROVE  BookInv'
<1>1. UNCHANGED <<locked, balances>>
  BY DEF ApproveOpening, UnapproveOpening, DeleteOpening, SubmitOpening, derived
<1>2. \A c \in Books \ {b} : opening'[c] = opening[c] /\ journal'[c] = journal[c]
  BY DEF ApproveOpening, UnapproveOpening, DeleteOpening, SubmitOpening, Shape
<1>3. CASE ApproveOpening(b)
  <2>1. locked[b] = {} /\ journal[b] = {}
    BY <1>3 DEF ApproveOpening, BookInv, OrderlyClosing
  <2>2. journal'[b] = {OpeningEntry(b)} /\ opening'[b].status = "approved"
    BY <1>3, <2>1 DEF ApproveOpening, Shape
  <2>3. OpeningEntry(b).month = Start[b]
    BY DEF OpeningEntry
  <2> QED
    BY <1>1, <1>2, <2>1, <2>2, <2>3 DEF BookInv, JournalDated, OrderlyClosing, ClosedMonthsStand
<1>4. CASE UnapproveOpening(b)
  <2>1. locked[b] = {} /\ journal'[b] = {}
    BY <1>4 DEF UnapproveOpening, Shape
  <2> QED
    BY <1>1, <1>2, <2>1 DEF BookInv, JournalDated, OrderlyClosing, ClosedMonthsStand
<1>5. CASE DeleteOpening(b) \/ \E s \in OpeningStock, adopts \in SUBSET (IF OpeningAdopts THEN Documents ELSE {}) :
                                 SubmitOpening(b, adopts, s)
  <2>1. journal' = journal /\ opening[b].status # "approved"
    BY <1>5 DEF DeleteOpening, SubmitOpening
  <2>2. locked[b] = {} /\ journal[b] = {}
    BY <2>1 DEF BookInv, OrderlyClosing
  <2> QED
    BY <1>1, <1>2, <2>1, <2>2 DEF BookInv, JournalDated, OrderlyClosing, ClosedMonthsStand
<1> QED
  BY <1>3, <1>4, <1>5
-------------------------------------------------------------------------------
(* Closing and reopening a month.                                           *)

LEMMA LockFacts ==
  ASSUME Shape, Purposes, Validated, NEW t \in Requests, Lock(t)
  PROVE  LET b == request[t].book  m == request[t].month IN
         /\ b \in Books /\ m \in Months /\ m \in Nat /\ Start[b] \in Nat /\ Start[b] <= m
         /\ MayLock(b, m)
         /\ \A n \in locked[b] : n \in Nat /\ n < m
  <1>1. request[t].book \in Books /\ request[t].month \in Months /\ Start[request[t].book] <= request[t].month
    BY DEF Lock, Purposes, Purposeful
  <1>2. MayLock(request[t].book, request[t].month)
    BY DEF Lock, Validated
  <1>3. \A n \in locked[request[t].book] : n \in Nat
    BY <1>1 DEF Shape, Months
  <1>4. \A n \in locked[request[t].book] : n < request[t].month
    BY <1>1, <1>2, <1>3 DEF MayLock, IsNext
  <1> QED
    BY <1>1, <1>2, <1>3, <1>4 DEF Months

LEMMA LockKeepsBooks ==
  ASSUME Shape, Purposes, Validated, BookInv, NEW t \in Requests, Lock(t)
  PROVE  BookInv'
<1> DEFINE b == request[t].book
           m == request[t].month
           new == Costs(b, m) \cup Depreciated(Wear(b, m), m)
<1>1. /\ b \in Books /\ m \in Months /\ m \in Nat /\ Start[b] \in Nat /\ Start[b] <= m
      /\ MayLock(b, m) /\ \A n \in locked[b] : n \in Nat /\ n < m
  BY LockFacts
<1>2. \A e \in new : e.month = m
  BY DEF Costs, Depreciated
<1>3. /\ \A c \in Books \ {b} : /\ journal'[c] = journal[c] /\ locked'[c] = locked[c]
                                /\ balances'[c] = balances[c]
      /\ UNCHANGED opening
  BY <1>1 DEF Lock, Shape
<1>4. journal'[b] = journal[b] \cup new /\ locked'[b] = locked[b] \cup {m}
  BY <1>1 DEF Lock, Shape
<1>5. /\ balances'[b][m] = UpTo(journal'[b], m)
      /\ \A n \in Months \ {m} : balances'[b][n] = balances[b][n]
  BY <1>1 DEF Lock, Shape
<1>6. locked[b] \subseteq Months
  BY <1>1 DEF Shape
<1> HIDE DEF b, m, new
<1>7. JournalDated'
  BY <1>1, <1>2, <1>3, <1>4 DEF BookInv, JournalDated
<1>8. OrderlyClosing'
  <2>1. opening[b].status = "approved"
    BY <1>1 DEF MayLock
  <2>2. \A n \in locked'[b] : Start[b] <= n /\ \A k \in Start[b]..n : k \in locked'[b]
    <3>1. \A k \in Start[b]..m : k = m \/ k \in locked[b]
      <4>1. CASE m = Start[b]
        BY <4>1, <1>1
      <4>2. CASE m # Start[b]
        <5>1. m - 1 \in locked[b]
          BY <4>2, <1>1 DEF MayLock, IsNext
        <5>2. \A k \in Start[b]..(m - 1) : k \in locked[b]
          BY <5>1, <1>1 DEF BookInv, OrderlyClosing
        <5> QED
          BY <5>2, <1>1
      <4> QED
        BY <4>1, <4>2
    <3> QED
      BY <1>1, <1>4, <3>1 DEF BookInv, OrderlyClosing
  <2> QED
    BY <1>3, <2>1, <2>2 DEF BookInv, OrderlyClosing
<1>9. ClosedMonthsStand'
  <2>1. \A n \in locked[b] : UpTo(journal'[b], n) = UpTo(journal[b], n)
    BY <1>1, <1>2, <1>4, LaterEntries
  <2>2. \A n \in locked[b] : n # m
    BY <1>1
  <2>3. \A n \in locked'[b] : balances'[b][n] = UpTo(journal'[b], n)
    <3>1. \A n \in locked[b] : balances'[b][n] = UpTo(journal[b], n)
      BY <1>1, <1>5, <1>6, <2>2 DEF BookInv, ClosedMonthsStand
    <3> QED
      BY <1>4, <1>5, <2>1, <3>1
  <2>4. \A c \in Books \ {b} : \A n \in locked'[c] : balances'[c][n] = UpTo(journal'[c], n)
    BY <1>3 DEF BookInv, ClosedMonthsStand
  <2> QED
    BY <2>3, <2>4 DEF ClosedMonthsStand
<1> QED
  BY <1>7, <1>8, <1>9 DEF BookInv

LEMMA UnlockFacts ==
  ASSUME Shape, Purposes, Validated, NEW t \in Requests, Unlock(t)
  PROVE  LET b == request[t].book  m == request[t].month IN
         /\ b \in Books /\ m \in Months /\ m \in Nat /\ m \in locked[b]
         /\ \A n \in locked[b] : n \in Nat /\ n <= m
  <1>1. request[t].book \in Books /\ request[t].month \in Months
    BY DEF Unlock, Purposes, Purposeful
  <1>2. IsLatest(request[t].book, request[t].month)
    BY DEF Unlock, Validated
  <1> QED
    BY <1>1, <1>2 DEF IsLatest, Shape, Months

LEMMA UnlockKeepsBooks ==
  ASSUME Shape, Purposes, Validated, BookInv, NEW t \in Requests, Unlock(t)
  PROVE  BookInv'
<1> DEFINE b == request[t].book
           m == request[t].month
           gone == Depreciated(Worn(b, m), m)
<1>1. /\ b \in Books /\ m \in Months /\ m \in Nat /\ m \in locked[b]
      /\ \A n \in locked[b] : n \in Nat /\ n <= m
  BY UnlockFacts
<1>2. /\ \A c \in Books \ {b} : /\ journal'[c] = journal[c] /\ locked'[c] = locked[c]
                                /\ balances'[c] = balances[c]
      /\ UNCHANGED opening
  BY <1>1 DEF Unlock, Shape
<1>3. /\ journal'[b] = {e \in journal[b] : ~ (e.source = "COST_SETTLEMENT" /\ e.month = m)}
                         \ gone
      /\ locked'[b] = locked[b] \ {m}
  BY <1>1 DEF Unlock, Shape
<1>4. \A n \in Months \ {m} : balances'[b][n] = balances[b][n]
  BY <1>1 DEF Unlock, Shape
<1>5. \A e \in gone : e.month = m
  BY DEF Depreciated
<1>6. journal'[b] \subseteq journal[b] /\ \A e \in journal[b] : e \notin journal'[b] => e.month = m
  BY <1>3, <1>5
<1>7. locked[b] \subseteq Months
  BY <1>1 DEF Shape
<1> HIDE DEF b, m, gone
<1>8. JournalDated'
  BY <1>1, <1>2, <1>6 DEF BookInv, JournalDated
<1>9. OrderlyClosing'
  <2>1. \A n \in locked'[b] : Start[b] <= n /\ \A k \in Start[b]..n : k \in locked'[b]
    <3> SUFFICES ASSUME NEW n \in locked'[b]
                 PROVE  Start[b] <= n /\ \A k \in Start[b]..n : k \in locked'[b]
      OBVIOUS
    <3>1. n \in locked[b] /\ n \in Nat /\ n < m /\ Start[b] \in Nat
      BY <1>1, <1>3
    <3>2. Start[b] <= n /\ \A k \in Start[b]..n : k \in locked[b]
      BY <3>1, <1>1 DEF BookInv, OrderlyClosing
    <3> QED
      BY <3>1, <3>2, <1>1, <1>3
  <2>2. opening[b].status = "approved"
    BY <1>1 DEF BookInv, OrderlyClosing
  <2> QED
    BY <1>2, <2>1, <2>2 DEF BookInv, OrderlyClosing
<1>10. ClosedMonthsStand'
  <2>1. \A n \in locked'[b] : n \in locked[b] /\ n \in Nat /\ n < m
    BY <1>1, <1>3
  <2>2. \A n \in locked'[b] : UpTo(journal'[b], n) = UpTo(journal[b], n)
    BY <1>1, <1>6, <2>1, LaterEntries
  <2> QED
    BY <1>1, <1>2, <1>4, <1>7, <2>1, <2>2 DEF BookInv, ClosedMonthsStand
<1> QED
  BY <1>8, <1>9, <1>10 DEF BookInv

LEMMA BookStep ==
  Shape /\ Purposes /\ Validated /\ BookInv /\ [Next]_vars => BookInv'
<1> SUFFICES ASSUME Shape, Purposes, Validated, BookInv, [Next]_vars PROVE BookInv'
  OBVIOUS
<1>1. CASE UNCHANGED <<opening, journal, locked, balances>>
  BY <1>1 DEF BookInv, JournalDated, OrderlyClosing, ClosedMonthsStand
<1>2. CASE UNCHANGED vars
  BY <1>1, <1>2 DEF vars, facts, derived
<1>3. ASSUME NEW t \in Requests, TakeRow(t) \/ Refuse(t)
      PROVE  UNCHANGED <<opening, journal, locked, balances>>
  BY <1>3 DEF TakeRow, Refuse, facts, derived
<1>4. ASSUME NEW t \in Requests, NEW r \in RequestRow, Begin(t, r)
      PROVE  UNCHANGED <<opening, journal, locked, balances>>
  BY <1>4 DEF Begin, facts, derived
<1> QED
  BY <1>1, <1>2, <1>3, <1>4, DocumentKeepsBooks, OpeningKeepsBooks, LockKeepsBooks,
     UnlockKeepsBooks, SubmitBegins, ReviewBegins, PeriodBegins DEF Next
-------------------------------------------------------------------------------
(* No document of a closed month is open.                                   *)

LEMMA DocumentChanges ==
  ASSUME Shape, Purposes, NEW t \in Requests,
         Submit(t) \/ Delete(t) \/ Approve(t) \/ Unapprove(t)
  PROVE  LET d == request[t].id IN
         /\ \A x \in Documents \ {d} : document'[x] = document[x]
         /\ document'[d].status = "open" => document'[d].month = request[t].month
<1> DEFINE d == request[t].id
<1>1. /\ d \in Documents
      /\ request[t].op = "submit" => request[t].document.month = request[t].month
      /\ request[t].op # "submit" => document[d].month = request[t].month
  BY WritingOpen DEF Submit, Delete, Approve, Unapprove, Writing
<1>2. \A x \in Documents \ {d} : document'[x] = document[x]
  BY DEF Submit, Delete, Approve, Unapprove, Shape
<1>3. document'[d].status = "open" => document'[d].month = request[t].month
  <2>1. CASE Submit(t)
    BY <2>1, <1>1 DEF Submit, Writing, Shape
  <2>2. CASE Delete(t)
    BY <2>2, <1>1 DEF Delete, Shape, NoDoc
  <2>3. CASE Approve(t)
    BY <2>3, <1>1 DEF Approve, Writing, Shape, DocumentRow
  <2>4. CASE Unapprove(t)
    BY <2>4, <1>1 DEF Unapprove, Writing, Shape, DocumentRow
  <2> QED
    BY <2>1, <2>2, <2>3, <2>4
<1> QED
  BY <1>2, <1>3

LEMMA CompleteStep ==
  Shape /\ Purposes /\ Validated /\ ClosedMonthsComplete /\ [Next]_vars => ClosedMonthsComplete'
<1> SUFFICES ASSUME Shape, Purposes, Validated, ClosedMonthsComplete, [Next]_vars
             PROVE  ClosedMonthsComplete'
  OBVIOUS
<1>1. CASE UNCHANGED <<document, locked>>
  BY <1>1 DEF ClosedMonthsComplete, Closed
<1>2. ASSUME NEW t \in Requests, Submit(t) \/ Delete(t) \/ Approve(t) \/ Unapprove(t)
      PROVE  ClosedMonthsComplete'
  <2> DEFINE d == request[t].id
  <2>1. /\ d \in Documents /\ ~ Closed(request[t].month)
        /\ request[t].op = "submit" => request[t].document.month = request[t].month
        /\ request[t].op # "submit" => document[d].month = request[t].month
        /\ UNCHANGED locked
    BY <1>2, WritingOpen DEF Submit, Delete, Approve, Unapprove, Writing, derived
  <2>2. /\ \A x \in Documents \ {d} : document'[x] = document[x]
        /\ document'[d].status = "open" => document'[d].month = request[t].month
    BY <1>2, DocumentChanges
  <2> HIDE DEF d
  <2> QED
    BY <2>1, <2>2 DEF ClosedMonthsComplete, Closed
<1>3. ASSUME NEW t \in Requests, Lock(t) PROVE ClosedMonthsComplete'
  <2> DEFINE b == request[t].book
             m == request[t].month
  <2>1. b \in Books /\ \A x \in Documents : document[x].month = m => document[x].status # "open"
    BY <1>3, LockFacts DEF MayLock
  <2>2. /\ \A c \in Books : \A n \in locked'[c] : n \in locked[c] \/ n = m
        /\ UNCHANGED document
    BY <1>3, <2>1 DEF Lock, Shape
  <2> HIDE DEF b, m
  <2> QED
    BY <2>1, <2>2 DEF ClosedMonthsComplete, Closed
<1>4. ASSUME NEW t \in Requests, Unlock(t) PROVE ClosedMonthsComplete'
  <2>1. (\A c \in Books : locked'[c] \subseteq locked[c]) /\ UNCHANGED document
    BY <1>4 DEF Unlock, Shape
  <2> QED
    BY <2>1 DEF ClosedMonthsComplete, Closed
<1>5. ASSUME NEW t \in Requests, TakeRow(t) \/ Refuse(t) PROVE UNCHANGED <<document, locked>>
  BY <1>5 DEF TakeRow, Refuse, facts, derived
<1>6. ASSUME NEW t \in Requests, NEW r \in RequestRow, Begin(t, r) PROVE UNCHANGED <<document, locked>>
  BY <1>6 DEF Begin, facts, derived
<1>7. ASSUME NEW b \in Books,
             \/ ApproveOpening(b) \/ UnapproveOpening(b) \/ DeleteOpening(b)
             \/ \E s \in OpeningStock, adopts \in SUBSET (IF OpeningAdopts THEN Documents ELSE {}) :
                  SubmitOpening(b, adopts, s)
      PROVE  UNCHANGED <<document, locked>>
  BY <1>7 DEF ApproveOpening, UnapproveOpening, DeleteOpening, SubmitOpening, derived
<1>8. CASE UNCHANGED vars
  BY <1>1, <1>8 DEF vars, facts, derived
<1> QED
  BY <1>1, <1>2, <1>3, <1>4, <1>5, <1>6, <1>7, <1>8, SubmitBegins, ReviewBegins, PeriodBegins DEF Next

-------------------------------------------------------------------------------
(* What a request has validated stays true: the months of its book, its     *)
(* opening and the documents of its month are all held.                     *)

LEMMA StillValid ==
  ASSUME NEW b \in Books, NEW m, locked'[b] = locked[b],
         opening[b].status = "approved" => opening'[b].status = "approved",
         \A x \in Documents : document'[x].status = "open" /\ document'[x].month = m =>
           document[x].status = "open" /\ document[x].month = m
  PROVE  MayLock(b, m) => MayLock(b, m)'
  BY DEF MayLock, IsNext

LEMMA StillLatest ==
  ASSUME NEW b \in Books, NEW m, locked'[b] = locked[b]
  PROVE  IsLatest(b, m) => IsLatest(b, m)'
  BY DEF IsLatest

(* It suffices to look at the requests that stay in their row.              *)
LEMMA ValidatedKept ==
  ASSUME Shape, Purposes, Validated,
         \A u \in Requests : request'[u].stage = "row" =>
           /\ request'[u] = request[u]
           /\ locked'[request[u].book] = locked[request[u].book]
           /\ request[u].op = "lock" =>
                /\ opening[request[u].book].status = "approved" =>
                     opening'[request[u].book].status = "approved"
                /\ \A x \in Documents :
                     document'[x].status = "open" /\ document'[x].month = request[u].month =>
                       document[x].status = "open" /\ document[x].month = request[u].month
  PROVE  Validated'
<1> SUFFICES ASSUME NEW u \in Requests, request'[u].stage = "row"
             PROVE  /\ request'[u].op = "lock" => MayLock(request[u].book, request[u].month)'
                    /\ request'[u].op = "unlock" => IsLatest(request[u].book, request[u].month)'
  BY DEF Validated
<1>1. /\ request'[u] = request[u] /\ request[u].stage = "row"
      /\ request[u].book \in Books
  BY DEF Purposes, Purposeful
<1> DEFINE b == request[u].book
           m == request[u].month
<1>2. request[u].op = "lock" => MayLock(b, m)
  BY <1>1 DEF Validated
<1>3. request[u].op = "unlock" => IsLatest(b, m)
  BY <1>1 DEF Validated
<1> QED
  BY <1>1, <1>2, <1>3, StillValid, StillLatest

LEMMA ValidatedStep ==
  Shape /\ HeldInv /\ Purposes /\ Validated /\ [Next]_vars => Validated'
<1> SUFFICES ASSUME Shape, HeldInv, Purposes, Validated, [Next]_vars PROVE Validated'
  OBVIOUS
<1>1. ASSUME NEW t \in Requests, Submit(t) \/ Delete(t) \/ Approve(t) \/ Unapprove(t)
      PROVE  Validated'
  <2>1. /\ UNCHANGED <<locked, opening>> /\ End(t) /\ request[t].stage = "month"
        /\ request[t].id \in Documents
    BY <1>1 DEF Submit, Delete, Approve, Unapprove, Writing, derived, Purposes, Purposeful
  <2>2. \A u \in Requests : request'[u].stage = "row" =>
          request'[u] = request[u] /\ request[u].month # request[t].month
    BY <2>1, IdleShaped DEF End, Shape, HeldInv, MonthsHeld
  <2> QED
    BY <1>1, <2>1, <2>2, DocumentChanges, ValidatedKept
<1>2. ASSUME NEW t \in Requests, Lock(t) \/ Unlock(t) PROVE Validated'
  <2>1. /\ UNCHANGED <<document, opening>> /\ End(t) /\ request[t].stage = "row"
        /\ \A b \in Books : b # request[t].book => locked'[b] = locked[b]
    BY <1>2 DEF Lock, Unlock, Shape
  <2>2. \A u \in Requests : request'[u].stage = "row" =>
          request'[u] = request[u] /\ request[u].book \in Books /\ request[u].book # request[t].book
    BY <2>1, IdleShaped DEF End, Shape, HeldInv, RowsHeld, Purposes, Purposeful
  <2> QED
    BY <2>1, <2>2, ValidatedKept
<1>3. ASSUME NEW t \in Requests, Refuse(t) PROVE Validated'
  <2>1. /\ UNCHANGED <<document, opening, locked>>
        /\ \A u \in Requests : request'[u].stage = "row" => request'[u] = request[u]
    BY <1>3, IdleShaped DEF Refuse, End, Shape, facts, derived
  <2> QED
    BY <2>1, ValidatedKept
<1>4. ASSUME NEW t \in Requests, NEW r \in RequestRow, Begin(t, r), r.stage = "month" PROVE Validated'
  <2>1. /\ UNCHANGED <<document, opening, locked>>
        /\ \A u \in Requests : request'[u].stage = "row" => request'[u] = request[u]
    BY <1>4 DEF Begin, Shape, facts, derived
  <2> QED
    BY <2>1, ValidatedKept
<1>5. ASSUME NEW t \in Requests, TakeRow(t) PROVE Validated'
  <2> DEFINE b == request[t].book
             m == request[t].month
  <2>1. UNCHANGED <<document, opening, locked>>
    BY <1>5 DEF TakeRow, facts, derived
  <2>2. \A u \in Requests : /\ request'[u].book = request[u].book
                            /\ request'[u].month = request[u].month
                            /\ request'[u].op = request[u].op
                            /\ u # t => request'[u] = request[u]
    BY <1>5 DEF TakeRow, Shape, RequestRow
  <2>3. /\ request[t].op = "lock" => MayLock(b, m)
        /\ request[t].op = "unlock" => IsLatest(b, m)
    BY <1>5 DEF TakeRow
  <2>4. \A c, n : MayLock(c, n) => MayLock(c, n)'
    BY <2>1 DEF MayLock, IsNext
  <2>5. \A c, n : IsLatest(c, n) => IsLatest(c, n)'
    BY <2>1 DEF IsLatest
  <2>6. ASSUME NEW u \in Requests, request'[u].stage = "row"
        PROVE  /\ request[u].op = "lock" => MayLock(request[u].book, request[u].month)
               /\ request[u].op = "unlock" => IsLatest(request[u].book, request[u].month)
    BY <2>2, <2>3, <2>6 DEF Validated
  <2> QED
    BY <2>2, <2>4, <2>5, <2>6 DEF Validated
<1>6. ASSUME NEW b \in Books,
             \/ ApproveOpening(b) \/ UnapproveOpening(b) \/ DeleteOpening(b)
             \/ \E s \in OpeningStock, adopts \in SUBSET (IF OpeningAdopts THEN Documents ELSE {}) :
                  SubmitOpening(b, adopts, s)
      PROVE  Validated'
  <2>1. UNCHANGED <<document, locked, request>>
    BY <1>6 DEF ApproveOpening, UnapproveOpening, DeleteOpening, SubmitOpening, derived
  <2>2. \A c \in Books \ {b} : opening'[c] = opening[c]
    BY <1>6 DEF ApproveOpening, UnapproveOpening, DeleteOpening, SubmitOpening, Shape
  <2>3. CASE UnapproveOpening(b)
    <3>1. \A u \in Requests : request[u].stage = "row" /\ request[u].op = "lock" => request[u].book # b
      BY <2>3 DEF UnapproveOpening, OpeningFree
    <3>2. \A u \in Requests : request[u].stage = "row" => request[u].book \in Books
      BY DEF Purposes, Purposeful
    <3> QED
      BY <2>1, <2>2, <3>1, <3>2, ValidatedKept
  <2>4. CASE ~ UnapproveOpening(b)
    <3>1. opening[b].status = "approved" => opening'[b].status = "approved"
      BY <1>6, <2>4 DEF ApproveOpening, DeleteOpening, SubmitOpening
    <3>2. \A u \in Requests : request[u].stage = "row" => request[u].book \in Books
      BY DEF Purposes, Purposeful
    <3> QED
      BY <2>1, <2>2, <3>1, <3>2, ValidatedKept
  <2> QED
    BY <2>3, <2>4
<1>7. CASE UNCHANGED vars
  BY <1>7, ValidatedKept DEF vars, facts, derived
<1> QED
  BY <1>1, <1>2, <1>3, <1>4, <1>5, <1>6, <1>7, SubmitBegins, ReviewBegins, PeriodBegins DEF Next

-------------------------------------------------------------------------------
(* The invariant.                                                           *)

IInv == Shape /\ HeldInv /\ Purposes /\ Validated /\ BookInv /\ ClosedMonthsComplete

LEMMA InitHolds == Init => IInv
<1> SUFFICES ASSUME Init PROVE IInv
  OBVIOUS
<1>1. Shape
  BY IdleShaped DEF Init, Shape, NoOpening
<1>2. HeldInv /\ Purposes /\ Validated
  BY IdleShaped DEF Init, HeldInv, IdleMeansIdle, MonthsHeld, RowsHeld, Purposes, Purposeful, Validated
<1>3. BookInv
  BY DEF Init, BookInv, JournalDated, OrderlyClosing, ClosedMonthsStand
<1>4. ClosedMonthsComplete
  BY DEF Init, ClosedMonthsComplete, Closed
<1> QED
  BY <1>1, <1>2, <1>3, <1>4 DEF IInv

LEMMA StepHolds == IInv /\ [Next]_vars => IInv'
  BY ShapeStep, HeldStep, PurposeStep, ValidatedStep, BookStep, CompleteStep DEF IInv

THEOREM Invariant == Spec => []IInv
  BY InitHolds, StepHolds, PTL DEF Spec

(* acc.md 10: months are closed without a gap from the start of the book,   *)
(* over an approved opening, and reopened from the last one (setPeriod).    *)
THEOREM MonthsCloseInOrder == Spec => []OrderlyClosing
<1>1. IInv => OrderlyClosing
  BY DEF IInv, BookInv
<1> QED
  BY <1>1, Invariant, PTL

(* period-lock.ts: while a book has a month closed no document of it is     *)
(* open, however requests of other books and months interleave.             *)
THEOREM NothingBehindTheClosing == Spec => []ClosedMonthsComplete
<1>1. IInv => ClosedMonthsComplete
  BY DEF IInv
<1> QED
  BY <1>1, Invariant, PTL

(* persistPeriodBalances: the balances of a closed month are those of the   *)
(* journal, for any number of books, documents, months and requests.        *)
THEOREM BalancesStand == Spec => []ClosedMonthsStand
<1>1. IInv => ClosedMonthsStand
  BY DEF IInv, BookInv
<1> QED
  BY <1>1, Invariant, PTL
-------------------------------------------------------------------------------
(* The register of assets.                                                  *)

(* A disposal that is about to be submitted names the asset it is about.   *)
Named ==
  \A t \in Requests : request[t].stage # "idle" /\ request[t].op = "submit"
                         /\ request[t].document.kind = "dispose" =>
    request[t].document.asset \in Documents

AssetInv ==
  /\ register \in [Documents -> Documents \cup {NoDocument}]
  /\ AssetsAccountedFor
  /\ \A d \in Documents : document[d].status # "none" /\ document[d].kind = "dispose" =>
       document[d].asset \in Documents \ {d}
  /\ Named

(* Requests change only by ending, by taking a row, or by a submission that *)
(* names the asset it is about.                                             *)
LEMMA AssetRequests ==
  ASSUME Shape, Purposes, AssetInv, [Next]_vars
  PROVE  Named'
<1>1. Named
  BY DEF AssetInv
<1>2. ASSUME NEW t \in Requests, NEW r \in RequestRow, Begin(t, r),
             r.op = "submit" /\ r.document.kind = "dispose" => r.document.asset \in Documents
      PROVE  Named'
  BY <1>1, <1>2 DEF Begin, Shape, Named
<1>3. ASSUME NEW t \in Requests, NEW d \in Documents, NEW k \in Kinds, NEW m \in Months,
             NEW a \in Documents \cup {NoDocument}, BeginSubmit(t, d, k, m, a)
      PROVE  Named'
  <2> DEFINE r == [Idle EXCEPT !.stage = "month", !.op = "submit", !.id = d, !.month = m,
                     !.document = [status |-> "open", kind |-> k, month |-> m, asset |-> a]]
  <2> m \in Nat
    BY DEF Months
  <2>1. r \in RequestRow
    BY IdleShaped DEF RequestRow, DocumentRow
  <2>2. r.document.kind = k /\ r.document.asset = a
    BY DEF Idle
  <2>3. Begin(t, r) /\ (k = "dispose" => a \in Documents)
    BY <1>3 DEF BeginSubmit
  <2> HIDE DEF r
  <2> QED
    BY <1>2, <2>1, <2>2, <2>3
<1>4. ASSUME NEW t \in Requests, NEW d \in Documents,
             NEW op \in {"approve", "unapprove", "delete"}, BeginReview(t, d, op)
      PROVE  Named'
  BY <1>2, <1>4, ReviewBegins
<1>5. ASSUME NEW t \in Requests, NEW b \in Books, NEW m \in Months,
             NEW op \in {"lock", "unlock"}, BeginPeriod(t, b, m, op)
      PROVE  Named'
  BY <1>2, <1>5, PeriodBegins
<1>6. ASSUME NEW t \in Requests, End(t) PROVE Named'
  BY <1>1, <1>6, IdleShaped DEF End, Shape, Named
<1>7. ASSUME NEW t \in Requests, TakeRow(t) PROVE Named'
  <2>1. request[t].op \in {"lock", "unlock"}
    BY <1>7 DEF TakeRow
  <2>2. \A u \in Requests : /\ request'[u].op = request[u].op
                            /\ u # t => request'[u] = request[u]
    BY <1>7 DEF TakeRow, Shape, RequestRow
  <2> QED
    BY <1>1, <2>1, <2>2 DEF Named
<1>8. ASSUME NEW t \in Requests,
             Submit(t) \/ Delete(t) \/ Approve(t) \/ Unapprove(t) \/ Lock(t) \/ Unlock(t) \/ Refuse(t)
      PROVE  End(t)
  BY <1>8 DEF Submit, Delete, Approve, Unapprove, Lock, Unlock, Refuse, Writing
<1>9. ASSUME UNCHANGED request PROVE Named'
  BY <1>1, <1>9 DEF Named
<1>10. ASSUME NEW b \in Books,
             \/ ApproveOpening(b) \/ UnapproveOpening(b) \/ DeleteOpening(b)
             \/ \E s \in OpeningStock, adopts \in SUBSET (IF OpeningAdopts THEN Documents ELSE {}) :
                  SubmitOpening(b, adopts, s)
      PROVE  UNCHANGED request
  BY <1>10 DEF ApproveOpening, UnapproveOpening, DeleteOpening, SubmitOpening
<1>11. CASE UNCHANGED vars
  BY <1>9, <1>11 DEF vars
<1> QED
  BY <1>3, <1>4, <1>5, <1>6, <1>7, <1>8, <1>9, <1>10, <1>11 DEF Next

(* Documents and the register.                                              *)
RegisterInv ==
  /\ register \in [Documents -> Documents \cup {NoDocument}]
  /\ AssetsAccountedFor
  /\ \A d \in Documents : document[d].status # "none" /\ document[d].kind = "dispose" =>
       document[d].asset \in Documents \ {d}

LEMMA SubmitRegisters ==
  ASSUME Shape, Purposes, AssetInv, NEW t \in Requests, Submit(t) PROVE RegisterInv'
<1> DEFINE d == request[t].id
           new == request[t].document
<1>1. /\ document[d].status = "none" /\ UNCHANGED register /\ document' = [document EXCEPT ![d] = new]
      /\ new.kind = "dispose" => Active(new.asset)
      /\ request[t].stage # "idle" /\ request[t].op = "submit"
  BY DEF Submit, Writing
<1>2. d \in Documents /\ new.status = "open"
  BY <1>1 DEF Purposes, Purposeful
<1>3. /\ document'[d] = new
      /\ \A x \in Documents \ {d} : document'[x] = document[x]
  BY <1>1, <1>2 DEF Shape
<1>4. new.kind = "dispose" => new.asset \in Documents
  BY <1>1 DEF AssetInv, Named
<1>5. register[d] = NoDocument
  BY <1>1, <1>2 DEF AssetInv, AssetsAccountedFor
<1>6. new.kind = "dispose" => new.asset # d
  BY <1>1, <1>2, <1>4, <1>5, AccountingAssumption DEF Active
<1> HIDE DEF d, new
<1>7. AssetsAccountedFor'
  BY <1>1, <1>2, <1>3 DEF AssetInv, AssetsAccountedFor
<1> QED
  BY <1>1, <1>3, <1>4, <1>6, <1>7 DEF RegisterInv, AssetInv

LEMMA DeleteRegisters ==
  ASSUME Shape, Purposes, AssetInv, NEW t \in Requests, Delete(t) PROVE RegisterInv'
<1> DEFINE d == request[t].id
<1>1. document[d].status = "open" /\ UNCHANGED register /\ document' = [document EXCEPT ![d] = NoDoc]
  BY DEF Delete
<1>2. d \in Documents /\ NoDoc.status = "none"
  BY WritingOpen DEF Delete, NoDoc
<1>3. /\ document'[d] = NoDoc
      /\ \A x \in Documents \ {d} : document'[x] = document[x]
  BY <1>1, <1>2 DEF Shape
<1> HIDE DEF d
<1>4. AssetsAccountedFor'
  BY <1>1, <1>2, <1>3 DEF AssetInv, AssetsAccountedFor
<1> QED
  BY <1>1, <1>2, <1>3, <1>4 DEF RegisterInv, AssetInv

LEMMA ReviewRegisters ==
  ASSUME Shape, Purposes, AssetInv, NEW t \in Requests, Approve(t) \/ Unapprove(t)
  PROVE  RegisterInv'
<1> DEFINE d == request[t].id
           a == document[d].asset
           x == document[d]
<1>1. d \in Documents /\ x \in DocumentRow
  BY WritingOpen DEF Approve, Unapprove, Shape
<1>2. \A y \in Documents \ {d} : document'[y] = document[y]
  BY DEF Approve, Unapprove, Shape
<1>3. document'[d].kind = x.kind /\ document'[d].asset = a
  BY <1>1 DEF Approve, Unapprove, Shape, DocumentRow
<1>4. CASE Approve(t)
  <2>1. x.status = "open" /\ document'[d].status = "approved" /\ Register(d)
    BY <1>1, <1>4 DEF Approve, Shape, DocumentRow
  <2>2. CASE x.kind = "acquire"
    <3>1. register' = [register EXCEPT ![d] = d]
      BY <2>1, <2>2 DEF Register
    <3> HIDE DEF d, a, x
    <3> USE DEF x
    <3>2. AssetsAccountedFor'
      BY <1>1, <1>2, <1>3, <2>1, <2>2, <3>1 DEF AssetInv, AssetsAccountedFor
    <3> QED
      BY <1>1, <1>2, <1>3, <2>1, <2>2, <3>1, <3>2 DEF RegisterInv, AssetInv
  <2>3. CASE x.kind = "dispose"
    <3>1. Active(a) /\ register' = [register EXCEPT ![a] = d]
      BY <2>1, <2>3 DEF Register
    <3>2. a \in Documents \ {d}
      BY <1>1, <2>1, <2>3 DEF AssetInv
    <3> HIDE DEF d, a
    <3>3. AssetsAccountedFor'
      BY <1>1, <1>2, <1>3, <2>1, <2>3, <3>1, <3>2 DEF AssetInv, AssetsAccountedFor, Active
    <3> QED
      BY <1>1, <1>2, <1>3, <2>1, <2>3, <3>1, <3>2, <3>3 DEF RegisterInv, AssetInv
  <2>4. CASE x.kind \notin {"acquire", "dispose"}
    <3>1. UNCHANGED register
      BY <2>1, <2>4 DEF Register
    <3> HIDE DEF d, a
    <3>2. AssetsAccountedFor'
      BY <1>1, <1>2, <1>3, <2>1, <2>4, <3>1 DEF AssetInv, AssetsAccountedFor
    <3> QED
      BY <1>1, <1>2, <1>3, <2>1, <2>4, <3>1, <3>2 DEF RegisterInv, AssetInv
  <2> QED
    BY <2>2, <2>3, <2>4
<1>5. CASE Unapprove(t)
  <2>1. x.status = "approved" /\ document'[d].status = "open" /\ Deregister(d)
    BY <1>1, <1>5 DEF Unapprove, Shape, DocumentRow
  <2>2. CASE x.kind = "acquire"
    <3>1. Active(d) /\ register' = [register EXCEPT ![d] = NoDocument]
      BY <2>1, <2>2 DEF Deregister, DropAsset
    <3> HIDE DEF d, a
    <3>2. AssetsAccountedFor'
      BY <1>1, <1>2, <1>3, <2>1, <2>2, <3>1 DEF AssetInv, AssetsAccountedFor, Active
    <3> QED
      BY <1>1, <1>2, <1>3, <2>1, <2>2, <3>1, <3>2 DEF RegisterInv, AssetInv
  <2>3. CASE x.kind = "dispose"
    <3>1. register' = [register EXCEPT ![a] = a]
      BY <2>1, <2>3 DEF Deregister
    <3>2. a \in Documents \ {d}
      BY <1>1, <2>1, <2>3 DEF AssetInv
    <3> HIDE DEF d, a
    <3>3. /\ register[a] = d /\ register'[a] = a
          /\ \A c \in Documents \ {a} : register'[c] = register[c]
      <4>1. register'[a] = a /\ \A c \in Documents \ {a} : register'[c] = register[c]
        BY <3>1, <3>2 DEF AssetInv
      <4>2. x.asset = a
        BY DEF a
      <4>3. d \in Documents \ {a} /\ document[d] = x
        BY <1>1, <3>2
      <4>4. register[a] = d
        BY <2>1, <2>3, <3>2, <4>2, <4>3 DEF AssetInv, AssetsAccountedFor
      <4> QED
        BY <4>1, <4>4
    <3>4. AssetsAccountedFor'
      <4> SUFFICES ASSUME NEW c \in Documents
                   PROVE  /\ register'[c] = NoDocument <=>
                               ~ (document'[c].status = "approved" /\ document'[c].kind = "acquire")
                          /\ \A y \in Documents \ {c} :
                               register'[c] = y <=>
                                 /\ document'[y].status = "approved" /\ document'[y].kind = "dispose"
                                 /\ document'[y].asset = c
        BY DEF AssetsAccountedFor
      <4>1. CASE c = a
        BY <4>1, <1>1, <1>2, <1>3, <2>1, <2>3, <3>2, <3>3 DEF AssetInv, AssetsAccountedFor
      <4>2. CASE c # a
        BY <4>2, <1>1, <1>2, <1>3, <2>1, <2>3, <3>2, <3>3 DEF AssetInv, AssetsAccountedFor
      <4> QED
        BY <4>1, <4>2
    <3> QED
      BY <1>1, <1>2, <1>3, <2>1, <2>3, <3>1, <3>2, <3>4 DEF RegisterInv, AssetInv
  <2>4. CASE x.kind \notin {"acquire", "dispose"}
    <3>1. UNCHANGED register
      BY <2>1, <2>4 DEF Deregister
    <3> HIDE DEF d, a
    <3>2. AssetsAccountedFor'
      BY <1>1, <1>2, <1>3, <2>1, <2>4, <3>1 DEF AssetInv, AssetsAccountedFor
    <3> QED
      BY <1>1, <1>2, <1>3, <2>1, <2>4, <3>1, <3>2 DEF RegisterInv, AssetInv
  <2> QED
    BY <2>2, <2>3, <2>4
<1> QED
  BY <1>4, <1>5

LEMMA AssetStep == IInv /\ AssetInv /\ [Next]_vars => AssetInv'
<1> SUFFICES ASSUME Shape, Purposes, AssetInv, [Next]_vars PROVE AssetInv'
  BY DEF IInv
<1>1. RegisterInv' => AssetInv'
  BY AssetRequests DEF RegisterInv, AssetInv
<1>2. CASE UNCHANGED <<document, register>>
  <2>1. RegisterInv'
    BY <1>2 DEF RegisterInv, AssetInv, AssetsAccountedFor
  <2> QED
    BY <1>1, <2>1
<1>3. ASSUME NEW t \in Requests, TakeRow(t) \/ Refuse(t) \/ Lock(t) \/ Unlock(t)
      PROVE  UNCHANGED <<document, register>>
  BY <1>3 DEF TakeRow, Refuse, Lock, Unlock, facts
<1>4. ASSUME NEW t \in Requests, NEW r \in RequestRow, Begin(t, r)
      PROVE  UNCHANGED <<document, register>>
  BY <1>4 DEF Begin, facts
<1>5. ASSUME NEW b \in Books,
             \/ ApproveOpening(b) \/ UnapproveOpening(b) \/ DeleteOpening(b)
             \/ \E s \in OpeningStock, adopts \in SUBSET (IF OpeningAdopts THEN Documents ELSE {}) :
                  SubmitOpening(b, adopts, s)
      PROVE  UNCHANGED <<document, register>>
  BY <1>5 DEF ApproveOpening, UnapproveOpening, DeleteOpening, SubmitOpening
<1>6. CASE UNCHANGED vars
  BY <1>2, <1>6 DEF vars, facts
<1>7. ASSUME NEW t \in Requests, Submit(t) \/ Delete(t) \/ Approve(t) \/ Unapprove(t)
      PROVE  AssetInv'
  BY <1>1, <1>7, SubmitRegisters, DeleteRegisters, ReviewRegisters
<1>8. ASSUME NEW t \in Requests, TakeRow(t) \/ Refuse(t) \/ Lock(t) \/ Unlock(t)
      PROVE  AssetInv'
  BY <1>2, <1>3, <1>8
<1>9. ASSUME NEW t \in Requests, NEW d \in Documents, NEW k \in Kinds, NEW m \in Months,
             NEW a \in Documents \cup {NoDocument}, BeginSubmit(t, d, k, m, a)
      PROVE  AssetInv'
  BY <1>2, <1>4, <1>9, SubmitBegins
<1>10. ASSUME NEW t \in Requests, NEW d \in Documents,
              NEW op \in {"approve", "unapprove", "delete"}, BeginReview(t, d, op)
       PROVE  AssetInv'
  BY <1>2, <1>4, <1>10, ReviewBegins
<1>11. ASSUME NEW t \in Requests, NEW b \in Books, NEW m \in Months,
              NEW op \in {"lock", "unlock"}, BeginPeriod(t, b, m, op)
       PROVE  AssetInv'
  BY <1>2, <1>4, <1>11, PeriodBegins
<1> QED
  BY <1>2, <1>5, <1>6, <1>7, <1>8, <1>9, <1>10, <1>11 DEF Next

LEMMA InitAssets == Init => AssetInv
  BY IdleShaped DEF Init, AssetInv, Named, AssetsAccountedFor, NoDoc

(* changeAssetStatus and reverseGlobalRegistrations: an asset is registered *)
(* while its acquisition is approved, and disposed of by one document at    *)
(* most, for any number of books, documents and requests.                   *)
THEOREM AssetsKept == Spec => []AssetsAccountedFor
<1>1. AssetInv => AssetsAccountedFor
  BY DEF AssetInv
<1> QED
  BY <1>1, InitAssets, AssetStep, Invariant, PTL DEF Spec
-------------------------------------------------------------------------------
(* What the books hold and what the closings derive is of its type.         *)

WorthRow == [held : BOOLEAN, basis : BOOLEAN, spent : Int]

Facts ==
  /\ register \in [Documents -> Documents \cup {NoDocument}]
  /\ worth \in [Books -> [Documents -> WorthRow]]
  /\ journal \in [Books -> SUBSET Entry]
  /\ recorded \in [Documents -> SUBSET Documents]
  /\ depreciation \in [Books -> [Documents -> [Months -> Int]]]
  /\ allocated \in [Books -> [Months -> [Documents -> SUBSET Documents]]]
  /\ balances \in [Books -> [Months -> SUBSET Entry]]

LEMMA EmptyShaped ==
  NoWorth \in WorthRow /\ NoWear \in [Months -> Int] /\ NoCost \in [Documents -> SUBSET Documents]
  BY DEF NoWorth, WorthRow, NoWear, NoCost

LEMMA DueInteger ==
  ASSUME Shape, NEW b \in Books, NEW a \in Documents, NEW m \in Months, NEW spent \in Int
  PROVE  Due(b, a, m, spent) \in Int
<1>1. m \in Int /\ document[a].month \in Int /\ Life \in Int
  BY DEF Shape, DocumentRow, Months
<1> QED
  BY <1>1 DEF Due

LEMMA DepreciatedEntries ==
  ASSUME NEW wear \in [Documents -> Int], NEW m \in Months
  PROVE  /\ Depreciated(wear, m) \subseteq Entry
         /\ \A e \in Depreciated(wear, m) :
              e.source = "DEPRECIATION" /\ e.month = m /\ e.of \in Documents /\ e.amount = wear[e.of]
  BY DEF Depreciated, Entry, Months

(* What a closing adds to the journal.                                      *)
LEMMA ClosingEntries ==
  ASSUME Shape, Facts, NEW b \in Books, NEW m \in Months
  PROVE  /\ Wear(b, m) \in [Documents -> Int] /\ Worn(b, m) \in [Documents -> Int]
         /\ Costs(b, m) \subseteq Entry
         /\ \A e \in Costs(b, m) : e.source = "COST_SETTLEMENT" /\ e.month = m
<1>1. \A a \in Documents : Due(b, a, m, worth[b][a].spent) \in Int
  BY DueInteger DEF Facts, WorthRow
<1>2. Wear(b, m) \in [Documents -> Int]
  BY <1>1 DEF Wear
<1>3. Worn(b, m) \in [Documents -> Int]
  BY DEF Worn, Facts
<1>4. Costs(b, m) \subseteq Entry
  BY DEF Costs, Rows, Entry, Months
<1>5. \A e \in Costs(b, m) : e.source = "COST_SETTLEMENT" /\ e.month = m
  BY DEF Costs
<1> QED
  BY <1>2, <1>3, <1>4, <1>5

LEMMA VoucherEntry ==
  ASSUME Shape, NEW d \in Documents
  PROVE  Voucher(d) \in Entry
  BY DEF Shape, DocumentRow, Voucher, Entry, Months

LEMMA DocumentKeepsFacts ==
  ASSUME Shape, Purposes, Facts, register' \in [Documents -> Documents \cup {NoDocument}],
         NEW t \in Requests, Approve(t) \/ Unapprove(t)
  PROVE  Facts'
<1> DEFINE d == request[t].id
<1>1. d \in Documents
  BY WritingOpen DEF Approve, Unapprove
<1>2. /\ worth' \in [Books -> [Documents -> WorthRow]]
      /\ depreciation' \in [Books -> [Documents -> [Months -> Int]]]
  <2>1. CASE Approve(t)
    <3>1. UNCHANGED depreciation /\ Register(d)
      BY <2>1 DEF Approve, derived
    <3>2. CASE document[d].kind = "acquire"
      <4> DEFINE row(b) == [held |-> TRUE, spent |-> 0, basis |-> b \in PostingTo(d)]
      <4>1. \A b \in Books : row(b) \in WorthRow
        BY DEF WorthRow
      <4>2. worth' = [b \in Books |-> IF b \in Applicable(document[d].month)
                        THEN [worth[b] EXCEPT ![d] = row(b)] ELSE worth[b]]
        BY <3>1, <3>2 DEF Register
      <4> HIDE DEF d, row
      <4>3. \A b \in Books : [worth[b] EXCEPT ![d] = row(b)] \in [Documents -> WorthRow]
        BY <1>1, <4>1 DEF Facts
      <4> QED
        BY <3>1, <4>2, <4>3 DEF Facts
    <3>3. CASE document[d].kind # "acquire"
      BY <3>1, <3>3 DEF Register, Facts
    <3> QED
      BY <3>2, <3>3
  <2>2. CASE Unapprove(t)
    <3>1. Deregister(d)
      BY <2>2 DEF Unapprove
    <3> HIDE DEF d
    <3>2. \A b \in Books :
            /\ [worth[b] EXCEPT ![d] = NoWorth] \in [Documents -> WorthRow]
            /\ [depreciation[b] EXCEPT ![d] = NoWear] \in [Documents -> [Months -> Int]]
      BY <1>1, EmptyShaped DEF Facts
    <3> QED
      <4>1. CASE document[d].kind = "acquire"
        <5>1. DropAsset(d)
          BY <3>1, <4>1 DEF Deregister
        <5>2. /\ worth' = [b \in Books |-> [worth[b] EXCEPT ![d] = NoWorth]]
              /\ depreciation' = [b \in Books |-> [depreciation[b] EXCEPT ![d] = NoWear]]
          BY <5>1 DEF DropAsset
        <5> QED
          BY <3>2, <5>2
      <4>2. CASE document[d].kind # "acquire"
        BY <3>1, <4>2 DEF Deregister, Facts
      <4> QED
        BY <4>1, <4>2
  <2> QED
    BY <2>1, <2>2
<1>3. journal' \in [Books -> SUBSET Entry]
  <2>1. /\ Voucher(d) \in Entry
        /\ \A b \in Books : journal[b] \subseteq Entry
    BY <1>1, VoucherEntry DEF Facts
  <2>2. CASE Approve(t)
    BY <2>1, <2>2 DEF Approve
  <2>3. CASE Unapprove(t)
    BY <2>1, <2>3 DEF Unapprove
  <2> QED
    BY <2>2, <2>3
<1>4. recorded' \in [Documents -> SUBSET Documents]
  <2>1. CASE Approve(t)
    <3>1. {x \in Documents : recorded[x] # {}} \cup {d} \in SUBSET Documents
      BY <1>1
    <3> QED
      BY <2>1, <3>1 DEF Approve, Facts
  <2>2. CASE Unapprove(t)
    BY <2>2 DEF Unapprove, Facts
  <2> QED
    BY <2>1, <2>2
<1>5. UNCHANGED <<allocated, balances>>
  BY DEF Approve, Unapprove, derived
<1> QED
  BY <1>2, <1>3, <1>4, <1>5 DEF Facts

LEMMA ClosingKeepsFacts ==
  ASSUME Shape, Purposes, Facts, NEW t \in Requests, Lock(t) \/ Unlock(t)
  PROVE  Facts'
<1> DEFINE b == request[t].book
           m == request[t].month
<1>1. b \in Books /\ m \in Months
  BY DEF Lock, Unlock, Purposes, Purposeful
<1>2. UNCHANGED <<register, recorded>>
  BY DEF Lock, Unlock
<1> DEFINE wear == IF Lock(t) THEN Wear(b, m) ELSE Worn(b, m)
<1>3. /\ Wear(b, m) \in [Documents -> Int] /\ Worn(b, m) \in [Documents -> Int]
      /\ Costs(b, m) \subseteq Entry /\ Depreciated(Wear(b, m), m) \subseteq Entry
  BY <1>1, ClosingEntries, DepreciatedEntries
<1>4. worth' \in [Books -> [Documents -> WorthRow]]
  <2>1. \A a \in Documents : /\ [worth[b][a] EXCEPT !.spent = @ + Wear(b, m)[a]] \in WorthRow
                             /\ [worth[b][a] EXCEPT !.spent = @ - Worn(b, m)[a]] \in WorthRow
    <3> HIDE DEF b, m
    <3>1. \A a \in Documents : worth[b][a] \in WorthRow
      BY <1>1 DEF Facts
    <3> QED
      BY <1>3, <3>1 DEF WorthRow
  <2> HIDE DEF b, m
  <2>2. \E row \in [Documents -> WorthRow] : worth' = [worth EXCEPT ![b] = row]
    BY <2>1 DEF Lock, Unlock, Restored, b, m
  <2> QED
    BY <1>1, <2>2 DEF Facts
<1>5. depreciation' \in [Books -> [Documents -> [Months -> Int]]]
  <2>1. \A a \in Documents : /\ [depreciation[b][a] EXCEPT ![m] = Wear(b, m)[a]] \in [Months -> Int]
                             /\ [depreciation[b][a] EXCEPT ![m] = 0] \in [Months -> Int]
    BY <1>1, <1>3 DEF Facts
  <2> HIDE DEF b, m
  <2>2. \E row \in [Documents -> [Months -> Int]] : depreciation' = [depreciation EXCEPT ![b] = row]
    BY <2>1 DEF Lock, Unlock, b, m
  <2> QED
    BY <1>1, <2>2 DEF Facts
<1>6. journal' \in [Books -> SUBSET Entry]
  <2>1. /\ journal[b] \cup Costs(b, m) \cup Depreciated(Wear(b, m), m) \in SUBSET Entry
        /\ {e \in journal[b] : ~ (e.source = "COST_SETTLEMENT" /\ e.month = m)}
             \ Depreciated(Worn(b, m), m) \in SUBSET Entry
    BY <1>1, <1>3 DEF Facts
  <2>2. \E js \in SUBSET Entry : journal' = [journal EXCEPT ![b] = js]
    BY <2>1 DEF Lock, Unlock
  <2> HIDE DEF b, m
  <2> QED
    BY <1>1, <2>2 DEF Facts
<1>7. balances' \in [Books -> [Months -> SUBSET Entry]]
  <2>1. journal'[b] \subseteq Entry
    BY <1>1, <1>6
  <2>2. \E row \in SUBSET Entry : balances' = [balances EXCEPT ![b][m] = row]
    BY <2>1 DEF Lock, Unlock, UpTo
  <2> HIDE DEF b, m
  <2> QED
    BY <1>1, <2>2 DEF Facts
<1>8. allocated' \in [Books -> [Months -> [Documents -> SUBSET Documents]]]
  <2>1. Costed(b, m) \in [Documents -> SUBSET Documents]
    BY DEF Costed, Through, Rows
  <2>2. \E row \in [Documents -> SUBSET Documents] : allocated' = [allocated EXCEPT ![b][m] = row]
    BY <2>1, EmptyShaped DEF Lock, Unlock
  <2> HIDE DEF b, m
  <2> QED
    BY <1>1, <2>2 DEF Facts
<1> QED
  BY <1>2, <1>4, <1>5, <1>6, <1>7, <1>8 DEF Facts

LEMMA OpeningKeepsFacts ==
  ASSUME Shape, Facts, NEW b \in Books,
         \/ ApproveOpening(b) \/ UnapproveOpening(b) \/ DeleteOpening(b)
         \/ \E s \in OpeningStock, adopts \in SUBSET (IF OpeningAdopts THEN Documents ELSE {}) :
              SubmitOpening(b, adopts, s)
  PROVE  Facts'
<1>1. UNCHANGED <<register, recorded, depreciation, allocated, balances>>
  BY DEF ApproveOpening, UnapproveOpening, DeleteOpening, SubmitOpening, derived
<1>2. OpeningEntry(b) \in Entry
  BY DEF OpeningEntry, Entry, Shape
<1>3. journal' \in [Books -> SUBSET Entry]
  <2>1. journal' = journal \/ \E js \in SUBSET Entry : journal' = [journal EXCEPT ![b] = js]
    <3>1. journal[b] \cup {OpeningEntry(b)} \in SUBSET Entry /\ {} \in SUBSET Entry
      BY <1>2 DEF Facts
    <3> QED
      BY <3>1 DEF ApproveOpening, UnapproveOpening, DeleteOpening, SubmitOpening
  <2> QED
    BY <2>1 DEF Facts
<1>4. worth' \in [Books -> [Documents -> WorthRow]]
  <2>1. [held |-> TRUE, basis |-> TRUE, spent |-> 0] \in WorthRow
    BY DEF WorthRow
  <2>2. worth' = worth \/ \E row \in [Documents -> WorthRow] : worth' = [worth EXCEPT ![b] = row]
    <3>1. \A a \in Documents : worth[b][a] \in WorthRow
      BY DEF Facts
    <3> QED
      BY <2>1, <3>1, EmptyShaped DEF ApproveOpening, UnapproveOpening, DeleteOpening, SubmitOpening
  <2> QED
    BY <2>2 DEF Facts
<1> QED
  BY <1>1, <1>3, <1>4 DEF Facts

LEMMA FactsStep == IInv /\ AssetInv /\ Facts /\ [Next]_vars => Facts'
<1> SUFFICES ASSUME IInv, AssetInv, Facts, [Next]_vars PROVE Facts'
  OBVIOUS
<1>1. Shape /\ Purposes
  BY DEF IInv
<1>2. register' \in [Documents -> Documents \cup {NoDocument}]
  BY AssetStep DEF AssetInv
<1>3. CASE UNCHANGED <<register, worth, journal, recorded, depreciation, allocated, balances>>
  BY <1>3 DEF Facts
<1>4. CASE UNCHANGED vars
  BY <1>3, <1>4 DEF vars, facts, derived
<1>5. ASSUME NEW t \in Requests, Submit(t) \/ Delete(t) \/ TakeRow(t) \/ Refuse(t)
      PROVE  Facts'
  BY <1>3, <1>5 DEF Submit, Delete, TakeRow, Refuse, facts, derived
<1>6. ASSUME NEW t \in Requests, NEW r \in RequestRow, Begin(t, r)
      PROVE  Facts'
  BY <1>3, <1>6 DEF Begin, facts, derived
<1> QED
  BY <1>1, <1>2, <1>4, <1>5, <1>6, DocumentKeepsFacts, ClosingKeepsFacts, OpeningKeepsFacts,
     SubmitBegins, ReviewBegins, PeriodBegins DEF Next
LEMMA InitFacts == Init => Facts
  BY EmptyShaped DEF Init, Facts

(* Every variable is of its type; what the closings derive are integers.    *)
THEOREM TypeCorrect == Spec => []TypeOK
<1>1. Init => IInv /\ AssetInv /\ Facts
  BY InitHolds, InitAssets, InitFacts
<1>2. IInv /\ AssetInv /\ Facts /\ [Next]_vars => (IInv /\ AssetInv /\ Facts)'
  BY StepHolds, AssetStep, FactsStep
<1>3. IInv /\ AssetInv /\ Facts => TypeOK
  BY DEF IInv, Shape, Facts, TypeOK, RequestRow, WorthRow
<1> QED
  BY <1>1, <1>2, <1>3, PTL DEF Spec
-------------------------------------------------------------------------------
(* Stock.  What a month was costed from depends on its rows only, on what   *)
(* they came after and on the stock of the opening.  A document takes part  *)
(* in it only if a voucher of it is in the book, and then every month that  *)
(* the book has closed is earlier.                                          *)

Posted ==
  \A b \in Books : \A e \in journal[b] : e.source = "VOU" =>
    /\ e.of \in Documents /\ e = Voucher(e.of)
    /\ document[e.of].status = "approved"

InOrder ==
  \A d \in Documents : recorded[d] # {} =>
    /\ d \in recorded[d]
    /\ document[d].status = "approved" /\ document[d].kind \in Moves

CostsStand ==
  \A b \in Books : \A m \in locked[b] : allocated[b][m] = Costed(b, m)

Undisturbed(b, m) ==
  /\ opening'[b].stock = opening[b].stock
  /\ Rows(b, m)' = Rows(b, m)
  /\ \A d \in Rows(b, m) : /\ document'[d].month = document[d].month
                           /\ document'[d].kind = document[d].kind
                           /\ \A x \in Rows(b, m) : x \in recorded'[d] <=> x \in recorded[d]

(* The rows up to a row of the month are rows of the month.                 *)
OfTheMonth(b, m, d) ==
  d \in Rows(b, m) =>
    Through(b, d) = {x \in Rows(b, m) : \/ document[x].month < document[d].month
                                        \/ /\ document[x].month <= document[d].month
                                           /\ x \in recorded[d]}

LEMMA ThroughRows ==
  ASSUME NEW b \in Books, NEW m \in Int, NEW d \in Documents
  PROVE  Shape => OfTheMonth(b, m, d)
<1> SUFFICES ASSUME Shape, d \in Rows(b, m)
             PROVE  Through(b, d) = {x \in Rows(b, m) : \/ document[x].month < document[d].month
                                                        \/ /\ document[x].month <= document[d].month
                                                           /\ x \in recorded[d]}
  BY DEF OfTheMonth
<1>1. \A x \in Documents : document[x].month \in Int
  BY DEF Shape, DocumentRow, Months
<1>2. document[d].month <= m
  BY DEF Rows
<1>3. \A x : x \in Rows(b, document[d].month) <=>
               x \in Rows(b, m) /\ document[x].month <= document[d].month
  BY <1>1, <1>2 DEF Rows
<1>4. \A x \in Rows(b, m) : x \in Documents
  BY DEF Rows
<1> QED
  BY <1>1, <1>2, <1>3, <1>4 DEF Through

LEMMA ThroughRowsNext ==
  ASSUME NEW b \in Books, NEW m \in Int, NEW d \in Documents
  PROVE  (Shape => OfTheMonth(b, m, d))'
  BY ThroughRows, PTL

LEMMA QuantityStands ==
  ASSUME NEW b, NEW rows, opening'[b].stock = opening[b].stock,
         \A d \in rows : document'[d].kind = document[d].kind
  PROVE  Quantity(b, rows)' = Quantity(b, rows)
<1>1. \A k : {d \in rows : document'[d].kind = k} = {d \in rows : document[d].kind = k}
  OBVIOUS
<1> QED
  BY <1>1 DEF Quantity

LEMMA CostingStands ==
  ASSUME Shape, Shape', NEW b \in Books, NEW m \in Int, Undisturbed(b, m)
  PROVE  /\ Costed(b, m)' = Costed(b, m)
         /\ Progresses(b, m) => Progresses(b, m)'
         /\ CostBasis(b, m) => CostBasis(b, m)'
<1>1. /\ Rows(b, m)' = Rows(b, m) /\ Rows(b, m) \subseteq Documents
      /\ \A d \in Rows(b, m) : document'[d].kind = document[d].kind
  BY DEF Undisturbed, Rows
<1>2. ASSUME NEW d \in Documents, d \in Rows(b, m)
      PROVE  Through(b, d)' = Through(b, d) /\ Through(b, d) \subseteq Rows(b, m)
  <2>1. OfTheMonth(b, m, d) /\ OfTheMonth(b, m, d)'
    BY ThroughRows, ThroughRowsNext
  <2>2. Through(b, d)' = {x \in Rows(b, m) : \/ document'[x].month < document'[d].month
                                             \/ /\ document'[x].month <= document'[d].month
                                                /\ x \in recorded'[d]}
    BY <1>1, <1>2, <2>1 DEF OfTheMonth
  <2>3. Through(b, d) = {x \in Rows(b, m) : \/ document[x].month < document[d].month
                                            \/ /\ document[x].month <= document[d].month
                                               /\ x \in recorded[d]}
    BY <1>2, <2>1 DEF OfTheMonth
  <2>4. \A x \in Rows(b, m) : document'[x].month = document[x].month
    BY DEF Undisturbed
  <2>5. \A x \in Rows(b, m) : x \in recorded'[d] <=> x \in recorded[d]
    BY <1>2 DEF Undisturbed
  <2> QED
    BY <1>2, <2>2, <2>3, <2>4, <2>5
<1>3. \A rows \in SUBSET Rows(b, m) : Quantity(b, rows)' = Quantity(b, rows)
  <2> SUFFICES ASSUME NEW R, R = Rows(b, m), NEW rows \in SUBSET R
               PROVE  Quantity(b, rows)' = Quantity(b, rows)
    OBVIOUS
  <2> QED
    BY <1>1, QuantityStands DEF Undisturbed
<1>4. Costed(b, m)' = Costed(b, m)
  BY <1>1, <1>2 DEF Costed
<1>5. \A d \in Rows(b, m) : After(b, d)' = After(b, d) /\ Before(b, d)' = Before(b, d)
  <2> SUFFICES ASSUME NEW d \in Documents, d \in Rows(b, m)
               PROVE  After(b, d)' = After(b, d) /\ Before(b, d)' = Before(b, d)
    BY <1>1
  <2>1. PICK rows \in SUBSET Rows(b, m) : rows = Through(b, d) /\ rows = Through(b, d)'
    BY <1>2
  <2>2. /\ Quantity(b, rows)' = Quantity(b, rows)
        /\ Quantity(b, rows \ {d})' = Quantity(b, rows \ {d})
    BY <1>3
  <2> QED
    BY <2>1, <2>2 DEF After, Before
<1>6. Stock(b, m)' = Stock(b, m)
  <2>1. PICK rows \in SUBSET Rows(b, m) : rows = Rows(b, m) /\ rows = Rows(b, m)'
    BY <1>1
  <2> QED
    BY <1>3, <2>1 DEF Stock
<1>7. Progresses(b, m) => Progresses(b, m)'
  BY <1>1, <1>5 DEF Progresses
<1> QED
  BY <1>1, <1>4, <1>5, <1>6, <1>7 DEF CostBasis
(* What changes about one document does not disturb rows it is not among.   *)
LEMMA OtherRows ==
  ASSUME NEW b \in Books, NEW m \in Int, NEW d \in Documents,
         opening'[b].stock = opening[b].stock,
         \A x \in Documents \ {d} :
           /\ document'[x].month = document[x].month /\ document'[x].kind = document[x].kind
           /\ recorded'[x] = {} <=> recorded[x] = {}
           /\ \A y \in Documents \ {d} : y \in recorded'[x] <=> y \in recorded[x],
         \A e : e.of # d => (e \in journal'[b] <=> e \in journal[b]),
         d \notin Rows(b, m), d \notin Rows(b, m)'
  PROVE  Undisturbed(b, m)
<1>1. \A x \in Documents \ {d} : Voucher(x)' = Voucher(x) /\ Voucher(x).of # d
  BY DEF Voucher
<1>2. \A x \in Documents \ {d} : Voucher(x)' \in journal'[b] <=> Voucher(x) \in journal[b]
  BY <1>1
<1>3. \A x \in Documents \ {d} : x \in Rows(b, m)' <=> x \in Rows(b, m)
  BY <1>2 DEF Rows
<1>4. Rows(b, m)' \subseteq Documents \ {d} /\ Rows(b, m) \subseteq Documents \ {d}
  BY DEF Rows
<1>5. Rows(b, m)' = Rows(b, m)
  BY <1>3, <1>4
<1> QED
  BY <1>4, <1>5 DEF Undisturbed

LEMMA CostsKept ==
  ASSUME Shape, Shape', CostsStand, StockStands, UNCHANGED <<locked, allocated>>,
         \A b \in Books : \A m \in locked[b] : Undisturbed(b, m),
         Progresses(Control, LastMonth)'
  PROVE  CostsStand' /\ StockStands'
<1> SUFFICES ASSUME NEW b \in Books, NEW m \in Int, m \in locked[b]
             PROVE  Costed(b, m)' = Costed(b, m) /\ CostBasis(b, m)'
  <2>1. \A b \in Books : \A m \in locked[b] : m \in Int
    BY DEF Shape, Months
  <2> QED
    BY <2>1 DEF CostsStand, StockStands
<1>1. Undisturbed(b, m) /\ CostBasis(b, m)
  BY DEF StockStands
<1> QED
  BY <1>1, CostingStands

LEMMA ControlKept ==
  ASSUME Shape, Shape', StockStands, Undisturbed(Control, LastMonth)
  PROVE  Progresses(Control, LastMonth)'
  BY CostingStands DEF StockStands

StockInv == Posted /\ InOrder /\ CostsStand /\ StockStands

(* A document without inventory entries has no rows.                        *)
LEMMA SubmitKeepsStock ==
  ASSUME Shape, Shape', Purposes, StockInv, NEW t \in Requests, Submit(t) \/ Delete(t)
  PROVE  StockInv'
<1> DEFINE d == request[t].id
<1>1. /\ d \in Documents /\ document[d].status # "approved"
      /\ \A x \in Documents \ {d} : document'[x] = document[x]
      /\ UNCHANGED <<opening, journal, recorded, locked, allocated>>
  BY WritingOpen, DocumentChanges DEF Submit, Delete, derived
<1> HIDE DEF d
<1>2. recorded[d] = {}
  BY <1>1 DEF StockInv, InOrder
<1>3. \A b \in Books : \A m \in Int : Undisturbed(b, m)
  <2> SUFFICES ASSUME NEW b \in Books, NEW m \in Int PROVE Undisturbed(b, m)
    OBVIOUS
  <2>1. d \notin Rows(b, m) /\ d \notin Rows(b, m)'
    BY <1>1, <1>2 DEF Rows
  <2> QED
    BY <1>1, <2>1, OtherRows
<1>4. Posted'
  <2> SUFFICES ASSUME NEW b \in Books, NEW e \in journal[b], e.source = "VOU"
               PROVE  e.of \in Documents /\ e = Voucher(e.of)' /\ document'[e.of].status = "approved"
    BY <1>1 DEF Posted
  <2>1. e.of \in Documents /\ e = Voucher(e.of) /\ document[e.of].status = "approved"
    BY DEF StockInv, Posted
  <2>2. e.of # d /\ document'[e.of] = document[e.of]
    BY <1>1, <2>1
  <2> QED
    BY <2>1, <2>2 DEF Voucher
<1>5. InOrder'
  BY <1>1, <1>2 DEF StockInv, InOrder
<1>6. CostsStand' /\ StockStands'
  <2>1. \A b \in Books : \A m \in locked[b] : m \in Int
    BY DEF Shape, Months
  <2>2. LastMonth \in Int
    OBVIOUS
  <2> QED
    BY <1>1, <1>3, <2>1, <2>2, CostsKept, ControlKept DEF StockInv
<1> QED
  BY <1>4, <1>5, <1>6 DEF StockInv
(* The rows of a closed month do not include a document that is reviewed:   *)
(* its month is open, and later than those its books have closed.           *)
LEMMA ReviewedLater ==
  ASSUME Shape, BookInv, NEW b \in Books, NEW d \in Documents, Start[b] <= document[d].month,
         ~ Closed(document[d].month), NEW m \in locked[b]
  PROVE  ~ (document[d].month <= m)
<1>1. document[d].month \in Nat /\ m \in Nat
  BY DEF Shape, DocumentRow, Months
<1> QED
  BY <1>1, ClosedEarlier DEF BookInv

LEMMA ApproveKeepsStock ==
  ASSUME Shape, Shape', Purposes, BookInv, StockInv, NEW t \in Requests, Approve(t)
  PROVE  StockInv'
<1>0. PICK d : d = request[t].id
  OBVIOUS
<1> DEFINE was == {x \in Documents : recorded[x] # {}}
<1>1. /\ d \in Documents /\ document[d].status = "open" /\ ~ Closed(document[d].month)
      /\ document' = [document EXCEPT ![d].status = "approved"]
      /\ journal' = [b \in Books |-> journal[b] \cup (IF b \in PostingTo(d) THEN {Voucher(d)} ELSE {})]
      /\ recorded' = IF document[d].kind \in Moves
                       THEN [recorded EXCEPT ![d] = was \cup {d}] ELSE recorded
      /\ StockAllows(d, PostingTo(d))
      /\ UNCHANGED <<opening, locked, allocated>>
  BY <1>0, WritingOpen DEF Approve, Writing, derived
<1> HIDE DEF was
<1>2. /\ document' \in [Documents -> DocumentRow]
      /\ \A x \in Documents \ {d} : document'[x] = document[x]
      /\ document'[d].month = document[d].month /\ document'[d].kind = document[d].kind
      /\ document'[d].status = "approved"
  BY <1>1 DEF Shape, DocumentRow
<1>3. recorded[d] = {} /\ \A b \in Books : Voucher(d) \notin journal[b]
  BY <1>1 DEF StockInv, InOrder, Posted, Voucher
<1>4. Voucher(d).of = d /\ Voucher(d)' = Voucher(d) /\ Voucher(d).source = "VOU"
  BY <1>2 DEF Voucher
<1>5. ASSUME NEW b \in Books, NEW m \in Int,
             \/ document[d].kind \notin Moves \/ b \notin PostingTo(d) \/ ~ (document[d].month <= m)
      PROVE  Undisturbed(b, m)
  <2>1. d \notin Rows(b, m)
    BY <1>3 DEF Rows
  <2>2. Voucher(d)' \in journal'[b] => b \in PostingTo(d)
    BY <1>1, <1>3, <1>4
  <2>3. recorded'[d] # {} => document[d].kind \in Moves
    BY <1>1, <1>3
  <2>4. d \notin Rows(b, m)'
    BY <1>2, <1>5, <2>2, <2>3 DEF Rows
  <2>5. \A x \in Documents \ {d} : recorded'[x] = recorded[x]
    BY <1>1
  <2>6. \A e : e.of # d => (e \in journal'[b] <=> e \in journal[b])
    BY <1>1, <1>4
  <2> QED
    BY <1>1, <1>2, <2>1, <2>4, <2>5, <2>6, OtherRows
<1>6. Posted'
  <2> SUFFICES ASSUME NEW b \in Books, NEW e \in journal'[b], e.source = "VOU"
               PROVE  e.of \in Documents /\ e = Voucher(e.of)' /\ document'[e.of].status = "approved"
    BY DEF Posted
  <2>1. CASE e \in journal[b]
    <3>1. e.of \in Documents /\ e = Voucher(e.of) /\ document[e.of].status = "approved"
      BY <2>1 DEF StockInv, Posted
    <3>2. e.of # d /\ document'[e.of] = document[e.of]
      BY <1>1, <1>2, <3>1
    <3> QED
      BY <3>1, <3>2 DEF Voucher
  <2>2. CASE e \notin journal[b]
    BY <1>1, <1>2, <1>4, <2>2
  <2> QED
    BY <2>1, <2>2
<1>7. InOrder'
  BY <1>1, <1>2, <1>3 DEF StockInv, InOrder, Shape
<1>8. \A b \in Books : \A m \in locked[b] : Undisturbed(b, m)
  <2> SUFFICES ASSUME NEW b \in Books, NEW m \in Int, m \in locked[b], b \in PostingTo(d)
               PROVE  ~ (document[d].month <= m)
    <3>1. \A b \in Books : \A m \in locked[b] : m \in Int
      BY DEF Shape, Months
    <3> QED
      BY <1>5, <3>1
  <2>1. Start[b] <= document[d].month
    BY DEF PostingTo, Applicable
  <2> QED
    BY <1>1, <2>1, ReviewedLater
<1>9. Progresses(Control, LastMonth)'
  <2>1. CASE document[d].kind \in Moves /\ Control \in PostingTo(d)
    BY <1>1, <2>1 DEF StockAllows
  <2>2. CASE ~ (document[d].kind \in Moves /\ Control \in PostingTo(d))
    <3>1. LastMonth \in Int
      OBVIOUS
    <3>2. Undisturbed(Control, LastMonth)
      BY <1>5, <2>2, <3>1
    <3> QED
      BY <3>2, ControlKept DEF StockInv
  <2> QED
    BY <2>1, <2>2
<1> QED
  BY <1>1, <1>6, <1>7, <1>8, <1>9, CostsKept DEF StockInv

LEMMA UnapproveKeepsStock ==
  ASSUME Shape, Shape', Purposes, BookInv, StockInv, NEW t \in Requests, Unapprove(t)
  PROVE  StockInv'
<1>0. PICK d : d = request[t].id
  OBVIOUS
<1> DEFINE in == {b \in Books : Voucher(d) \in journal[b]}
<1>1. /\ d \in Documents /\ document[d].status = "approved" /\ ~ Closed(document[d].month)
      /\ document' = [document EXCEPT ![d].status = "open"]
      /\ journal' = [b \in Books |-> journal[b] \ {Voucher(d)}]
      /\ recorded' = [x \in Documents |-> IF x = d THEN {} ELSE recorded[x] \ {d}]
      /\ StockAllows(d, in)
      /\ UNCHANGED <<opening, locked, allocated>>
  BY <1>0, WritingOpen DEF Unapprove, Writing
<1>2. \A b \in Books : b \in in <=> Voucher(d) \in journal[b]
  OBVIOUS
<1> HIDE DEF in
<1>3. /\ \A x \in Documents \ {d} : document'[x] = document[x]
      /\ document'[d].month = document[d].month /\ document'[d].kind = document[d].kind
  BY <1>1 DEF Shape, DocumentRow
<1>4. Voucher(d).of = d /\ Voucher(d)' = Voucher(d) /\ Voucher(d).source = "VOU"
  BY <1>3 DEF Voucher
<1>5. \A x \in Documents \ {d} : recorded'[x] = {} <=> recorded[x] = {}
  BY <1>1 DEF StockInv, InOrder
<1>6. ASSUME NEW b \in Books, NEW m \in Int,
             \/ document[d].kind \notin Moves \/ b \notin in \/ ~ (document[d].month <= m)
      PROVE  Undisturbed(b, m)
  <2>1. d \notin Rows(b, m)
    BY <1>1, <1>2, <1>6 DEF Rows, StockInv, InOrder
  <2>2. d \notin Rows(b, m)'
    BY <1>1 DEF Rows
  <2>3. \A e : e.of # d => (e \in journal'[b] <=> e \in journal[b])
    BY <1>1, <1>4
  <2>4. \A x \in Documents \ {d} : \A y \in Documents \ {d} : y \in recorded'[x] <=> y \in recorded[x]
    BY <1>1
  <2> QED
    BY <1>1, <1>3, <1>5, <2>1, <2>2, <2>3, <2>4, OtherRows
<1>7. Posted'
  <2> SUFFICES ASSUME NEW b \in Books, NEW e \in journal'[b], e.source = "VOU"
               PROVE  e.of \in Documents /\ e = Voucher(e.of)' /\ document'[e.of].status = "approved"
    BY DEF Posted
  <2>1. e.of \in Documents /\ e = Voucher(e.of) /\ document[e.of].status = "approved"
    BY <1>1 DEF StockInv, Posted
  <2>2. e.of # d /\ document'[e.of] = document[e.of]
    BY <1>1, <1>3, <2>1
  <2> QED
    BY <2>1, <2>2 DEF Voucher
<1>8. InOrder'
  BY <1>1, <1>3 DEF StockInv, InOrder
<1>9. \A b \in Books : \A m \in locked[b] : Undisturbed(b, m)
  <2> SUFFICES ASSUME NEW b \in Books, NEW m \in Int, m \in locked[b], b \in in
               PROVE  ~ (document[d].month <= m)
    <3>1. \A b \in Books : \A m \in locked[b] : m \in Int
      BY DEF Shape, Months
    <3> QED
      BY <1>6, <3>1
  <2>1. Start[b] <= Voucher(d).month
    BY <1>2 DEF BookInv, JournalDated
  <2>2. Voucher(d).month = document[d].month
    BY DEF Voucher
  <2> QED
    BY <1>1, <2>1, <2>2, ReviewedLater
<1>10. Progresses(Control, LastMonth)'
  <2>1. CASE document[d].kind \in Moves /\ Control \in in
    BY <1>1, <2>1 DEF StockAllows
  <2>2. CASE ~ (document[d].kind \in Moves /\ Control \in in)
    <3>1. LastMonth \in Int
      OBVIOUS
    <3>2. Undisturbed(Control, LastMonth)
      BY <1>6, <2>2, <3>1
    <3> QED
      BY <3>2, ControlKept DEF StockInv
  <2> QED
    BY <2>1, <2>2
<1> QED
  BY <1>1, <1>7, <1>8, <1>9, <1>10, CostsKept DEF StockInv
(* An opening changes only while nothing of a document is in its book.      *)
LEMMA OpeningKeepsStock ==
  ASSUME Shape, Shape', BookInv, StockInv, NEW b \in Books,
         \/ ApproveOpening(b) \/ UnapproveOpening(b) \/ DeleteOpening(b)
         \/ \E s \in OpeningStock, adopts \in SUBSET (IF OpeningAdopts THEN Documents ELSE {}) :
              SubmitOpening(b, adopts, s)
  PROVE  StockInv'
<1>1. UNCHANGED <<document, recorded, locked, allocated>>
  BY DEF ApproveOpening, UnapproveOpening, DeleteOpening, SubmitOpening, derived
<1>2. \A c \in Books \ {b} : opening'[c] = opening[c] /\ journal'[c] = journal[c]
  BY DEF ApproveOpening, UnapproveOpening, DeleteOpening, SubmitOpening, Shape
<1>3. /\ locked[b] = {}
      /\ \A e \in journal[b] \cup journal'[b] : e.source # "VOU"
  <2>1. opening[b].status # "approved" => journal[b] = {} /\ locked[b] = {}
    BY DEF BookInv, OrderlyClosing
  <2>2. OpeningEntry(b).source # "VOU"
    BY DEF OpeningEntry
  <2>3. b \in DOMAIN journal
    BY DEF Shape
  <2> QED
    BY <2>1, <2>2, <2>3 DEF ApproveOpening, UnapproveOpening, DeleteOpening, SubmitOpening
<1>4. \A d : Voucher(d)' = Voucher(d) /\ Voucher(d).source = "VOU"
  BY <1>1 DEF Voucher
<1>5. \A c \in Books \ {b} : \A m : Rows(c, m)' = Rows(c, m)
  BY <1>1, <1>2, <1>4 DEF Rows
<1>6. \A c \in Books \ {b} : \A m : Undisturbed(c, m)
  BY <1>1, <1>2, <1>5 DEF Undisturbed
<1>7. Posted'
  <2> SUFFICES ASSUME NEW c \in Books, NEW e \in journal'[c], e.source = "VOU"
               PROVE  e.of \in Documents /\ e = Voucher(e.of) /\ document[e.of].status = "approved"
    BY <1>1, <1>4 DEF Posted
  <2>1. c # b /\ e \in journal[c]
    BY <1>2, <1>3
  <2> QED
    BY <2>1 DEF StockInv, Posted
<1>8. InOrder'
  BY <1>1 DEF StockInv, InOrder
<1>9. \A c \in Books : \A m \in locked[c] : Undisturbed(c, m)
  BY <1>3, <1>6
<1>10. Progresses(Control, LastMonth)'
  <2>1. CASE Control = b
    <3>1. \A d : Voucher(d)' \notin journal'[b]
      BY <1>3, <1>4
    <3>2. Rows(Control, LastMonth)' = {}
      BY <2>1, <3>1 DEF Rows
    <3> QED
      BY <3>2 DEF Progresses
  <2>2. CASE Control # b
    BY <1>6, <2>2, ControlKept DEF StockInv
  <2> QED
    BY <2>1, <2>2
<1> QED
  BY <1>1, <1>7, <1>8, <1>9, <1>10, CostsKept DEF StockInv

(* A closing or reopening leaves the vouchers alone, and with them all rows.*)
LEMMA ClosingRows ==
  ASSUME Shape, Facts, Purposes, NEW t \in Requests, Lock(t) \/ Unlock(t)
  PROVE  /\ \A c \in Books : \A m : Undisturbed(c, m)
         /\ \A c \in Books : \A e : e.source = "VOU" => (e \in journal'[c] <=> e \in journal[c])
<1> DEFINE b == request[t].book
           m == request[t].month
<1>1. /\ b \in Books /\ m \in Months /\ UNCHANGED <<document, recorded, opening>>
  BY DEF Lock, Unlock, Purposes, Purposeful
<1>2. /\ \A e \in Depreciated(Wear(b, m), m) \cup Depreciated(Worn(b, m), m) : e.source # "VOU"
      /\ \A e \in Costs(b, m) : e.source # "VOU"
  BY <1>1, ClosingEntries, DepreciatedEntries
<1>3. \A c \in Books \ {b} : journal'[c] = journal[c]
  BY <1>1 DEF Lock, Unlock, Shape
<1>4. \A e : e.source = "VOU" => (e \in journal'[b] <=> e \in journal[b])
  <2>1. CASE Lock(t)
    <3>1. journal'[b] = journal[b] \cup Costs(b, m) \cup Depreciated(Wear(b, m), m)
      BY <1>1, <2>1 DEF Lock, Shape
    <3> QED
      BY <1>2, <3>1
  <2>2. CASE Unlock(t)
    <3>1. journal'[b] = {e \in journal[b] : ~ (e.source = "COST_SETTLEMENT" /\ e.month = m)}
                          \ Depreciated(Worn(b, m), m)
      BY <1>1, <2>2 DEF Unlock, Shape
    <3> QED
      BY <1>2, <3>1
  <2> QED
    BY <2>1, <2>2
<1>5. \A c \in Books : \A e : e.source = "VOU" => (e \in journal'[c] <=> e \in journal[c])
  BY <1>3, <1>4
<1>6. \A d : Voucher(d)' = Voucher(d) /\ Voucher(d).source = "VOU"
  BY <1>1 DEF Voucher
<1>7. \A c \in Books : \A n : Rows(c, n)' = Rows(c, n)
  BY <1>1, <1>5, <1>6 DEF Rows
<1> QED
  BY <1>1, <1>5, <1>7 DEF Undisturbed

LEMMA ClosingKeepsStock ==
  ASSUME Shape, Shape', Facts, Purposes, StockInv, NEW t \in Requests, Lock(t) \/ Unlock(t)
  PROVE  StockInv'
<1>0. PICK b, m : b = request[t].book /\ m = request[t].month
  OBVIOUS
<1>1. /\ b \in Books /\ m \in Months /\ UNCHANGED <<document, recorded>>
  BY <1>0 DEF Lock, Unlock, Purposes, Purposeful
<1>2. /\ \A c \in Books : \A n : Undisturbed(c, n)
      /\ \A c \in Books : \A e : e.source = "VOU" => (e \in journal'[c] <=> e \in journal[c])
  BY ClosingRows
<1>3. Posted'
  <2>1. \A d : Voucher(d)' = Voucher(d)
    BY <1>1 DEF Voucher
  <2> QED
    BY <1>1, <1>2, <2>1 DEF StockInv, Posted
<1>4. InOrder'
  BY <1>1 DEF StockInv, InOrder
<1>5. \A c \in Books : locked[c] \subseteq Months /\ Months \subseteq Int
  BY DEF Shape, Months
<1>6. /\ \A c \in Books \ {b} : locked'[c] = locked[c] /\ allocated'[c] = allocated[c]
      /\ \A n \in Months \ {m} : allocated'[b][n] = allocated[b][n]
      /\ locked'[b] \subseteq locked[b] \cup {m}
      /\ m \in locked'[b] => CostBasis(b, m) /\ allocated'[b][m] = Costed(b, m)
  BY <1>0, <1>1 DEF Lock, Unlock, Shape, Facts
<1>7. \A c \in Books : \A n \in locked'[c] : CostBasis(c, n) /\ allocated'[c][n] = Costed(c, n)
  BY <1>5, <1>6 DEF StockInv, CostsStand, StockStands
<1>8. \A c \in Books : \A n \in locked'[c] : CostBasis(c, n)' /\ allocated'[c][n] = Costed(c, n)'
  <2> SUFFICES ASSUME NEW c \in Books, NEW n \in Int, CostBasis(c, n), allocated'[c][n] = Costed(c, n)
               PROVE  CostBasis(c, n)' /\ allocated'[c][n] = Costed(c, n)'
    <3>1. \A c \in Books : \A n \in locked'[c] : n \in Int
      BY DEF Shape, Months
    <3> QED
      BY <1>7, <3>1
  <2> QED
    BY <1>2, CostingStands
<1>9. Progresses(Control, LastMonth)'
  BY <1>2, ControlKept DEF StockInv
<1> QED
  BY <1>3, <1>4, <1>8, <1>9 DEF StockInv, CostsStand, StockStands

LEMMA StockStep == IInv /\ Facts /\ StockInv /\ [Next]_vars => StockInv'
<1> SUFFICES ASSUME IInv, Facts, StockInv, [Next]_vars PROVE StockInv'
  OBVIOUS
<1>1. Shape /\ Purposes /\ BookInv /\ Shape'
  BY ShapeStep DEF IInv
<1>2. ASSUME UNCHANGED <<facts, derived>> PROVE StockInv'
  <2>1. /\ UNCHANGED <<document, recorded, opening, journal, locked, allocated>>
        /\ \A d : Voucher(d)' = Voucher(d)
    BY <1>2 DEF facts, derived, Voucher
  <2>2. \A c \in Books : \A m : Undisturbed(c, m)
    BY <2>1 DEF Undisturbed, Rows
  <2>3. Posted' /\ InOrder'
    BY <2>1 DEF StockInv, Posted, InOrder
  <2> QED
    BY <1>1, <2>1, <2>2, <2>3, CostsKept, ControlKept DEF StockInv
<1>3. CASE UNCHANGED vars
  BY <1>2, <1>3 DEF vars
<1>4. ASSUME NEW t \in Requests, TakeRow(t) \/ Refuse(t)
      PROVE  StockInv'
  BY <1>2, <1>4 DEF TakeRow, Refuse
<1>5. ASSUME NEW t \in Requests, NEW r \in RequestRow, Begin(t, r)
      PROVE  StockInv'
  BY <1>2, <1>5 DEF Begin
<1> QED
  BY <1>1, <1>3, <1>4, <1>5, SubmitKeepsStock, ApproveKeepsStock, UnapproveKeepsStock,
     OpeningKeepsStock, ClosingKeepsStock, SubmitBegins, ReviewBegins, PeriodBegins DEF Next

LEMMA InitStock == Init => StockInv
  BY DEF Init, StockInv, Posted, InOrder, CostsStand, StockStands, Progresses, Rows

(* assertControlInventoryProgress and settleInventoryCost: the stock of the *)
(* control book is never short, and that of a month a book has closed stays *)
(* what it was closed on, whatever is approved or withdrawn since.          *)
THEOREM StockNeverShort == Spec => []StockStands
<1>1. Init => IInv /\ AssetInv /\ Facts /\ StockInv
  BY InitHolds, InitAssets, InitFacts, InitStock
<1>2. IInv /\ AssetInv /\ Facts /\ StockInv /\ [Next]_vars
        => (IInv /\ AssetInv /\ Facts /\ StockInv)'
  BY StepHolds, AssetStep, FactsStep, StockStep
<1>3. StockInv => StockStands
  BY DEF StockInv
<1> QED
  BY <1>1, <1>2, <1>3, PTL DEF Spec
-------------------------------------------------------------------------------
(* Wear.  A book that does not hold an asset has no wear of it, and none    *)
(* holds an asset that is not in the register; a month that is open has no  *)
(* wear at all.  So a closing writes where there was nothing, and a         *)
(* reopening takes back what its closing wrote.                             *)

HeldInRegister ==
  \A b \in Books : \A a \in Documents :
    /\ ~ worth[b][a].held => worth[b][a] = NoWorth /\ depreciation[b][a] = NoWear
    /\ register[a] = NoDocument => ~ worth[b][a].held

WearInv ==
  /\ WearAddsUp
  /\ HeldInRegister
  /\ \A b \in Books : \A a \in Documents : \A m \in Months : depreciation[b][a][m] >= 0

(* The sum over the months of an asset in a book.                           *)
Sum(wear) == SumFunctionOnSet(wear, Months)

LEMMA FiniteMonths == IsFiniteSet(Months) /\ Months = 1..((LastMonth + 1) - 1) /\ Months \subseteq Int
<1>1. LastMonth \in Int /\ (LastMonth + 1) - 1 = LastMonth
  OBVIOUS
<1> QED
  BY <1>1, FS_Interval DEF Months

LEMMA WornInAll ==
  \A b, a : WornBefore(b, a, LastMonth + 1) = Sum(depreciation[b][a])
  BY FiniteMonths DEF WornBefore, Sum

LEMMA WornInAllNext ==
  \A b, a : WornBefore(b, a, LastMonth + 1)' = Sum(depreciation'[b][a])
  BY FiniteMonths DEF WornBefore, Sum

LEMMA NoWearSum == Sum(NoWear) = 0
<1>1. \A m \in Months : NoWear[m] = 0
  BY DEF NoWear
<1> QED
  BY <1>1, FiniteMonths, SumOfZeros DEF Sum

(* One month written anew.                                                  *)
LEMMA WearWritten ==
  ASSUME NEW wear \in [Months -> Int], NEW m \in Months, NEW n \in Int
  PROVE  /\ Sum(wear) \in Int
         /\ Sum([wear EXCEPT ![m] = n]) = Sum(wear) - wear[m] + n
<1> DEFINE new == [wear EXCEPT ![m] = n]
<1>1. /\ \A k \in Months : wear[k] \in Int /\ new[k] \in Int
      /\ \A k \in Months \ {m} : wear[k] = new[k]
      /\ new[m] = n
  OBVIOUS
<1> HIDE DEF new
<1>2. SumFunctionOnSet(new, Months) = SumFunctionOnSet(wear, Months) - wear[m] + new[m]
  <2>1. IsFiniteSet(Months)
    BY FiniteMonths
  <2>2. /\ \A k \in Months : wear[k] \in Int /\ new[k] \in Int
        /\ \A k \in Months \ {m} : wear[k] = new[k]
    BY <1>1
  <2> QED
    BY <2>1, <2>2, SumChanged
<1>3. SumFunctionOnSet(wear, Months) \in Int
  BY <1>1, FiniteMonths, SumInteger
<1> QED
  BY <1>1, <1>2, <1>3 DEF Sum, new

LEMMA WearNatural ==
  ASSUME NEW wear \in [Months -> Nat]
  PROVE  Sum(wear) \in Nat
  BY FiniteMonths, SumNatural DEF Sum

(* What falls due of an asset never goes beyond its life.                   *)
LEMMA DueFits ==
  ASSUME Shape, NEW b \in Books, NEW a \in Documents, NEW m \in Months, NEW spent \in 0..Life
  PROVE  LET n == Due(b, a, m, spent) IN
         /\ n \in Int /\ n >= 0 /\ spent + n \in 0..Life
         /\ ~ worth[b][a].basis => n = 0
<1>1. m \in Int /\ document[a].month \in Int /\ Life \in Nat
  BY DEF Shape, DocumentRow, Months
<1> QED
  BY <1>1 DEF Due
WearFits(b, a) ==
  /\ worth[b][a].spent = Sum(depreciation[b][a])
  /\ worth[b][a].spent \in 0..Life
  /\ \A m \in Months : /\ depreciation[b][a][m] >= 0
                       /\ m \notin locked[b] => depreciation[b][a][m] = 0
  /\ ~ worth[b][a].held => worth[b][a] = NoWorth /\ depreciation[b][a] = NoWear
  /\ register[a] = NoDocument => ~ worth[b][a].held

WearFitsAll == \A b \in Books : \A a \in Documents : WearFits(b, a)

LEMMA WearPointwise == WearInv <=> WearFitsAll
  BY WornInAll DEF WearInv, WearAddsUp, HeldInRegister, WearFits, WearFitsAll

LEMMA WearPointwiseNext == WearInv' <=> WearFitsAll'
  BY WearPointwise, PTL

LEMMA SameFits ==
  ASSUME NEW b \in Books, NEW a \in Documents, WearFits(b, a),
         worth'[b][a] = worth[b][a], depreciation'[b][a] = depreciation[b][a],
         locked[b] \subseteq locked'[b],
         register'[a] = NoDocument => register[a] = NoDocument
  PROVE  WearFits(b, a)'
  BY DEF WearFits

(* An asset that a book comes to hold, or holds no longer.                  *)
LEMMA FreshFits ==
  ASSUME NEW b \in Books, NEW a \in Documents, depreciation'[b][a] = NoWear,
         \/ worth'[b][a] = NoWorth
         \/ worth'[b][a].spent = 0 /\ worth'[b][a].held /\ register'[a] # NoDocument
  PROVE  WearFits(b, a)'
<1>1. worth'[b][a].spent = 0 /\ 0 \in 0..Life /\ Sum(depreciation'[b][a]) = 0
  BY NoWearSum DEF NoWorth
<1>2. \A m \in Months : depreciation'[b][a][m] = 0
  BY DEF NoWear
<1> QED
  BY <1>1, <1>2 DEF WearFits, NoWorth

LEMMA DocumentKeepsWear ==
  ASSUME Shape, Facts, AssetInv, Purposes, WearInv, NEW t \in Requests, Approve(t) \/ Unapprove(t)
  PROVE  WearInv'
<1>0. PICK d : d = request[t].id
  OBVIOUS
<1>1. /\ d \in Documents /\ locked' = locked
      /\ Approve(t) => document[d].status = "open" /\ Register(d) /\ depreciation' = depreciation
      /\ Unapprove(t) => Deregister(d)
  BY <1>0, WritingOpen DEF Approve, Unapprove, derived
<1> SUFFICES ASSUME NEW b \in Books, NEW a \in Documents PROVE WearFits(b, a)'
  BY WearPointwiseNext DEF WearFitsAll
<1>2. WearFits(b, a)
  BY WearPointwise DEF WearFitsAll
<1>3. CASE document[d].kind = "acquire" /\ Approve(t)
  <2>1. /\ register' = [register EXCEPT ![d] = d] /\ depreciation' = depreciation
        /\ worth' = [c \in Books |-> IF c \in Applicable(document[d].month)
             THEN [worth[c] EXCEPT ![d] = [held |-> TRUE, spent |-> 0, basis |-> c \in PostingTo(d)]]
             ELSE worth[c]]
    BY <1>1, <1>3 DEF Register
  <2>2. register[d] = NoDocument /\ register'[d] # NoDocument
    BY <1>1, <1>3, <2>1 DEF AssetInv, AssetsAccountedFor
  <2>3. CASE a = d /\ b \in Applicable(document[d].month)
    <3>1. worth'[b][a] = [held |-> TRUE, spent |-> 0, basis |-> b \in PostingTo(d)]
      BY <2>1, <2>3 DEF Facts
    <3>2. depreciation'[b][a] = NoWear
      BY <1>2, <2>1, <2>2, <2>3 DEF WearFits
    <3> QED
      BY <2>2, <2>3, <3>1, <3>2, FreshFits
  <2>4. CASE ~ (a = d /\ b \in Applicable(document[d].month))
    <3>1. worth'[b][a] = worth[b][a]
      BY <2>1, <2>4 DEF Facts
    <3>2. register'[a] = NoDocument => register[a] = NoDocument
      BY <2>1, <2>2 DEF Facts
    <3> QED
      BY <1>1, <1>2, <2>1, <3>1, <3>2, SameFits
  <2> QED
    BY <2>3, <2>4
<1>4. CASE document[d].kind = "acquire" /\ Unapprove(t)
  <2>1. DropAsset(d)
    BY <1>1, <1>4 DEF Deregister
  <2>2. CASE a = d
    <3>1. worth'[b][a] = NoWorth /\ depreciation'[b][a] = NoWear
      BY <2>1, <2>2 DEF DropAsset, Facts
    <3> QED
      BY <3>1, FreshFits
  <2>3. CASE a # d
    <3>1. /\ worth'[b][a] = worth[b][a] /\ depreciation'[b][a] = depreciation[b][a]
          /\ register'[a] = register[a]
      BY <2>1, <2>3 DEF DropAsset, Facts
    <3> QED
      BY <1>1, <1>2, <3>1, SameFits
  <2> QED
    BY <2>2, <2>3
<1>5. CASE document[d].kind # "acquire"
  <2>1. UNCHANGED <<worth, depreciation>>
    BY <1>1, <1>5 DEF Register, Deregister
  <2>2. register'[a] = NoDocument => register[a] = NoDocument
    <3>1. CASE Approve(t)
      BY <1>1, <1>5, <3>1 DEF Register, Facts
    <3>2. CASE Unapprove(t)
      BY <1>1, <1>5, <3>2 DEF Deregister, Facts
    <3> QED
      BY <3>1, <3>2
  <2> QED
    BY <1>1, <1>2, <2>1, <2>2, SameFits
<1> QED
  BY <1>3, <1>4, <1>5

LEMMA OpeningKeepsWear ==
  ASSUME Shape, Facts, BookInv, WearInv, NEW c \in Books,
         \/ ApproveOpening(c) \/ UnapproveOpening(c) \/ DeleteOpening(c)
         \/ \E s \in OpeningStock, adopts \in SUBSET (IF OpeningAdopts THEN Documents ELSE {}) :
              SubmitOpening(c, adopts, s)
  PROVE  WearInv'
<1>1. UNCHANGED <<register, depreciation, locked>>
  BY DEF ApproveOpening, UnapproveOpening, DeleteOpening, SubmitOpening, derived
<1> SUFFICES ASSUME NEW b \in Books, NEW a \in Documents PROVE WearFits(b, a)'
  BY WearPointwiseNext DEF WearFitsAll
<1>2. WearFits(b, a)
  BY WearPointwise DEF WearFitsAll
<1>3. CASE worth'[b][a] = worth[b][a]
  BY <1>1, <1>2, <1>3, SameFits
<1>4. CASE worth'[b][a] # worth[b][a]
  <2>1. b = c /\ a \in opening[c].adopts /\ (ApproveOpening(c) \/ UnapproveOpening(c))
    BY <1>4 DEF ApproveOpening, UnapproveOpening, DeleteOpening, SubmitOpening, Facts
  <2>2. CASE ApproveOpening(c)
    <3>1. /\ worth'[b][a] = [held |-> TRUE, basis |-> TRUE, spent |-> 0]
          /\ register[a] # NoDocument /\ ~ worth[b][a].held
      BY <2>1, <2>2 DEF ApproveOpening, Facts
    <3> QED
      BY <1>1, <1>2, <3>1, FreshFits DEF WearFits
  <2>3. CASE UnapproveOpening(c)
    <3>1. worth'[b][a] = NoWorth /\ locked[b] = {}
      BY <2>1, <2>3 DEF UnapproveOpening, Facts
    <3>2. depreciation[b][a] \in [Months -> Int] /\ \A m \in Months : depreciation[b][a][m] = 0
      BY <1>2, <3>1 DEF WearFits, Facts
    <3>3. depreciation[b][a] = NoWear
      BY <3>2 DEF NoWear
    <3> QED
      BY <1>1, <3>1, <3>3, FreshFits
  <2> QED
    BY <2>1, <2>2, <2>3
<1> QED
  BY <1>3, <1>4
(* What a closing, or a reopening, does to one asset.                       *)
LEMMA LockWrites ==
  ASSUME Shape, Facts, NEW b \in Books, NEW m \in Months, NEW t \in Requests, Lock(t),
         b = request[t].book, m = request[t].month, NEW a \in Documents
  PROVE  /\ worth'[b][a] = [worth[b][a] EXCEPT !.spent = @ + Due(b, a, m, worth[b][a].spent)]
         /\ depreciation'[b][a] =
              [depreciation[b][a] EXCEPT ![m] = Due(b, a, m, worth[b][a].spent)]
         /\ locked'[b] = locked[b] \cup {m}
<1>1. Wear(b, m)[a] = Due(b, a, m, worth[b][a].spent)
  BY DEF Wear
<1>2. /\ worth' = [worth EXCEPT ![b] = [x \in Documents |->
                     [worth[b][x] EXCEPT !.spent = @ + Wear(b, m)[x]]]]
      /\ depreciation' = [depreciation EXCEPT ![b] = [x \in Documents |->
                            [depreciation[b][x] EXCEPT ![m] = Wear(b, m)[x]]]]
      /\ locked' = [locked EXCEPT ![b] = locked[b] \cup {m}]
  BY DEF Lock
<1> QED
  BY <1>1, <1>2 DEF Facts, Shape

LEMMA UnlockWrites ==
  ASSUME Shape, Facts, NEW b \in Books, NEW m \in Months, NEW t \in Requests, Unlock(t),
         b = request[t].book, m = request[t].month, NEW a \in Documents
  PROVE  /\ worth'[b][a] = [worth[b][a] EXCEPT !.spent = @ - depreciation[b][a][m]]
         /\ depreciation'[b][a] = [depreciation[b][a] EXCEPT ![m] = 0]
         /\ locked'[b] = locked[b] \ {m}
<1>1. Worn(b, m)[a] = depreciation[b][a][m]
  BY DEF Worn
<1>2. /\ worth' = [worth EXCEPT ![b] = [x \in Documents |->
                     [worth[b][x] EXCEPT !.spent = @ - Worn(b, m)[x]]]]
      /\ depreciation' = [depreciation EXCEPT ![b] = [x \in Documents |->
                            [depreciation[b][x] EXCEPT ![m] = 0]]]
      /\ locked' = [locked EXCEPT ![b] = locked[b] \ {m}]
  BY DEF Unlock, Restored
<1> QED
  BY <1>1, <1>2 DEF Facts, Shape

LEMMA ElsewhereUntouched ==
  ASSUME Shape, Facts, NEW t \in Requests, Lock(t) \/ Unlock(t),
         NEW c \in Books, c # request[t].book
  PROVE  /\ worth'[c] = worth[c] /\ depreciation'[c] = depreciation[c]
         /\ locked'[c] = locked[c] /\ journal'[c] = journal[c]
  BY DEF Lock, Unlock, Facts, Shape

LEMMA ClosingKeepsWear ==
  ASSUME Shape, Facts, Purposes, Validated, WearInv, NEW t \in Requests, Lock(t) \/ Unlock(t)
  PROVE  WearInv'
<1>0. PICK m : m = request[t].month
  OBVIOUS
<1> SUFFICES ASSUME NEW b \in Books, NEW a \in Documents PROVE WearFits(b, a)'
  BY WearPointwiseNext DEF WearFitsAll
<1>1. WearFits(b, a) /\ UNCHANGED register /\ m \in Months
  BY <1>0, WearPointwise DEF WearFitsAll, Lock, Unlock, Purposes, Purposeful
<1>2. CASE b # request[t].book
  BY <1>1, <1>2, ElsewhereUntouched, SameFits
<1>3. CASE b = request[t].book
  <2> DEFINE wear == depreciation[b][a]
             spent == worth[b][a].spent
             new == depreciation'[b][a]
  <2>1. wear \in [Months -> Int] /\ worth[b][a] \in WorthRow /\ m \in Int /\ Life \in Nat
    BY <1>1 DEF Facts, Months
  <2>2. CASE Lock(t)
    <3> DEFINE n == Due(b, a, m, worth[b][a].spent)
    <3>1. /\ n \in Int /\ n >= 0 /\ spent + n \in 0..Life
          /\ ~ worth[b][a].basis => n = 0
      BY <1>1, DueFits DEF WearFits
    <3>2. /\ worth'[b][a] = [worth[b][a] EXCEPT !.spent = @ + n]
          /\ new = [wear EXCEPT ![m] = n]
          /\ locked'[b] = locked[b] \cup {m}
      BY <1>0, <1>1, <1>3, <2>2, LockWrites
    <3>3. m \notin locked[b]
      BY <1>0, <1>3, <2>2, LockFacts
    <3>4. wear[m] = 0
      BY <1>1, <3>3 DEF WearFits
    <3> HIDE DEF n, wear, spent, new
    <3>5. worth'[b][a].spent = spent + n /\ worth'[b][a].held = worth[b][a].held
      BY <2>1, <3>2 DEF WorthRow, spent
    <3>6. Sum(new) = Sum(wear) + n
      <4>1. Sum(wear) \in Int /\ Sum([wear EXCEPT ![m] = n]) = Sum(wear) - wear[m] + n
        BY <1>1, <2>1, <3>1, WearWritten
      <4> QED
        BY <3>1, <3>2, <3>4, <4>1
    <3>7. \A k \in Months : /\ new[k] >= 0
                            /\ k \notin locked'[b] => new[k] = 0
      BY <1>1, <2>1, <3>1, <3>2 DEF WearFits, wear
    <3>8. ~ worth[b][a].held => worth'[b][a] = NoWorth /\ new = NoWear
      <4> SUFFICES ASSUME ~ worth[b][a].held PROVE worth'[b][a] = NoWorth /\ new = NoWear
        OBVIOUS
      <4>1. worth[b][a] = NoWorth /\ wear = NoWear
        BY <1>1 DEF WearFits, wear
      <4>2. n = 0
        BY <3>1, <4>1 DEF NoWorth
      <4> QED
        BY <3>2, <4>1, <4>2 DEF NoWorth, NoWear
    <3> QED
      BY <1>1, <3>1, <3>5, <3>6, <3>7, <3>8 DEF WearFits, new, wear, spent
  <2>3. CASE Unlock(t)
    <3>1. /\ worth'[b][a] = [worth[b][a] EXCEPT !.spent = @ - wear[m]]
          /\ new = [wear EXCEPT ![m] = 0]
          /\ locked'[b] = locked[b] \ {m}
      BY <1>0, <1>1, <1>3, <2>3, UnlockWrites
    <3> HIDE DEF wear, spent, new
    <3>2. worth'[b][a].spent = spent - wear[m] /\ worth'[b][a].held = worth[b][a].held
      BY <2>1, <3>1 DEF WorthRow, spent
    <3>3. Sum(new) = Sum(wear) - wear[m] /\ Sum(wear) \in Int
      <4>1. PICK n \in Int : n = 0
        OBVIOUS
      <4>2. Sum(wear) \in Int /\ Sum([wear EXCEPT ![m] = n]) = Sum(wear) - wear[m] + n
        BY <1>1, <2>1, WearWritten
      <4> QED
        BY <1>1, <2>1, <3>1, <4>1, <4>2
    <3>4. \A k \in Months : /\ new[k] >= 0 /\ wear[k] >= 0
                            /\ k \notin locked'[b] => new[k] = 0
      BY <1>1, <2>1, <3>1 DEF WearFits, wear
    <3>5. Sum(new) \in Nat
      <4>1. new \in [Months -> Int]
        BY <1>1, <2>1, <3>1
      <4>2. \A k \in Months : new[k] \in Nat
        BY <3>4, <4>1
      <4>3. new \in [Months -> Nat]
        BY <4>1, <4>2
      <4> QED
        BY <4>3, WearNatural
    <3>6. spent = Sum(wear) /\ spent \in 0..Life
      BY <1>1 DEF WearFits, wear, spent
    <3>7. spent - wear[m] \in 0..Life
      BY <1>1, <2>1, <3>3, <3>4, <3>5, <3>6
    <3>8. ~ worth[b][a].held => worth'[b][a] = NoWorth /\ new = NoWear
      BY <1>1, <3>1 DEF WearFits, NoWorth, NoWear, wear
    <3> QED
      BY <1>1, <3>2, <3>3, <3>4, <3>6, <3>7, <3>8 DEF WearFits, new
  <2> QED
    BY <2>2, <2>3
<1> QED
  BY <1>2, <1>3

LEMMA WearStep == IInv /\ AssetInv /\ Facts /\ WearInv /\ [Next]_vars => WearInv'
<1> SUFFICES ASSUME IInv, AssetInv, Facts, WearInv, [Next]_vars PROVE WearInv'
  OBVIOUS
<1>1. Shape /\ Purposes /\ Validated /\ BookInv
  BY DEF IInv
<1>2. ASSUME UNCHANGED <<register, worth, depreciation, locked>> PROVE WearInv'
  <2>1. \A b \in Books : \A a \in Documents : WearFits(b, a)'
    BY <1>2, WearPointwise, SameFits DEF WearFitsAll
  <2> QED
    BY <2>1, WearPointwiseNext DEF WearFitsAll
<1>3. CASE UNCHANGED vars
  BY <1>2, <1>3 DEF vars, facts, derived
<1>4. ASSUME NEW t \in Requests, Submit(t) \/ Delete(t) \/ TakeRow(t) \/ Refuse(t)
      PROVE  WearInv'
  BY <1>2, <1>4 DEF Submit, Delete, TakeRow, Refuse, facts, derived
<1>5. ASSUME NEW t \in Requests, NEW r \in RequestRow, Begin(t, r)
      PROVE  WearInv'
  BY <1>2, <1>5 DEF Begin, facts, derived
<1> QED
  BY <1>1, <1>3, <1>4, <1>5, DocumentKeepsWear, OpeningKeepsWear, ClosingKeepsWear,
     SubmitBegins, ReviewBegins, PeriodBegins DEF Next

LEMMA InitWear == Init => WearInv
<1> SUFFICES ASSUME Init PROVE WearInv
  OBVIOUS
<1>1. \A b \in Books : \A a \in Documents :
        worth[b][a] = NoWorth /\ depreciation[b][a] = NoWear
  BY DEF Init
<1>2. \A m \in Months : NoWear[m] = 0
  BY DEF NoWear
<1>3. NoWorth.spent = 0 /\ ~ NoWorth.held /\ 0 \in 0..Life
  BY DEF NoWorth
<1>4. WearFitsAll
  BY <1>1, <1>2, <1>3, NoWearSum DEF WearFitsAll, WearFits
<1> QED
  BY <1>4, WearPointwise

(* settleDepreciation and removeDepreciation: what a book holds as worn off *)
(* an asset is what its closed months wore off, and within the asset's life.*)
THEOREM WearIsWhatWasClosed == Spec => []WearAddsUp
<1>1. Init => IInv /\ AssetInv /\ Facts /\ WearInv
  BY InitHolds, InitAssets, InitFacts, InitWear
<1>2. IInv /\ AssetInv /\ Facts /\ WearInv /\ [Next]_vars
        => (IInv /\ AssetInv /\ Facts /\ WearInv)'
  BY StepHolds, AssetStep, FactsStep, WearStep
<1>3. WearInv => WearAddsUp
  BY DEF WearInv
<1> QED
  BY <1>1, <1>2, <1>3, PTL DEF Spec
-------------------------------------------------------------------------------
(* Closed months are reproducible where no opening takes over an asset and  *)
(* no disposal is dated before the acquisition.  Then a book has a basis    *)
(* only for assets acquired in its time: an acquisition or a disposal is of *)
(* a month later than those the book has closed, and changes nothing they   *)
(* were computed from.                                                      *)

Unmixed == ~ OpeningAdopts /\ ~ EarlyDisposals

(* The journal has the entries of what is worn off in a month.              *)
Ledger(b, m) ==
  {e \in journal[b] : e.source = "DEPRECIATION" /\ e.month = m} = Depreciated(Worn(b, m), m)

InUse(a) == register[a] \in Documents => document[a].month <= document[register[a]].month

Scheduled(b, a) ==
  /\ \A m \in locked[b] : depreciation[b][a][m] = Due(b, a, m, WornBefore(b, a, m))
  /\ worth[b][a].basis => Start[b] <= document[a].month

ScheduleInv ==
  /\ \A b \in Books : opening[b].adopts = {}
  /\ \A b \in Books : \A m \in Months : Ledger(b, m)
  /\ \A b \in Books : \A a \in Documents : Scheduled(b, a)
  /\ \A a \in Documents : InUse(a)

(* Where a book has no wear of an asset and all its closed months come      *)
(* before the acquisition, nothing was due in them.                         *)
LEMMA NothingDue ==
  ASSUME Shape', NEW b \in Books, NEW a \in Documents, locked'[b] = locked[b],
         depreciation'[b][a] = NoWear,
         worth'[b][a].basis => /\ Start[b] <= document'[a].month
                               /\ \A m \in locked[b] : m < document'[a].month
  PROVE  Scheduled(b, a)'
<1> SUFFICES ASSUME NEW m \in locked[b]
             PROVE  depreciation'[b][a][m] = Due(b, a, m, WornBefore(b, a, m))'
  BY DEF Scheduled
<1>1. m \in Months /\ m \in Int /\ document'[a].month \in Int
  BY DEF Shape, DocumentRow, Months
<1>2. NoWear[m] = 0
  BY <1>1 DEF NoWear
<1>3. worth'[b][a].basis => m - document'[a].month <= 0
  BY <1>1
<1>4. Due(b, a, m, WornBefore(b, a, m))' = 0
  BY <1>3 DEF Due
<1> QED
  BY <1>2, <1>4

LEMMA SameSchedule ==
  ASSUME NEW b \in Books, NEW a \in Documents, Scheduled(b, a), locked'[b] = locked[b],
         depreciation'[b][a] = depreciation[b][a], worth'[b][a] = worth[b][a],
         document'[a].month = document[a].month,
         worth[b][a].basis =>
           \A m \in locked[b] : DisposedBefore(a, m)' <=> DisposedBefore(a, m)
  PROVE  Scheduled(b, a)'
<1> SUFFICES ASSUME NEW m \in locked[b]
             PROVE  Due(b, a, m, WornBefore(b, a, m))' = Due(b, a, m, WornBefore(b, a, m))
  BY DEF Scheduled
<1>1. WornBefore(b, a, m)' = WornBefore(b, a, m)
  BY DEF WornBefore
<1>2. worth[b][a].basis => (DisposedBefore(a, m)' <=> DisposedBefore(a, m))
  OBVIOUS
<1> QED
  BY <1>1, <1>2 DEF Due

(* The journal has the same entries of depreciation.                        *)
LEMMA SameLedger ==
  ASSUME NEW b \in Books, NEW m \in Months, Ledger(b, m), depreciation'[b] = depreciation[b],
         \A e : e.source = "DEPRECIATION" => (e \in journal'[b] <=> e \in journal[b])
  PROVE  Ledger(b, m)'
<1>1. Worn(b, m)' = Worn(b, m)
  BY DEF Worn
<1>2. Depreciated(Worn(b, m), m)' = Depreciated(Worn(b, m), m)
  BY <1>1 DEF Depreciated
<1>3. \A e : e \in {x \in journal'[b] : x.source = "DEPRECIATION" /\ x.month = m}
               <=> e \in {x \in journal[b] : x.source = "DEPRECIATION" /\ x.month = m}
  OBVIOUS
<1> QED
  BY <1>2, <1>3 DEF Ledger

(* An asset that is in the register, and what disposed of it, are approved. *)
LEMMA Registered ==
  ASSUME AssetInv, NEW a \in Documents, register[a] # NoDocument
  PROVE  /\ register[a] \in Documents
         /\ document[a].status = "approved" /\ document[register[a]].status = "approved"
  BY DEF AssetInv, AssetsAccountedFor

LEMMA NoneHeld ==
  ASSUME WearInv, NEW b \in Books, NEW a \in Documents, register[a] = NoDocument
  PROVE  worth[b][a] = NoWorth /\ depreciation[b][a] = NoWear /\ ~ worth[b][a].basis
  BY DEF WearInv, HeldInRegister, NoWorth

LEMMA SubmitKeepsSchedule ==
  ASSUME Shape, Shape', Purposes, AssetInv, WearInv, ScheduleInv,
         NEW t \in Requests, Submit(t) \/ Delete(t)
  PROVE  ScheduleInv'
<1>0. PICK d : d = request[t].id
  OBVIOUS
<1>1. /\ d \in Documents /\ document[d].status # "approved"
      /\ \A x \in Documents \ {d} : document'[x] = document[x]
      /\ UNCHANGED <<register, worth, opening, journal, depreciation, locked>>
  BY <1>0, WritingOpen, DocumentChanges DEF Submit, Delete, derived
<1>2. ASSUME NEW b \in Books, NEW m \in Months PROVE Ledger(b, m)'
  BY <1>1, SameLedger DEF ScheduleInv
<1>3. ASSUME NEW a \in Documents, register[a] # NoDocument
      PROVE  /\ document'[a] = document[a] /\ InUse(a)'
             /\ \A m : DisposedBefore(a, m)' <=> DisposedBefore(a, m)
  <2>1. register[a] \in Documents /\ a # d /\ register[a] # d
    BY <1>1, <1>3, Registered
  <2> QED
    BY <1>1, <2>1 DEF ScheduleInv, InUse, DisposedBefore
<1>4. ASSUME NEW b \in Books, NEW a \in Documents PROVE Scheduled(b, a)'
  <2>1. CASE register[a] = NoDocument
    BY <1>1, <2>1, NoneHeld, NothingDue
  <2>2. CASE register[a] # NoDocument
    <3>1. Scheduled(b, a)
      BY DEF ScheduleInv
    <3> QED
      BY <1>1, <1>3, <2>2, <3>1, SameSchedule
  <2> QED
    BY <2>1, <2>2
<1>5. \A a \in Documents : InUse(a)'
  BY <1>1, <1>3 DEF InUse
<1> QED
  BY <1>1, <1>2, <1>4, <1>5 DEF ScheduleInv

(* A book that has a basis for an asset has closed no month as late as that *)
(* of its acquisition, or of its disposal, while these are reviewed.        *)
LEMMA ClosedBefore ==
  ASSUME Shape, BookInv, NEW b \in Books, NEW n \in Nat, Start[b] <= n, ~ Closed(n)
  PROVE  \A m \in locked[b] : m < n /\ ~ (n < m)
<1> SUFFICES ASSUME NEW m \in locked[b] PROVE m < n /\ ~ (n < m)
  OBVIOUS
<1>1. m \in Nat /\ m < n
  BY ClosedEarlier DEF Shape, Months, BookInv
<1> QED
  BY <1>1

LEMMA DocumentKeepsLedger ==
  ASSUME ScheduleInv, Facts, NEW d \in Documents, depreciation' = depreciation,
         \A b \in Books : \A e : e # Voucher(d) => (e \in journal'[b] <=> e \in journal[b])
  PROVE  \A b \in Books : \A m \in Months : Ledger(b, m)'
<1>1. Voucher(d).source # "DEPRECIATION"
  BY DEF Voucher
<1> QED
  BY <1>1, SameLedger DEF ScheduleInv

LEMMA ApproveKeepsSchedule ==
  ASSUME Unmixed, Shape, Shape', Purposes, BookInv, AssetInv, Facts, WearInv, ScheduleInv,
         NEW t \in Requests, Approve(t)
  PROVE  ScheduleInv'
<1>0. PICK d : d = request[t].id
  OBVIOUS
<1>1. /\ d \in Documents /\ document[d].status = "open" /\ ~ Closed(document[d].month)
      /\ document' = [document EXCEPT ![d].status = "approved"]
      /\ journal' = [b \in Books |-> journal[b] \cup (IF b \in PostingTo(d) THEN {Voucher(d)} ELSE {})]
      /\ Register(d)
      /\ UNCHANGED <<opening, locked, depreciation>>
  BY <1>0, WritingOpen DEF Approve, Writing, derived
<1>2. /\ \A x \in Documents : document'[x].month = document[x].month /\ document[x].month \in Nat
      /\ \A x \in Documents \ {d} : document'[x] = document[x]
  BY <1>1 DEF Shape, DocumentRow, Months
<1>3. \A b \in Books : \A m \in Months : Ledger(b, m)'
  <2>1. \A b \in Books : \A e : e # Voucher(d) => (e \in journal'[b] <=> e \in journal[b])
    BY <1>1
  <2> QED
    BY <1>1, <2>1, DocumentKeepsLedger
<1>4. register[d] = NoDocument /\ \A a \in Documents : register[a] # d \/ d = a
  BY <1>1 DEF AssetInv, AssetsAccountedFor
<1>5. ASSUME NEW b \in Books, NEW a \in Documents,
             worth'[b][a] = worth[b][a], register'[a] = register[a]
      PROVE  Scheduled(b, a)'
  <2>1. Scheduled(b, a)
    BY DEF ScheduleInv
  <2>2. \A m : DisposedBefore(a, m)' <=> DisposedBefore(a, m)
    BY <1>2, <1>5 DEF DisposedBefore
  <2> QED
    BY <1>1, <1>2, <1>5, <2>1, <2>2, SameSchedule
<1>6. ASSUME NEW a \in Documents, register'[a] = register[a] PROVE InUse(a)'
  BY <1>2, <1>6 DEF ScheduleInv, InUse, Facts
<1>7. CASE document[d].kind = "acquire"
  <2>1. /\ register' = [register EXCEPT ![d] = d]
        /\ worth' = [c \in Books |-> IF c \in Applicable(document[d].month)
             THEN [worth[c] EXCEPT ![d] = [held |-> TRUE, spent |-> 0, basis |-> c \in PostingTo(d)]]
             ELSE worth[c]]
    BY <1>1, <1>7 DEF Register
  <2>2. \A a \in Documents : InUse(a)'
    <3>0. register' = [register EXCEPT ![d] = d]
      BY <2>1
    <3>1. \A a \in Documents \ {d} : register'[a] = register[a]
      BY <3>0 DEF Facts
    <3>2. register'[d] = d
      BY <1>1, <3>0 DEF Facts
    <3>3. InUse(d)'
      BY <1>2, <3>2 DEF InUse
    <3> QED
      BY <1>6, <3>1, <3>3
  <2>3. ASSUME NEW b \in Books, NEW a \in Documents PROVE Scheduled(b, a)'
    <3>1. CASE a # d
      <4>1. worth'[b][a] = worth[b][a] /\ register'[a] = register[a]
        BY <2>1, <3>1 DEF Facts
      <4> QED
        BY <1>5, <4>1
    <3>2. CASE a = d
      <4>1. depreciation'[b][d] = NoWear /\ ~ worth[b][d].basis
        BY <1>1, <1>4, NoneHeld
      <4>2. worth'[b][d].basis => b \in PostingTo(d)
        <5>1. CASE b \in Applicable(document[d].month)
          <6>1. worth'[b] = [worth[b] EXCEPT ![d] = [held |-> TRUE, spent |-> 0, basis |-> b \in PostingTo(d)]]
            BY <2>1, <5>1
          <6>2. worth[b] \in [Documents -> WorthRow]
            BY DEF Facts
          <6>3. worth'[b][d] = [held |-> TRUE, spent |-> 0, basis |-> b \in PostingTo(d)]
            BY <1>1, <6>1, <6>2
          <6>4. worth'[b][d].basis = (b \in PostingTo(d))
            BY <6>3
          <6> QED
            BY <6>4
        <5>2. CASE b \notin Applicable(document[d].month)
          <6>1. worth'[b] = worth[b]
            BY <2>1, <5>2
          <6> QED
            BY <4>1, <6>1
        <5> QED
          BY <5>1, <5>2
      <4>3. b \in PostingTo(d) => Start[b] <= document[d].month
        BY DEF PostingTo, Applicable
      <4>4. Start[b] <= document[d].month => \A m \in locked[b] : m < document[d].month
        BY <1>1, <1>2, ClosedBefore
      <4> QED
        BY <1>1, <1>2, <3>2, <4>1, <4>2, <4>3, <4>4, NothingDue
    <3> QED
      BY <3>1, <3>2
  <2> QED
    BY <1>1, <1>3, <2>2, <2>3 DEF ScheduleInv
<1>8. CASE document[d].kind = "dispose"
  <2>1. PICK x : x = document[d].asset
    OBVIOUS
  <2>2. /\ x \in Documents \ {d} /\ register[x] = x /\ document[x].month <= document[d].month
        /\ register' = [register EXCEPT ![x] = d] /\ worth' = worth
    BY <1>1, <1>8, <2>1 DEF Register, Active, AssetInv, Unmixed
  <2>3. \A a \in Documents : InUse(a)'
    <3>1. \A a \in Documents \ {x} : register'[a] = register[a]
      BY <2>2 DEF Facts
    <3>2. register'[x] = d
      BY <2>2 DEF Facts
    <3>3. InUse(x)'
      BY <1>1, <1>2, <2>2, <3>2 DEF InUse
    <3> QED
      BY <1>6, <3>1, <3>3
  <2>4. ASSUME NEW b \in Books, NEW a \in Documents PROVE Scheduled(b, a)'
    <3>1. CASE a # x
      <4>1. register'[a] = register[a]
        BY <2>2, <3>1 DEF Facts
      <4> QED
        BY <1>5, <2>2, <4>1
    <3>2. CASE a = x
      <4>1. Scheduled(b, x)
        BY <2>2 DEF ScheduleInv
      <4>2. \A m : ~ DisposedBefore(x, m)
        BY <2>2 DEF DisposedBefore
      <4>3. worth[b][x].basis => Start[b] <= document[d].month
        <5>1. worth[b][x].basis => Start[b] <= document[x].month
          BY <4>1 DEF Scheduled
        <5>2. Start[b] \in Nat /\ document[x].month \in Nat /\ document[d].month \in Nat
          BY <1>1, <1>2, <2>2
        <5> QED
          BY <2>2, <5>1, <5>2
      <4>4. Start[b] <= document[d].month => \A m \in locked[b] : ~ (document[d].month < m)
        BY <1>1, <1>2, ClosedBefore
      <4>5. register'[x] = d
        BY <2>2 DEF Facts
      <4>6. worth[b][x].basis => \A m \in locked[b] : ~ DisposedBefore(x, m)'
        BY <1>1, <1>2, <4>3, <4>4, <4>5 DEF DisposedBefore
      <4> QED
        BY <1>1, <1>2, <2>2, <3>2, <4>1, <4>2, <4>6, SameSchedule
    <3> QED
      BY <3>1, <3>2
  <2> QED
    BY <1>1, <1>3, <2>3, <2>4 DEF ScheduleInv
<1>9. CASE document[d].kind \notin {"acquire", "dispose"}
  <2>1. register' = register /\ worth' = worth
    BY <1>1, <1>9 DEF Register
  <2> QED
    BY <1>1, <1>3, <1>5, <1>6, <2>1 DEF ScheduleInv
<1> QED
  BY <1>7, <1>8, <1>9

(* Whatever a book held of an acquisition that is unapproved, the months it *)
(* has closed are earlier and wore nothing off.                             *)
LEMMA UnwornAcquisition ==
  ASSUME Shape, BookInv, Facts, WearInv, ScheduleInv, NEW d \in Documents,
         ~ Closed(document[d].month), NEW b \in Books
  PROVE  depreciation[b][d] = NoWear
<1>1. depreciation[b][d] \in [Months -> Int]
  BY DEF Facts
<1> SUFFICES ASSUME NEW m \in Months PROVE depreciation[b][d][m] = 0
  BY <1>1 DEF NoWear
<1>2. CASE m \notin locked[b]
  BY <1>2 DEF WearInv, WearAddsUp
<1>3. CASE m \in locked[b]
  <2>1. Scheduled(b, d)
    BY DEF ScheduleInv
  <2>2. document[d].month \in Nat /\ m \in Int
    BY DEF Shape, DocumentRow, Months
  <2>3. worth[b][d].basis => m - document[d].month <= 0
    BY <1>3, <2>1, <2>2, ClosedBefore DEF Scheduled
  <2>4. Due(b, d, m, WornBefore(b, d, m)) = 0
    BY <2>3 DEF Due
  <2> QED
    BY <1>3, <2>1, <2>4 DEF Scheduled
<1> QED
  BY <1>2, <1>3

LEMMA UnapproveKeepsSchedule ==
  ASSUME Shape, Shape', Purposes, BookInv, AssetInv, Facts, WearInv, ScheduleInv,
         NEW t \in Requests, Unapprove(t)
  PROVE  ScheduleInv'
<1>0. PICK d : d = request[t].id
  OBVIOUS
<1>1. /\ d \in Documents /\ document[d].status = "approved" /\ ~ Closed(document[d].month)
      /\ document' = [document EXCEPT ![d].status = "open"]
      /\ journal' = [b \in Books |-> journal[b] \ {Voucher(d)}]
      /\ Deregister(d)
      /\ UNCHANGED <<opening, locked>>
  BY <1>0, WritingOpen DEF Unapprove, Writing
<1>2. \A x \in Documents : document'[x].month = document[x].month /\ document[x].month \in Nat
  BY <1>1 DEF Shape, DocumentRow, Months
<1>3. depreciation' = depreciation
  <2>1. CASE document[d].kind = "acquire"
    <3>1. depreciation' = [b \in Books |-> [depreciation[b] EXCEPT ![d] = NoWear]]
      BY <1>1, <2>1 DEF Deregister, DropAsset
    <3>2. \A b \in Books : depreciation[b][d] = NoWear
      BY <1>1, UnwornAcquisition
    <3>3. \A b \in Books : [depreciation[b] EXCEPT ![d] = NoWear] = depreciation[b]
      BY <3>2 DEF Facts
    <3> QED
      BY <3>1, <3>3 DEF Facts
  <2>2. CASE document[d].kind # "acquire"
    BY <1>1, <2>2 DEF Deregister
  <2> QED
    BY <2>1, <2>2
<1>4. \A b \in Books : \A m \in Months : Ledger(b, m)'
  <2>1. \A b \in Books : \A e : e # Voucher(d) => (e \in journal'[b] <=> e \in journal[b])
    BY <1>1
  <2> QED
    BY <1>1, <1>3, <2>1, DocumentKeepsLedger
<1>5. ASSUME NEW b \in Books, NEW a \in Documents,
             worth'[b][a] = worth[b][a], register'[a] = register[a]
      PROVE  Scheduled(b, a)'
  <2>1. Scheduled(b, a)
    BY DEF ScheduleInv
  <2>2. \A m : DisposedBefore(a, m)' <=> DisposedBefore(a, m)
    BY <1>2, <1>5 DEF DisposedBefore
  <2> QED
    BY <1>1, <1>2, <1>3, <1>5, <2>1, <2>2, SameSchedule
<1>6. ASSUME NEW a \in Documents, register'[a] = register[a] PROVE InUse(a)'
  BY <1>2, <1>6 DEF ScheduleInv, InUse, Facts
<1>7. CASE document[d].kind = "acquire"
  <2>1. /\ register' = [register EXCEPT ![d] = NoDocument]
        /\ worth' = [b \in Books |-> [worth[b] EXCEPT ![d] = NoWorth]]
    BY <1>1, <1>7 DEF Deregister, DropAsset
  <2>2. register'[d] = NoDocument /\ \A a \in Documents \ {d} : register'[a] = register[a]
    BY <1>1, <2>1 DEF Facts
  <2>3. InUse(d)'
    BY <2>2 DEF InUse
  <2>4. ASSUME NEW b \in Books, NEW a \in Documents PROVE Scheduled(b, a)'
    <3>1. worth'[b] = [worth[b] EXCEPT ![d] = NoWorth] /\ worth[b] \in [Documents -> WorthRow]
      BY <2>1 DEF Facts
    <3>2. CASE a # d
      <4>1. worth'[b][a] = worth[b][a] /\ register'[a] = register[a]
        BY <2>2, <3>1, <3>2
      <4> QED
        BY <1>5, <4>1
    <3>3. CASE a = d
      <4>1. worth'[b][d] = NoWorth
        BY <1>1, <3>1
      <4>2. ~ worth'[b][d].basis
        BY <4>1 DEF NoWorth
      <4>3. depreciation'[b][d] = NoWear
        BY <1>1, <1>3, UnwornAcquisition
      <4> QED
        BY <1>1, <3>3, <4>2, <4>3, NothingDue
    <3> QED
      BY <3>2, <3>3
  <2> QED
    BY <1>1, <1>4, <1>6, <2>2, <2>3, <2>4 DEF ScheduleInv
<1>8. CASE document[d].kind = "dispose"
  <2>1. PICK x : x = document[d].asset
    OBVIOUS
  <2>2. /\ x \in Documents \ {d} /\ register[x] = d
        /\ register' = [register EXCEPT ![x] = x] /\ worth' = worth
    BY <1>1, <1>8, <2>1 DEF Deregister, AssetInv, AssetsAccountedFor
  <2>3. register'[x] = x /\ \A a \in Documents \ {x} : register'[a] = register[a]
    BY <2>2 DEF Facts
  <2>4. InUse(x)'
    BY <1>2, <2>2, <2>3 DEF InUse
  <2>5. ASSUME NEW b \in Books, NEW a \in Documents PROVE Scheduled(b, a)'
    <3>1. CASE a # x
      BY <1>5, <2>2, <2>3, <3>1
    <3>2. CASE a = x
      <4>1. Scheduled(b, x) /\ document[x].month <= document[d].month
        BY <1>1, <2>2 DEF ScheduleInv, InUse
      <4>2. worth[b][x].basis => Start[b] <= document[d].month
        <5>1. worth[b][x].basis => Start[b] <= document[x].month
          BY <4>1 DEF Scheduled
        <5>2. Start[b] \in Nat /\ document[x].month \in Nat /\ document[d].month \in Nat
          BY <1>1, <1>2, <2>2
        <5> QED
          BY <4>1, <5>1, <5>2
      <4>3. Start[b] <= document[d].month => \A m \in locked[b] : ~ (document[d].month < m)
        BY <1>1, <1>2, ClosedBefore
      <4>4. worth[b][x].basis => \A m \in locked[b] : ~ DisposedBefore(x, m)
        BY <1>1, <2>2, <4>2, <4>3 DEF DisposedBefore
      <4>5. \A m : ~ DisposedBefore(x, m)'
        BY <2>3 DEF DisposedBefore
      <4> QED
        BY <1>1, <1>2, <1>3, <2>2, <3>2, <4>1, <4>4, <4>5, SameSchedule
    <3> QED
      BY <3>1, <3>2
  <2> QED
    BY <1>1, <1>4, <1>6, <2>3, <2>4, <2>5 DEF ScheduleInv
<1>9. CASE document[d].kind \notin {"acquire", "dispose"}
  <2>1. register' = register /\ worth' = worth
    BY <1>1, <1>9 DEF Deregister
  <2> QED
    BY <1>1, <1>4, <1>5, <1>6, <2>1 DEF ScheduleInv
<1> QED
  BY <1>7, <1>8, <1>9

(* An opening that takes over nothing changes no value.                     *)
LEMMA OpeningKeepsSchedule ==
  ASSUME Unmixed, Shape, BookInv, Facts, ScheduleInv, NEW c \in Books,
         \/ ApproveOpening(c) \/ UnapproveOpening(c) \/ DeleteOpening(c)
         \/ \E s \in OpeningStock, adopts \in SUBSET (IF OpeningAdopts THEN Documents ELSE {}) :
              SubmitOpening(c, adopts, s)
  PROVE  ScheduleInv'
<1>1. UNCHANGED <<document, register, depreciation, locked>>
  BY DEF ApproveOpening, UnapproveOpening, DeleteOpening, SubmitOpening, derived
<1>2. \A b \in Books : opening'[b].adopts = {}
  <2>1. \E row : opening' = [opening EXCEPT ![c] = row] /\ row.adopts = {}
    <3>1. opening[c].adopts = {} /\ opening[c] \in [status : {"none", "open", "approved"},
                                                    adopts : SUBSET Documents, stock : Int]
      BY DEF ScheduleInv, Shape
    <3>2. CASE ApproveOpening(c) \/ UnapproveOpening(c)
      <4>1. PICK s : opening' = [opening EXCEPT ![c] = [opening[c] EXCEPT !.status = s]]
        BY <3>2 DEF ApproveOpening, UnapproveOpening
      <4>2. [opening[c] EXCEPT !.status = s].adopts = {}
        BY <3>1
      <4> QED
        BY <4>1, <4>2
    <3>3. CASE DeleteOpening(c)
      <4>1. NoOpening.adopts = {} /\ opening' = [opening EXCEPT ![c] = NoOpening]
        BY <3>3 DEF DeleteOpening, NoOpening
      <4> QED
        BY <4>1
    <3>4. CASE \E s \in OpeningStock, adopts \in SUBSET (IF OpeningAdopts THEN Documents ELSE {}) :
                 SubmitOpening(c, adopts, s)
      <4>1. PICK s \in OpeningStock : SubmitOpening(c, {}, s)
        BY <3>4 DEF Unmixed
      <4>2. [status |-> "open", adopts |-> {}, stock |-> s].adopts = {}
        OBVIOUS
      <4> QED
        BY <4>1, <4>2 DEF SubmitOpening
    <3> QED
      BY <3>2, <3>3, <3>4
  <2> QED
    BY <2>1 DEF Shape, ScheduleInv
<1>3. \A b \in Books : \A a \in Documents : worth'[b][a] = worth[b][a]
  <2>1. opening[c].adopts = {}
    BY DEF ScheduleInv
  <2>2. worth' = worth \/ \E row \in [Documents -> WorthRow] :
          worth' = [worth EXCEPT ![c] = row] /\ \A a \in Documents : row[a] = worth[c][a]
    <3>1. worth[c] \in [Documents -> WorthRow]
      BY DEF Facts
    <3>2. CASE ApproveOpening(c)
      <4>1. worth' = [worth EXCEPT ![c] = [a \in Documents |-> worth[c][a]]]
        BY <2>1, <3>2 DEF ApproveOpening
      <4> QED
        BY <3>1, <4>1
    <3>3. CASE UnapproveOpening(c)
      <4>1. worth' = [worth EXCEPT ![c] = [a \in Documents |-> worth[c][a]]]
        BY <2>1, <3>3 DEF UnapproveOpening
      <4> QED
        BY <3>1, <4>1
    <3> QED
      BY <3>2, <3>3 DEF DeleteOpening, SubmitOpening
  <2> QED
    BY <2>2 DEF Facts
<1>4. \A b \in Books : \A e : e.source = "DEPRECIATION" => (e \in journal'[b] <=> e \in journal[b])
  <2>1. OpeningEntry(c).source # "DEPRECIATION"
    BY DEF OpeningEntry
  <2>2. \A b \in Books : /\ b # c => journal'[b] = journal[b]
                         /\ \A e : e # OpeningEntry(c) => (e \in journal'[b] <=> e \in journal[b])
    BY DEF ApproveOpening, UnapproveOpening, DeleteOpening, SubmitOpening, Facts
  <2> QED
    BY <2>1, <2>2
<1>5. \A b \in Books : \A m \in Months : Ledger(b, m)'
  BY <1>1, <1>4, SameLedger DEF ScheduleInv
<1>6. \A b \in Books : \A a \in Documents : Scheduled(b, a)'
  <2>1. \A a, m : DisposedBefore(a, m)' <=> DisposedBefore(a, m)
    BY <1>1 DEF DisposedBefore
  <2> QED
    BY <1>1, <1>3, <2>1, SameSchedule DEF ScheduleInv
<1>7. \A a \in Documents : InUse(a)'
  BY <1>1 DEF ScheduleInv, InUse
<1> QED
  BY <1>2, <1>5, <1>6, <1>7 DEF ScheduleInv

(* What was worn off before a month depends on the months before it only.   *)
LEMMA WornBeforeSame ==
  ASSUME NEW wear, NEW new, NEW m \in Int, \A k \in 1..(m - 1) : wear[k] = new[k]
  PROVE  SumFunctionOnSet(wear, 1..(m - 1)) = SumFunctionOnSet(new, 1..(m - 1))
<1>1. IsFiniteSet(1..(m - 1))
  BY FS_Interval
<1> QED
  BY <1>1, SumEqual

(* When the months closed are all earlier, all that was worn off was worn   *)
(* off before.                                                              *)
LEMMA AllWornBefore ==
  ASSUME NEW wear \in [Months -> Int], NEW m \in Months,
         \A k \in Months : ~ (k < m) => wear[k] = 0
  PROVE  SumFunctionOnSet(wear, 1..(m - 1)) = Sum(wear)
<1>1. 1..(m - 1) \in SUBSET Months /\ IsFiniteSet(Months)
  BY FiniteMonths DEF Months
<1>2. \A k \in Months \ (1..(m - 1)) : wear[k] = 0
  BY DEF Months
<1>3. \A k \in Months : wear[k] \in Int
  OBVIOUS
<1>4. SumFunctionOnSet(wear, Months) = SumFunctionOnSet(wear, 1..(m - 1))
  <2> DEFINE T == 1..(m - 1)
  <2> HIDE DEF T
  <2>1. SumFunctionOnSet(wear, Months) = SumFunctionOnSet(wear, T)
    BY <1>1, <1>2, <1>3, SumSupport DEF T
  <2> QED
    BY <2>1 DEF T
<1> QED
  BY <1>4 DEF Sum

LEMMA DueSame ==
  ASSUME UNCHANGED <<document, register>>, NEW b \in Books, NEW a \in Documents,
         worth'[b][a].basis = worth[b][a].basis, NEW m, NEW spent
  PROVE  Due(b, a, m, spent)' = Due(b, a, m, spent)
  BY DEF Due, DisposedBefore

LEMMA ClosingKeepsScheduled ==
  ASSUME Shape, Facts, Purposes, Validated, WearInv, ScheduleInv,
         NEW t \in Requests, Lock(t) \/ Unlock(t), NEW b \in Books, NEW a \in Documents
  PROVE  Scheduled(b, a)'
<1>0. PICK m : m = request[t].month
  OBVIOUS
<1>1. UNCHANGED <<document, register>> /\ m \in Months /\ m \in Int /\ Scheduled(b, a)
  <2>1. UNCHANGED <<document, register>> /\ Scheduled(b, a)
    BY DEF Lock, Unlock, ScheduleInv
  <2>2. m \in Months
    BY <1>0, LockFacts, UnlockFacts
  <2> QED
    BY <2>1, <2>2 DEF Months
<1>2. CASE b # request[t].book
  <2>1. \A k : DisposedBefore(a, k)' <=> DisposedBefore(a, k)
    BY <1>1 DEF DisposedBefore
  <2> QED
    BY <1>1, <1>2, <2>1, ElsewhereUntouched, SameSchedule
<1>3. CASE b = request[t].book
  <2> DEFINE wear == depreciation[b][a]
             new == depreciation'[b][a]
             before(k) == SumFunctionOnSet(wear, 1..(k - 1))
             after(k) == SumFunctionOnSet(new, 1..(k - 1))
  <2>1. wear \in [Months -> Int] /\ worth[b][a] \in WorthRow /\ locked[b] \subseteq Months
    BY DEF Facts, Shape
  <2>2. /\ \A k \in Months \ {m} : new[k] = wear[k]
        /\ worth'[b][a].basis = worth[b][a].basis
        /\ locked'[b] \subseteq locked[b] \cup {m}
        /\ \A k \in locked'[b] : k \in Int /\ k <= m
        /\ m \in locked'[b] => new[m] = Due(b, a, m, worth[b][a].spent) /\ m \notin locked[b]
    <3>1. CASE Lock(t)
      <4>1. /\ worth'[b][a] = [worth[b][a] EXCEPT !.spent = @ + Due(b, a, m, worth[b][a].spent)]
            /\ new = [wear EXCEPT ![m] = Due(b, a, m, worth[b][a].spent)]
            /\ locked'[b] = locked[b] \cup {m}
        BY <1>0, <1>1, <1>3, <3>1, LockWrites
      <4>2. \A k \in locked[b] : k \in Int /\ k < m
        BY <1>0, <1>3, <3>1, LockFacts
      <4>3. worth'[b][a].basis = worth[b][a].basis
        BY <2>1, <4>1 DEF WorthRow
      <4> HIDE DEF wear, new
      <4> QED
        BY <1>1, <2>1, <4>1, <4>2, <4>3
    <3>2. CASE Unlock(t)
      <4>1. /\ worth'[b][a] = [worth[b][a] EXCEPT !.spent = @ - wear[m]]
            /\ new = [wear EXCEPT ![m] = 0]
            /\ locked'[b] = locked[b] \ {m}
        BY <1>0, <1>1, <1>3, <3>2, UnlockWrites
      <4>2. \A k \in locked[b] : k \in Int /\ k <= m
        BY <1>0, <1>3, <3>2, UnlockFacts
      <4>3. worth'[b][a].basis = worth[b][a].basis
        BY <2>1, <4>1 DEF WorthRow
      <4> HIDE DEF wear, new
      <4> QED
        BY <1>1, <2>1, <4>1, <4>2, <4>3
    <3> QED
      BY <3>1, <3>2
  <2>3. ASSUME NEW k \in locked'[b] PROVE after(k) = before(k)
    <3>1. k \in Int /\ \A i \in 1..(k - 1) : i \in Months \ {m}
      <4>1. k \in Int /\ k <= m /\ k \in Months
        BY <1>1, <2>1, <2>2
      <4> QED
        BY <1>1, <4>1 DEF Months
    <3> HIDE DEF wear, new
    <3>2. \A i \in 1..(k - 1) : new[i] = wear[i]
      BY <2>2, <3>1
    <3> QED
      BY <3>1, <3>2, WornBeforeSame
  <2>4. ASSUME NEW k \in locked'[b] PROVE new[k] = Due(b, a, k, before(k))
    <3>1. CASE k \in locked[b] /\ k # m
      <4>1. wear[k] = Due(b, a, k, before(k))
        BY <1>1, <3>1 DEF Scheduled, WornBefore
      <4>2. new[k] = wear[k]
        BY <2>1, <2>2, <3>1
      <4> QED
        BY <4>1, <4>2
    <3>2. CASE k = m
      <4>1. m \notin locked[b] /\ \A i \in locked[b] : i < m
        <5>1. CASE Lock(t)
          BY <1>0, <1>3, <5>1, LockFacts
        <5>2. CASE Unlock(t)
          <6>1. locked'[b] = locked[b] \ {m}
            BY <1>0, <1>1, <1>3, <5>2, UnlockWrites
          <6> QED
            BY <3>2, <6>1
        <5> QED
          BY <5>1, <5>2
      <4>2. \A i \in Months : ~ (i < m) => wear[i] = 0
        BY <4>1 DEF WearInv, WearAddsUp
      <4>3. before(m) = worth[b][a].spent
        <5>1. before(m) = Sum(wear)
          BY <1>1, <2>1, <4>2, AllWornBefore
        <5>2. worth[b][a].spent = Sum(wear)
          BY WornInAll DEF WearInv, WearAddsUp
        <5> QED
          BY <5>1, <5>2
      <4> QED
        BY <2>2, <3>2, <4>3
    <3> QED
      BY <2>2, <3>1, <3>2
  <2>5. ASSUME NEW k \in locked'[b]
        PROVE  new[k] = Due(b, a, k, WornBefore(b, a, k))'
    <3>1. PICK s : s = before(k)
      OBVIOUS
    <3>2. WornBefore(b, a, k)' = s
      BY <2>3, <3>1 DEF WornBefore
    <3>3. Due(b, a, k, s)' = Due(b, a, k, s)
      BY <1>1, <2>2, DueSame
    <3>4. Due(b, a, k, WornBefore(b, a, k))' = Due(b, a, k, s)'
      BY <3>2 DEF Due
    <3> QED
      BY <2>4, <3>1, <3>3, <3>4
  <2> QED
    BY <1>1, <2>2, <2>5 DEF Scheduled
<1> QED
  BY <1>2, <1>3

(* A closing writes the entries of its month, where there were none, and a  *)
(* reopening removes them.                                                  *)
LEMMA NothingWorn ==
  ASSUME NEW m, NEW wear, \A a \in Documents : wear[a] = 0
  PROVE  Depreciated(wear, m) = {}
  BY DEF Depreciated

LEMMA WearOfTheMonth ==
  ASSUME Shape, Facts, NEW b \in Books, NEW m \in Months, NEW t \in Requests, Lock(t) \/ Unlock(t),
         b = request[t].book, m = request[t].month, NEW a \in Documents
  PROVE  /\ Lock(t) => depreciation'[b][a][m] = Wear(b, m)[a]
         /\ Unlock(t) => depreciation'[b][a][m] = 0
         /\ \A k \in Months \ {m} : depreciation'[b][a][k] = depreciation[b][a][k]
<1> DEFINE wear == depreciation[b][a]
           new == depreciation'[b][a]
<1>1. wear \in [Months -> Int]
  BY DEF Facts
<1>2. CASE Lock(t)
  <2>1. Wear(b, m)[a] = Due(b, a, m, worth[b][a].spent)
    BY DEF Wear
  <2>2. new = [wear EXCEPT ![m] = Due(b, a, m, worth[b][a].spent)]
    <3>1. /\ worth'[b][a] = [worth[b][a] EXCEPT !.spent = @ + Due(b, a, m, worth[b][a].spent)]
          /\ depreciation'[b][a] =
               [depreciation[b][a] EXCEPT ![m] = Due(b, a, m, worth[b][a].spent)]
          /\ locked'[b] = locked[b] \cup {m}
      BY <1>2, LockWrites
    <3> QED
      BY <3>1
  <2>3. ~ Unlock(t)
    BY <1>2 DEF Lock, Unlock
  <2> HIDE DEF wear, new
  <2>4. new[m] = Wear(b, m)[a] /\ \A k \in Months \ {m} : new[k] = wear[k]
    BY <1>1, <2>1, <2>2
  <2> QED
    BY <2>3, <2>4 DEF wear, new
<1>3. CASE Unlock(t)
  <2>1. new = [wear EXCEPT ![m] = 0]
    <3>1. /\ worth'[b][a] = [worth[b][a] EXCEPT !.spent = @ - depreciation[b][a][m]]
          /\ depreciation'[b][a] = [depreciation[b][a] EXCEPT ![m] = 0]
          /\ locked'[b] = locked[b] \ {m}
      BY <1>3, UnlockWrites
    <3> QED
      BY <3>1
  <2>2. ~ Lock(t)
    BY <1>3 DEF Lock, Unlock
  <2> HIDE DEF wear, new
  <2>3. new[m] = 0 /\ \A k \in Months \ {m} : new[k] = wear[k]
    BY <1>1, <2>1
  <2> QED
    BY <2>2, <2>3 DEF wear, new
<1> QED
  BY <1>2, <1>3

LEMMA ClosingKeepsLedger ==
  ASSUME Shape, Facts, Purposes, Validated, WearInv, ScheduleInv,
         NEW t \in Requests, Lock(t) \/ Unlock(t), NEW b \in Books, NEW k \in Months
  PROVE  Ledger(b, k)'
<1>0. PICK m : m = request[t].month
  OBVIOUS
<1>1. Ledger(b, k) /\ m \in Months
  BY <1>0, LockFacts, UnlockFacts DEF ScheduleInv
<1>2. CASE b # request[t].book
  <2>1. depreciation'[b] = depreciation[b] /\ journal'[b] = journal[b]
    BY <1>2, ElsewhereUntouched
  <2> QED
    BY <1>1, <2>1, SameLedger
<1>3. CASE b = request[t].book
  <2> DEFINE Entries(js) == {e \in js : e.source = "DEPRECIATION" /\ e.month = k}
  <2>1. Entries(journal[b]) = Depreciated(Worn(b, k), k)
    BY <1>1 DEF Ledger
  <2>2. CASE Lock(t)
    <3>1. journal'[b] = journal[b] \cup Costs(b, m) \cup Depreciated(Wear(b, m), m)
      BY <1>0, <1>3, <2>2 DEF Lock, Facts
    <3>2. /\ Wear(b, m) \in [Documents -> Int]
          /\ \A e \in Costs(b, m) : e.source = "COST_SETTLEMENT"
          /\ \A e \in Depreciated(Wear(b, m), m) : e.source = "DEPRECIATION" /\ e.month = m
      BY <1>1, ClosingEntries, DepreciatedEntries
    <3>3. CASE k = m
      <4>1. m \notin locked[b]
        BY <1>0, <1>3, <2>2, LockFacts
      <4>2. \A a \in Documents : Worn(b, m)[a] = 0
        BY <1>1, <4>1 DEF WearInv, WearAddsUp, Worn
      <4>3. Entries(journal[b]) = {}
        BY <2>1, <3>3, <4>2, NothingWorn
      <4>4. Entries(journal'[b]) = Depreciated(Wear(b, m), m)
        BY <3>1, <3>2, <3>3, <4>3
      <4>5. Worn(b, m)' = Wear(b, m)
        <5>1. \A a \in Documents : depreciation'[b][a][m] = Wear(b, m)[a]
          BY <1>0, <1>1, <1>3, <2>2, WearOfTheMonth
        <5> QED
          BY <3>2, <5>1 DEF Worn, Wear
      <4>6. Depreciated(Worn(b, k), k)' = Depreciated(Wear(b, m), m)
        BY <3>3, <4>5 DEF Depreciated
      <4> QED
        BY <4>4, <4>6 DEF Ledger
    <3>4. CASE k # m
      <4>1. Entries(journal'[b]) = Entries(journal[b])
        BY <3>1, <3>2, <3>4
      <4>2. Worn(b, k)' = Worn(b, k)
        <5>1. \A a \in Documents : depreciation'[b][a][k] = depreciation[b][a][k]
          BY <1>0, <1>1, <1>3, <3>4, WearOfTheMonth
        <5> QED
          BY <5>1 DEF Worn
      <4>3. Depreciated(Worn(b, k), k)' = Depreciated(Worn(b, k), k)
        BY <4>2 DEF Depreciated
      <4> QED
        BY <2>1, <4>1, <4>3 DEF Ledger
    <3> QED
      BY <3>3, <3>4
  <2>3. CASE Unlock(t)
    <3>1. journal'[b] = {e \in journal[b] : ~ (e.source = "COST_SETTLEMENT" /\ e.month = m)}
                          \ Depreciated(Worn(b, m), m)
      BY <1>0, <1>3, <2>3 DEF Unlock, Facts
    <3>2. \A e \in Depreciated(Worn(b, m), m) : e.source = "DEPRECIATION" /\ e.month = m
      BY <1>1, ClosingEntries, DepreciatedEntries
    <3>3. CASE k = m
      <4>1. Entries(journal'[b]) = {}
        BY <2>1, <3>1, <3>3
      <4>2. \A a \in Documents : Worn(b, m)'[a] = 0
        <5>1. \A a \in Documents : depreciation'[b][a][m] = 0
          BY <1>0, <1>1, <1>3, <2>3, WearOfTheMonth
        <5> QED
          BY <5>1 DEF Worn
      <4>3. Depreciated(Worn(b, k), k)' = {}
        BY <3>3, <4>2 DEF Depreciated
      <4> QED
        BY <4>1, <4>3 DEF Ledger
    <3>4. CASE k # m
      <4>1. Entries(journal'[b]) = Entries(journal[b])
        BY <3>1, <3>2, <3>4
      <4>2. Worn(b, k)' = Worn(b, k)
        <5>1. \A a \in Documents : depreciation'[b][a][k] = depreciation[b][a][k]
          BY <1>0, <1>1, <1>3, <3>4, WearOfTheMonth
        <5> QED
          BY <5>1 DEF Worn
      <4>3. Depreciated(Worn(b, k), k)' = Depreciated(Worn(b, k), k)
        BY <4>2 DEF Depreciated
      <4> QED
        BY <2>1, <4>1, <4>3 DEF Ledger
    <3> QED
      BY <3>3, <3>4
  <2> QED
    BY <2>2, <2>3
<1> QED
  BY <1>2, <1>3

LEMMA ClosingKeepsSchedule ==
  ASSUME Shape, Facts, Purposes, Validated, WearInv, ScheduleInv,
         NEW t \in Requests, Lock(t) \/ Unlock(t)
  PROVE  ScheduleInv'
<1>1. UNCHANGED <<document, register, opening>>
  BY DEF Lock, Unlock
<1>2. \A b \in Books : \A a \in Documents : Scheduled(b, a)'
  BY ClosingKeepsScheduled
<1>3. \A b \in Books : \A k \in Months : Ledger(b, k)'
  BY ClosingKeepsLedger
<1>4. \A a \in Documents : InUse(a)'
  BY <1>1 DEF ScheduleInv, InUse
<1> QED
  BY <1>1, <1>2, <1>3, <1>4 DEF ScheduleInv

Kept == IInv /\ AssetInv /\ Facts /\ StockInv /\ WearInv

LEMMA InitKept == Init => Kept
  BY InitHolds, InitAssets, InitFacts, InitStock, InitWear DEF Kept

LEMMA KeptStep == Kept /\ [Next]_vars => Kept'
  BY StepHolds, AssetStep, FactsStep, StockStep, WearStep DEF Kept

LEMMA ScheduleStep ==
  ASSUME Unmixed PROVE Kept /\ ScheduleInv /\ [Next]_vars => ScheduleInv'
<1> SUFFICES ASSUME Kept, ScheduleInv, [Next]_vars PROVE ScheduleInv'
  OBVIOUS
<1>1. /\ Shape /\ Purposes /\ Validated /\ BookInv
      /\ AssetInv /\ Facts /\ WearInv
  BY DEF Kept, IInv
<1>2. Shape'
  BY <1>1, ShapeStep
<1>3. ASSUME UNCHANGED <<document, register, worth, opening, journal, depreciation, locked>>
      PROVE  ScheduleInv'
  <2>1. \A b \in Books : \A m \in Months : Ledger(b, m)'
    BY <1>3, SameLedger DEF ScheduleInv
  <2>2. \A a, m : DisposedBefore(a, m)' <=> DisposedBefore(a, m)
    BY <1>3 DEF DisposedBefore
  <2>3. \A b \in Books : \A a \in Documents : Scheduled(b, a)'
    BY <1>3, <2>2, SameSchedule DEF ScheduleInv
  <2> QED
    BY <1>3, <2>1, <2>3 DEF ScheduleInv, InUse
<1>4. CASE UNCHANGED vars
  BY <1>3, <1>4 DEF vars, facts, derived
<1>5. ASSUME NEW t \in Requests, TakeRow(t) \/ Refuse(t) PROVE ScheduleInv'
  BY <1>3, <1>5 DEF TakeRow, Refuse, facts, derived
<1>6. ASSUME NEW t \in Requests, NEW r \in RequestRow, Begin(t, r) PROVE ScheduleInv'
  BY <1>3, <1>6 DEF Begin, facts, derived
<1> QED
  BY <1>1, <1>2, <1>4, <1>5, <1>6, SubmitKeepsSchedule, ApproveKeepsSchedule, UnapproveKeepsSchedule,
     OpeningKeepsSchedule, ClosingKeepsSchedule, SubmitBegins, ReviewBegins, PeriodBegins DEF Next

LEMMA InitSchedule == Init => ScheduleInv
<1> SUFFICES ASSUME Init PROVE ScheduleInv
  OBVIOUS
<1>1. \A b \in Books : \A m \in Months : Ledger(b, m)
  <2> SUFFICES ASSUME NEW b \in Books, NEW m \in Months PROVE Ledger(b, m)
    OBVIOUS
  <2>1. \A a \in Documents : depreciation[b][a] = NoWear
    BY DEF Init
  <2>2. NoWear[m] = 0
    BY DEF NoWear
  <2>3. \A a \in Documents : Worn(b, m)[a] = 0
    BY <2>1, <2>2 DEF Worn
  <2>4. Depreciated(Worn(b, m), m) = {}
    BY <2>3, NothingWorn
  <2>5. journal[b] = {}
    BY DEF Init
  <2> QED
    BY <2>4, <2>5 DEF Ledger
<1>2. \A b \in Books : \A a \in Documents : Scheduled(b, a)
  <2>1. \A b \in Books : locked[b] = {} /\ \A a \in Documents : worth[b][a] = NoWorth
    BY DEF Init
  <2>2. ~ NoWorth.basis
    BY DEF NoWorth
  <2> QED
    BY <2>1, <2>2 DEF Scheduled
<1>3. \A b \in Books : opening[b].adopts = {}
  BY DEF Init, NoOpening
<1>4. \A a \in Documents : InUse(a)
  BY DEF Init, InUse
<1> QED
  BY <1>1, <1>2, <1>3, <1>4 DEF ScheduleInv

(* settleInventoryCost and settleDepreciation, against the documents that   *)
(* are reviewed later: where no opening takes over an asset and no disposal *)
(* is dated before the acquisition, closing a closed month again would cost *)
(* and wear off the same.                                                   *)
THEOREM ClosedMonthsComeOutAgain ==
  ASSUME OpeningAdopts = FALSE, EarlyDisposals = FALSE
  PROVE  Spec => []ClosedMonthsReproducible
<1>1. Unmixed
  BY DEF Unmixed
<1>2. Init => Kept /\ ScheduleInv
  BY InitKept, InitSchedule
<1>3. Kept /\ ScheduleInv /\ [Next]_vars => (Kept /\ ScheduleInv)'
  BY <1>1, KeptStep, ScheduleStep
<1>4. Kept /\ ScheduleInv => ClosedMonthsReproducible
  <2> SUFFICES ASSUME Kept, ScheduleInv, NEW b \in Books, NEW m \in locked[b]
               PROVE  /\ allocated[b][m] = Costed(b, m)
                      /\ {e \in journal[b] : e.source = "DEPRECIATION" /\ e.month = m}
                           = Depreciated([a \in Documents |-> Due(b, a, m, WornBefore(b, a, m))], m)
    BY DEF ClosedMonthsReproducible
  <2>1. m \in Months
    BY DEF Kept, IInv, Shape
  <2>2. allocated[b][m] = Costed(b, m)
    BY DEF Kept, StockInv, CostsStand
  <2>3. \A a \in Documents : depreciation[b][a][m] = Due(b, a, m, WornBefore(b, a, m))
    BY DEF ScheduleInv, Scheduled
  <2>4. Worn(b, m) = [a \in Documents |-> Due(b, a, m, WornBefore(b, a, m))]
    BY <2>3 DEF Worn
  <2>5. Ledger(b, m)
    BY <2>1 DEF ScheduleInv
  <2> QED
    BY <2>2, <2>4, <2>5 DEF Ledger
<1> QED
  BY <1>2, <1>3, <1>4, PTL DEF Spec
===============================================================================
