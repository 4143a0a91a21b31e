------------------------------- MODULE Vouchers -------------------------------
(***************************************************************************)
(* The documents of VouService (apps/api/src/vou/service.ts) and what they   *)
(* rest on: a document names a parent, and the lines of a return or an       *)
(* invoice name the documents they draw from.  Every write of a voucher      *)
(* first locks the row of the control book (SELECT ... WHERE control_book    *)
(* FOR UPDATE), which the seed always creates, so one operation is one       *)
(* action.                                                                   *)
(*                                                                           *)
(* Left out: actors (ApprovalPersistence has them), quantities and amounts   *)
(* (Quantities has them), postings, month locks, records taken over from an  *)
(* earlier system, and the entities without a place in the sale, purchase    *)
(* and expense chains.                                                       *)
(***************************************************************************)
EXTENDS Naturals, FiniteSets

CONSTANTS
  Documents,     \* document ids, chosen by the client or by the workflow
  NoDocument,
  Entities,      \* the entities of an instance
  MaxRevision,   \* bound: revisions of one submission
  MaxDeletions,  \* bound: submissions of one document that are deleted
  MaxOrders      \* bound: documents without a parent

ASSUME VouchersAssumption ==
  /\ NoDocument \notin Documents
  /\ "none" \notin Entities

Rules == INSTANCE Approval WITH Users <- {}, NoUser <- "nobody",
                                Trusted <- {}, Permissions <- [u \in {} |-> {}]

SystemGenerated == {"sale-outbound", "sale-delivery", "sale-signoff", "expense-payment"}

(* What a document of entity e stands under, and what its lines draw from.  *)
ParentEntity(e) ==
  CASE e \in {"sale-outbound", "order-production", "sale-return"} -> "sale-order"
    [] e = "sale-delivery"                           -> "sale-outbound"
    [] e = "sale-signoff"                            -> "sale-delivery"
    [] e \in {"purchase-inbound", "purchase-return"} -> "purchase-order"
    [] e = "expense-payment"                         -> "expense-reimbursement"
    [] OTHER                                         -> "none"

LineEntity(e) ==
  CASE e \in {"sale-return", "sale-invoice"}         -> "sale-signoff"
    [] e \in {"purchase-return", "purchase-invoice"} -> "purchase-inbound"
    [] OTHER                                         -> "none"

Returns == {"sale-return", "purchase-return"}

(* A parent takes one delivery, a delivery one signoff.                     *)
Sole == {"sale-delivery", "sale-signoff"}

(* At which steps the code looks whether the sources are approved.          *)
ParentCheckedAt(step) ==
  {"sale-outbound", "sale-delivery", "sale-signoff", "purchase-inbound"}
    \cup (IF step = "submit" THEN {"order-production"} ELSE {})

LinesCheckedAt(step) ==
  {"purchase-return", "sale-invoice", "purchase-invoice"}
    \cup (IF step = "unreject" THEN {} ELSE {"sale-return"})

(* Children that hold their parent whatever their status is.                *)
HoldsAlways == {"order-production"}

VARIABLES
  documents,   \* vou_documents: entity ("none" for no row) and stable_revision
  entry        \* approval_entries with the detail header and the lines

voucherVars == <<documents, entry>>

NoEntry == [status |-> "ABSENT", revision |-> 0, parent |-> NoDocument, lines |-> {}]

VouchersTypeOK ==
  /\ documents \in [Documents -> [entity : Entities \cup {"none"}, stable : Nat]]
  /\ entry \in [Documents -> [status   : Rules!ApprovalStatus \cup {"ABSENT"},
                              revision : Nat,
                              parent   : Documents \cup {NoDocument},
                              lines    : SUBSET Documents]]

VouchersInit ==
  /\ documents = [d \in Documents |-> [entity |-> "none", stable |-> 0]]
  /\ entry = [d \in Documents |-> NoEntry]

-------------------------------------------------------------------------------
Live(d)     == entry[d].status # "ABSENT"
Approved(d) == entry[d].status = "APPROVED"

(* validateSaleFulfillment, validatePurchaseReceipt, validateReturnSources, *)
(* validateInvoiceSources, validateReturnInvoiceCapacity: the status part.  *)
SourcesStand(e, p, ls, step) ==
  /\ e \in ParentCheckedAt(step) => p \in Documents /\ Approved(p)
  /\ e \in LinesCheckedAt(step) => \A l \in ls : Approved(l)

(* validateSaleFulfillment: no other document of the kind under the parent. *)
OnlyChild(d, e, p) ==
  e \in Sole => \A x \in Documents \ {d} :
    ~ (Live(x) /\ documents[x].entity = e /\ entry[x].parent = p)

(* vouRootDocument: from a line's source up to its order, over approved     *)
(* documents, seven steps at most.                                          *)
RootOf(d) ==
  LET up[n \in 0..7] ==
        IF n = 0 THEN d
        ELSE LET x == up[n - 1] IN
             IF x = NoDocument \/ entry[x].parent = NoDocument THEN x
             ELSE IF Approved(entry[x].parent) THEN entry[x].parent ELSE NoDocument
  IN up[7]

(* downstreamBlockers: approved children, productions, and the invoices and *)
(* returns in progress or approved that draw from the document.             *)
Blockers(d) ==
  {x \in Documents :
     \/ Live(x) /\ entry[x].parent = d
          /\ (Approved(x) \/ documents[x].entity \in HoldsAlways)
     \/ d \in entry[x].lines /\ entry[x].status \in {"PENDING", "APPROVED"}}

-------------------------------------------------------------------------------
(* What if the parent's entity were stored for its id?                      *)
NewDetailMixedUp(e, p, ls) == [status |-> "PENDING", revision |-> 1,
                               parent |-> ParentEntity(e), lines |-> ls]

(* The entry and the detail header that writeTypedDetail stores.            *)
NewDetail(e, p, ls) == [status |-> "PENDING", revision |-> 1,
                        parent |-> p, lines |-> ls]

(* submitInTransaction: submit-new for an unknown id, submit-change for a   *)
(* document whose submission was deleted.  Only the workflow may submit     *)
(* what it generates.                                                       *)
Submit(d, e, p, ls, trusted) ==
  /\ ~ Live(d)
  /\ documents[d].entity \in {"none", e}
  /\ trusted \/ e \notin SystemGenerated
  /\ IF p = NoDocument THEN ParentEntity(e) = "none"
                       ELSE p # d /\ documents[p].entity = ParentEntity(e)
  /\ (ls = {}) <=> (LineEntity(e) = "none")
  /\ \A l \in ls : documents[l].entity = LineEntity(e)
  /\ SourcesStand(e, p, ls, "submit")
  /\ OnlyChild(d, e, p)
  /\ e \in Returns => \A l \in ls : RootOf(l) = p
  /\ p = NoDocument =>
       Cardinality({x \in Documents \ {d} :
                      documents[x].entity # "none" /\ ParentEntity(documents[x].entity) = "none"})
         < MaxOrders
  /\ documents' = [documents EXCEPT ![d].entity = e]
  /\ entry' = [entry EXCEPT ![d] = NewDetail(e, p, ls)]

(* What if a review trusted what the submission has looked at?              *)
ReviewTrustingSubmit(d, action) ==
  /\ Rules!ActionIsValidForStatus(action, entry[d].status)
  /\ action = "unapprove" => Blockers(d) = {}
  /\ entry[d].revision < MaxRevision
  /\ entry' = [entry EXCEPT ![d].status = Rules!TargetStatus(action),
                            ![d].revision = @ + 1]
  /\ UNCHANGED documents

(* reviewInTransaction.                                                     *)
Review(d, action) ==
  /\ Rules!ActionIsValidForStatus(action, entry[d].status)
  /\ action \in {"approve", "unreject"} =>
       /\ SourcesStand(documents[d].entity, entry[d].parent, entry[d].lines, action)
       /\ OnlyChild(d, documents[d].entity, entry[d].parent)
  /\ action = "unapprove" => Blockers(d) = {}
  /\ entry[d].revision < MaxRevision
  /\ entry' = [entry EXCEPT ![d].status = Rules!TargetStatus(action),
                            ![d].revision = @ + 1]
  /\ UNCHANGED documents

(* deleteInTransaction: the entry goes with its details, the document and   *)
(* its number stay.                                                         *)
Delete(d) ==
  /\ entry[d].status \in {"PENDING", "REJECTED"}
  /\ Blockers(d) = {}
  /\ documents[d].stable < MaxDeletions
  /\ entry' = [entry EXCEPT ![d] = NoEntry]
  /\ documents' = [documents EXCEPT ![d].stable = @ + 1]

VouchersNext ==
  \E d \in Documents :
    \/ \E e \in Entities, p \in Documents \cup {NoDocument},
          ls \in SUBSET Documents, trusted \in BOOLEAN : Submit(d, e, p, ls, trusted)
    \/ \E action \in Rules!ApprovalAction : Review(d, action)
    \/ Delete(d)

VouchersSpec == VouchersInit /\ [][VouchersNext]_voucherVars

-------------------------------------------------------------------------------
(* vou.md 3: an approved document rests on approved ones.  No order of      *)
(* submissions, reviews, reversals and deletions of a document and of those *)
(* it draws from leaves an approved document over an unapproved source.     *)
ApprovedRestOnApproved ==
  \A d \in Documents : Approved(d) =>
    SourcesStand(documents[d].entity, entry[d].parent, entry[d].lines, "approve")

(* sale-fulfillment.ts 183-197: one delivery for one outbound, one signoff  *)
(* for one delivery, whatever their status.                                 *)
OneSoleChild ==
  \A x, y \in Documents :
    /\ Live(x) /\ Live(y)
    /\ documents[x].entity = documents[y].entity /\ documents[x].entity \in Sole
    /\ entry[x].parent = entry[y].parent
    => x = y

(* vou/service.ts 7491-7506: what a return or an invoice in progress draws  *)
(* from cannot be reversed under it.  (A sale return that was rejected and  *)
(* taken up again is not looked at until its approval.)                     *)
DrawnOnStayApproved ==
  \A d \in Documents :
    /\ documents[d].entity \in LinesCheckedAt("unreject")
    /\ entry[d].status \in {"PENDING", "APPROVED"}
    => \A l \in entry[d].lines : Approved(l)

===============================================================================
