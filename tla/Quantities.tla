------------------------------ MODULE Quantities ------------------------------
(***************************************************************************)
(* The quantities and amounts that the documents of an order share: what is *)
(* sent out, delivered, signed for, received, returned and invoiced may not *)
(* exceed what it rests on (vou/sale-fulfillment.ts, vou/prior-fact.ts,      *)
(* vou/invoice.ts).  Each action is the one of Vouchers with these checks.  *)
(*                                                                           *)
(* Orders have one product line and one price; a return or an invoice draws  *)
(* from one source.  Left out: dates, parties, currencies, records taken     *)
(* over from an earlier system, and service acceptances.                     *)
(***************************************************************************)
EXTENDS Vouchers, Integers, Functions

CONSTANTS
  MaxQuantity,   \* bound: the quantity of a document
  MaxChains,     \* bound: orders
  Amount(_)      \* orderLineAmountMinor: what a quantity of the product costs

Orders   == {"sale-order", "purchase-order"}
Invoices == {"sale-invoice", "purchase-invoice"}

Quantity == 0..(IF MaxQuantity > Amount(MaxQuantity) THEN MaxQuantity ELSE Amount(MaxQuantity))

(* Ids are strings of 26 characters.  More pieces never cost less; that they *)
(* cost more is not said, a price may be zero.                               *)
ASSUME QuantitiesAssumption ==
  /\ IsFiniteSet(Documents)
  /\ MaxQuantity \in Nat \ {0}
  /\ Amount(MaxQuantity) \in Nat
  /\ \A q \in Quantity : Amount(q) \in Nat
  /\ Amount(0) = 0
  /\ \A q \in Quantity : \A less \in 0..q : Amount(less) <= Amount(q)

VARIABLES
  quantity,    \* the quantity of a document's line; the amount of an invoice
  billed,      \* the submission of its source that an invoice names
  earlier,     \* approved returns of its source with a lower allocation_sequence
  refund       \* what the postings of a purchase return give back

quantityVars   == <<quantity, billed, earlier, refund>>
quantitiesVars == <<voucherVars, quantityVars>>

QuantitiesTypeOK ==
  /\ VouchersTypeOK
  /\ quantity \in [Documents -> Quantity]
  /\ billed \in [Documents -> Nat]
  /\ earlier \in [Documents -> SUBSET Documents]
  /\ refund \in [Documents -> Nat]
  \* who is refunded, or comes after another, is an approved purchase return
  /\ \A d \in Documents : refund[d] # 0 \/ earlier[d] # {} =>
       documents[d].entity = "purchase-return" /\ Approved(d)

QuantitiesInit ==
  /\ VouchersInit
  /\ quantity = [d \in Documents |-> 0]
  /\ billed = [d \in Documents |-> 0]
  /\ earlier = [d \in Documents |-> {}]
  /\ refund = [d \in Documents |-> 0]

-------------------------------------------------------------------------------
Total(S) == SumFunctionOnSet(quantity, S)

OfKind(e)       == {x \in Documents : Live(x) /\ documents[x].entity = e}
ChildrenOf(p, e) == {x \in OfKind(e) : entry[x].parent = p}
DrawingOn(l, e)  == {x \in OfKind(e) : l \in entry[x].lines}
ApprovedIn(S)    == {x \in S : Approved(x)}

(* saleOrderOccupancy: an approved outbound counts with what was signed for *)
(* once its signoff is approved, with what it sent out before.              *)
Signoffs(o) ==
  UNION {ApprovedIn(ChildrenOf(v, "sale-signoff")) : v \in ApprovedIn(ChildrenOf(o, "sale-delivery"))}

Taken(o, reversed) ==
  LET signed == Signoffs(o) \ reversed
  IN IF signed = {} THEN quantity[o] ELSE Total(signed)

SaleOrderOccupancy(order, excluded, reversed) ==
  SumFunctionOnSet([o \in Documents |-> Taken(o, reversed)],
                   ApprovedIn(ChildrenOf(order, "sale-outbound")) \ excluded)

(* validateSaleFulfillment: the quantities.                                 *)
SaleFulfilment(d, e, p, q) ==
  /\ e = "sale-outbound" => q > 0 /\ q + SaleOrderOccupancy(p, {d}, {}) <= quantity[p]
  /\ e = "sale-delivery" => q = quantity[p]
  /\ e = "sale-signoff"  => q <= quantity[p]

(* What if the reversal of a signoff did not look at the other outbounds?   *)
NoSignoffBlockers(d) == {}

(* saleSignoffUnapproveBlockers: the order's other outbounds, when the      *)
(* quantity that the signoff had released is taken.                         *)
SignoffBlockers(d) ==
  LET outbound == entry[entry[d].parent].parent
      order    == entry[outbound].parent
  IN IF SaleOrderOccupancy(order, {}, {d}) > quantity[order]
     THEN ApprovedIn(ChildrenOf(order, "sale-outbound")) \ {outbound}
     ELSE {}

(* What if a return counted before it is approved?                          *)
PurchaseReceiptOfLiveReturns(d, e, p, q) ==
  e = "purchase-inbound" =>
    /\ q > 0
    /\ q + Total(ChildrenOf(p, "purchase-inbound") \ {d})
         <= quantity[p] + Total(ChildrenOf(p, "purchase-return"))

(* validatePurchaseReceipt: every inbound of the order counts, whatever its *)
(* status, and an approved return makes room.                               *)
PurchaseReceipt(d, e, p, q) ==
  e = "purchase-inbound" =>
    /\ q > 0
    /\ q + Total(ChildrenOf(p, "purchase-inbound") \ {d})
         <= quantity[p] + Total(ApprovedIn(ChildrenOf(p, "purchase-return")))

(* validateReturnSources: every return counts, whatever its status.         *)
ReturnSources(d, e, ls, q) ==
  e \in Returns =>
    /\ q > 0
    /\ \A l \in ls : q + Total(DrawingOn(l, e) \ {d}) <= quantity[l]

-------------------------------------------------------------------------------
(* readInvoiceAmounts: what may still be invoiced of a source, pending      *)
(* invoices counted (reserved).                                             *)
Returned(l) == Total(ApprovedIn(UNION {DrawingOn(l, e) : e \in Returns}))

Invoiced(l, excluded) ==
  Total({x \in (UNION {DrawingOn(l, e) : e \in Invoices}) \ excluded :
           entry[x].status \in {"PENDING", "APPROVED"}})

AvailableAmount(l, excluded) ==
  Amount(quantity[l]) - Amount(Returned(l)) - Invoiced(l, excluded)

(* validateInvoiceSources: the submission of the source and its amount.     *)
InvoiceSources(d, e, ls, q, submission) ==
  e \in Invoices =>
    /\ q > 0
    /\ \A l \in ls : submission = documents[l].stable /\ q <= AvailableAmount(l, {d})

(* What if a return went without looking at the invoices?                   *)
NoReturnInvoiceCapacity(e, ls, q) == TRUE

(* validateReturnInvoiceCapacity: what is invoiced cannot be returned.      *)
ReturnInvoiceCapacity(e, ls, q) ==
  e \in Returns =>
    \A l \in ls : Amount(Returned(l) + q) - Amount(Returned(l)) <= AvailableAmount(l, {})

(* The approved returns that draw on what d draws on.                        *)
SameSource(d) ==
  {x \in ApprovedIn(OfKind("purchase-return")) \ {d} : entry[x].lines \cap entry[d].lines # {}}

(* purchaseReturnSettlementAmounts: rounded once over what is returned, less *)
(* what the earlier returns were given.                                      *)
Settlement(d) ==
  LET before == Total(SameSource(d))
  IN Amount(before + quantity[d]) - Amount(before)

(* What if any return could be reversed?                                    *)
NoAllocationBlockers(d) == {}

(* purchaseReturnAllocationBlockers: those that were approved later.        *)
AllocationBlockers(d) == {x \in SameSource(d) : d \in earlier[x]}

-------------------------------------------------------------------------------
(* submitInTransaction.  What the workflow submits has an id of its own.    *)
SubmitQuantity(d, e, p, ls, q) ==
  /\ Submit(d, e, p, ls, e \in SystemGenerated)
  /\ e \in SystemGenerated => documents[d].entity = "none"
  /\ e \in Orders =>
       /\ q \in 1..MaxQuantity
       /\ Cardinality({x \in Documents \ {d} : documents[x].entity \in Orders}) < MaxChains
  /\ SaleFulfilment(d, e, p, q)
  /\ PurchaseReceipt(d, e, p, q)
  /\ ReturnSources(d, e, ls, q)
  /\ billed' = [billed EXCEPT ![d] = IF e \in Invoices
                                     THEN documents[CHOOSE l \in ls : TRUE].stable
                                     ELSE 0]
  /\ InvoiceSources(d, e, ls, q, billed'[d])
  /\ quantity' = [quantity EXCEPT ![d] = q]
  /\ UNCHANGED <<earlier, refund>>

(* reviewInTransaction: the checks of the step.                             *)
QuantitiesStand(d, action) ==
  LET e  == documents[d].entity
      p  == entry[d].parent
      ls == entry[d].lines
  IN /\ action \in {"approve", "unreject"} =>
          /\ SaleFulfilment(d, e, p, quantity[d])
          /\ InvoiceSources(d, e, ls, quantity[d], billed[d])
          /\ PurchaseReceipt(d, e, p, quantity[d])
          /\ e = "purchase-return" => ReturnSources(d, e, ls, quantity[d])
     /\ action = "approve" => ReturnInvoiceCapacity(e, ls, quantity[d])
     /\ action = "unapprove" =>
          /\ e = "sale-signoff" => SignoffBlockers(d) = {}
          /\ e = "purchase-return" => AllocationBlockers(d) = {}

(* What if a posting stayed when its return is reversed?                    *)
SettleKeepingOrder(d, action) ==
  IF documents[d].entity = "purchase-return" /\ action = "approve"
  THEN /\ earlier' = [earlier EXCEPT ![d] = SameSource(d)]
       /\ refund' = [refund EXCEPT ![d] = Settlement(d)]
  ELSE UNCHANGED <<earlier, refund>>

(* The order and the postings of purchase returns: allocatePurchaseReturn-  *)
(* Sequence and the posting of an approval, withdrawn by its reversal.      *)
Settle(d, action) ==
  IF documents[d].entity # "purchase-return" THEN UNCHANGED <<earlier, refund>>
  ELSE CASE action = "approve" ->
              /\ earlier' = [earlier EXCEPT ![d] = SameSource(d)]
              /\ refund' = [refund EXCEPT ![d] = Settlement(d)]
         [] action = "unapprove" ->
              /\ earlier' = [earlier EXCEPT ![d] = {}]
              /\ refund' = [refund EXCEPT ![d] = 0]
         [] OTHER -> UNCHANGED <<earlier, refund>>

ReviewQuantity(d, action) ==
  /\ Review(d, action)
  /\ QuantitiesStand(d, action)
  /\ Settle(d, action)
  /\ UNCHANGED <<quantity, billed>>

(* deleteInTransaction: the lines go with the entry.                        *)
DeleteQuantity(d) ==
  /\ Delete(d)
  /\ quantity' = [quantity EXCEPT ![d] = 0]
  /\ billed' = [billed EXCEPT ![d] = 0]
  /\ UNCHANGED <<earlier, refund>>

Parents(e) == IF ParentEntity(e) = "none" THEN {NoDocument}
              ELSE {x \in Documents : documents[x].entity = ParentEntity(e)}

Sources(e) == IF LineEntity(e) = "none" THEN {{}}
              ELSE {{x} : x \in {y \in Documents : documents[y].entity = LineEntity(e)}}

QuantitiesNext ==
  \E d \in Documents :
    \/ \E e \in Entities : \E p \in Parents(e), ls \in Sources(e), q \in Quantity :
         SubmitQuantity(d, e, p, ls, q)
    \/ \E action \in Rules!ApprovalAction : ReviewQuantity(d, action)
    \/ DeleteQuantity(d)

QuantitiesSpec == QuantitiesInit /\ [][QuantitiesNext]_quantitiesVars

-------------------------------------------------------------------------------
(* sale-fulfillment.ts 378-455: what is under way and what was signed for    *)
(* never add up to more than was ordered, in whatever order outbounds are    *)
(* sent and signoffs for less than was sent are approved and reversed.       *)
OrdersNotOversold ==
  \A order \in ApprovedIn(OfKind("sale-order")) :
    SaleOrderOccupancy(order, {}, {}) <= quantity[order]

NetReceipts(order) ==
  Total(ApprovedIn(ChildrenOf(order, "purchase-inbound")))
    - Total(ApprovedIn(ChildrenOf(order, "purchase-return")))

NetReceiptsFit(order) == NetReceipts(order) <= quantity[order]

(* prior-fact.ts 301-392: no step takes the approved receipts of an order,   *)
(* less what was sent back, beyond what was ordered, but the reversal of a   *)
(* return after others have been received for it.                            *)
ReceiptsWithinOrder ==
  [][\A order \in Documents :
       /\ order \in ApprovedIn(OfKind("purchase-order"))'
       /\ ~ NetReceiptsFit(order)'
       => \/ ~ NetReceiptsFit(order)
          \/ \E d \in DOMAIN quantity : /\ documents[d].entity = "purchase-return"
                                        /\ Approved(d) /\ ~ Approved(d)']_quantitiesVars

(* vou.md 273: the reversal of a purchase return is refused when inbounds    *)
(* have used the room it made.                                               *)
NetReceiptsWithinOrder ==
  \A order \in ApprovedIn(OfKind("purchase-order")) : NetReceiptsFit(order)

(* service.ts 4563-4712, invoice.ts 153-534: returns and invoices together   *)
(* never take more from a source than it has, also when it was replaced      *)
(* while they lay rejected; an invoice names the submission that is in force.*)
SourcesNotOverdrawn ==
  \A l \in Documents :
    /\ Total({d \in DrawingOn(l, "purchase-return") : entry[d].status # "REJECTED"}) <= quantity[l]
    /\ Total(ApprovedIn(DrawingOn(l, "sale-return"))) <= quantity[l]
    /\ AvailableAmount(l, {}) >= 0
    /\ \A d \in UNION {DrawingOn(l, e) : e \in Invoices} :
         entry[d].status # "REJECTED" => Approved(l) /\ billed[d] = documents[l].stable

(* invoice.ts 605-635, prior-fact.ts 395-444: what the postings of returns   *)
(* give back for a receipt adds up to the amount of all that was returned,   *)
(* whatever returns were reversed and approved again in between.             *)
RefundsAddUp ==
  \A l \in Documents :
    LET returns == ApprovedIn(DrawingOn(l, "purchase-return"))
    IN SumFunctionOnSet(refund, returns) = Amount(Total(returns))

===============================================================================
