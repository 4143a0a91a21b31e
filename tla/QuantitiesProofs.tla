--------------------------- MODULE QuantitiesProofs ---------------------------
(***************************************************************************)
(* Proofs about Quantities, for any documents, entities, prices and bounds.  *)
(* What the vouchers promise by themselves (ApprovedRestOnApproved,          *)
(* OneSoleChild, DrawnOnStayApproved) comes from ProcessesProofs, where it   *)
(* is proved for every step of Vouchers.  The sums are those of FiniteSums.  *)
(***************************************************************************)
EXTENDS Quantities, ProcessesProofs, FiniteSums

-------------------------------------------------------------------------------
(* Sums over documents.                                                     *)

LEMMA SumOfDocuments ==
  ASSUME NEW f \in [Documents -> Nat], NEW S \in SUBSET Documents
  PROVE  IsFiniteSet(S) /\ SumFunctionOnSet(f, S) \in Nat
<1>1. IsFiniteSet(S)
  BY QuantitiesAssumption, FS_Subset
<1>2. \A x \in S : f[x] \in Nat
  OBVIOUS
<1> QED
  BY <1>1, <1>2, SumNatural

LEMMA SumLess ==
  ASSUME NEW f \in [Documents -> Nat], NEW x \in Documents, NEW S \in SUBSET Documents, x \in S
  PROVE  SumFunctionOnSet(f, S \ {x}) = SumFunctionOnSet(f, S) - f[x]
<1>1. IsFiniteSet(S) /\ \A y \in S : f[y] \in Int
  BY SumOfDocuments
<1>2. SumFunctionOnSet(f, S) = f[x] + SumFunctionOnSet(f, S \ {x})
  BY <1>1, SumWithout
<1>3. SumFunctionOnSet(f, S) \in Nat /\ SumFunctionOnSet(f, S \ {x}) \in Nat /\ f[x] \in Nat
  BY SumOfDocuments
<1> QED
  BY <1>2, <1>3

LEMMA SumWith ==
  ASSUME NEW f \in [Documents -> Nat], NEW S \in SUBSET Documents, NEW x \in Documents \ S
  PROVE  SumFunctionOnSet(f, S \cup {x}) = SumFunctionOnSet(f, S) + f[x]
<1>1. (S \cup {x}) \ {x} = S /\ S \cup {x} \in SUBSET Documents
  OBVIOUS
<1>2. SumFunctionOnSet(f, S) = SumFunctionOnSet(f, S \cup {x}) - f[x]
  BY <1>1, SumLess
<1>3. SumFunctionOnSet(f, S) \in Nat /\ SumFunctionOnSet(f, S \cup {x}) \in Nat /\ f[x] \in Nat
  BY SumOfDocuments
<1> QED
  BY <1>2, <1>3

LEMMA SumOfPart ==
  ASSUME NEW f \in [Documents -> Nat], NEW S \in SUBSET Documents, NEW T \in SUBSET S
  PROVE  SumFunctionOnSet(f, T) <= SumFunctionOnSet(f, S)
<1>1. IsFiniteSet(S) /\ \A y \in S : f[y] \in Nat
  BY SumOfDocuments
<1> QED
  BY <1>1, SumOfMore

LEMMA SumOfOne ==
  ASSUME NEW f \in [Documents -> Nat], NEW x \in Documents
  PROVE  SumFunctionOnSet(f, {x}) = f[x]
<1>1. SumFunctionOnSet(f, {} \cup {x}) = SumFunctionOnSet(f, {}) + f[x]
  BY SumWith
<1>2. SumFunctionOnSet(f, {}) = 0
  BY SumEmpty
<1> QED
  BY <1>1, <1>2

LEMMA SumOfSame ==
  ASSUME NEW f, NEW g, NEW S \in SUBSET Documents, \A x \in S : f[x] = g[x]
  PROVE  SumFunctionOnSet(f, S) = SumFunctionOnSet(g, S)
<1>1. IsFiniteSet(S)
  BY QuantitiesAssumption, FS_Subset
<1> QED
  BY <1>1, SumEqual

(* What a quantity costs.                                                   *)
LEMMA Costs ==
  ASSUME NEW q \in Quantity
  PROVE  /\ q \in Nat /\ Amount(q) \in Nat /\ Amount(0) = 0
         /\ \A less \in Nat : less <= q => less \in Quantity /\ Amount(less) <= Amount(q)
<1>1. q \in Nat /\ \A less \in Nat : less <= q => less \in Quantity /\ less \in 0..q
  BY QuantitiesAssumption DEF Quantity
<1> QED
  BY <1>1, QuantitiesAssumption

-------------------------------------------------------------------------------
(* What an operation changes.                                               *)

LEMMA ParentsAndSources ==
  ASSUME NEW e
  PROVE  /\ Parents(e) \subseteq Documents \cup {NoDocument}
         /\ Sources(e) \subseteq SUBSET Documents
BY DEF Parents, Sources

LEMMA SubmitChanges ==
  ASSUME QuantitiesTypeOK, NEW d \in Documents, NEW e \in Entities, NEW p \in Parents(e),
         NEW ls \in Sources(e), NEW q \in Quantity, SubmitQuantity(d, e, p, ls, q)
  PROVE  /\ ~ Live(d) /\ ~ Approved(d) /\ documents[d].entity \in {"none", e}
         /\ documents'[d].entity = e /\ documents'[d].stable = documents[d].stable
         /\ entry'[d] = [status |-> "PENDING", revision |-> 1, parent |-> p, lines |-> ls]
         /\ quantity'[d] = q
         /\ \A x \in Documents \ {d} : /\ documents'[x] = documents[x]
                                       /\ entry'[x] = entry[x]
                                       /\ quantity'[x] = quantity[x]
                                       /\ billed'[x] = billed[x]
         /\ \A x \in Documents : documents'[x].stable = documents[x].stable
BY DEF SubmitQuantity, Submit, NewDetail, QuantitiesTypeOK, VouchersTypeOK, Live, Approved

LEMMA ReviewChanges ==
  ASSUME QuantitiesTypeOK, NEW d \in Documents, NEW action \in Rules!ApprovalAction,
         ReviewQuantity(d, action)
  PROVE  /\ documents' = documents /\ quantity' = quantity /\ billed' = billed
         /\ \A x \in Documents : /\ entry'[x].parent = entry[x].parent
                                 /\ entry'[x].lines = entry[x].lines
                                 /\ Live(x)' <=> Live(x)
         /\ \A x \in Documents \ {d} : entry'[x] = entry[x]
         /\ entry[d].status = CASE action \in {"approve", "reject"} -> "PENDING"
                                [] action = "unreject"  -> "REJECTED"
                                [] action = "unapprove" -> "APPROVED"
         /\ entry'[d].status = CASE action \in {"unreject", "unapprove"} -> "PENDING"
                                 [] action = "reject"  -> "REJECTED"
                                 [] action = "approve" -> "APPROVED"
<1>1. /\ Rules!ActionIsValidForStatus(action, entry[d].status)
      /\ entry' = [entry EXCEPT ![d].status = Rules!TargetStatus(action),
                                ![d].revision = @ + 1]
      /\ UNCHANGED documents
  BY DEF ReviewQuantity, Review
<1>2. /\ \A x \in Documents \ {d} : entry'[x] = entry[x]
      /\ entry'[d].parent = entry[d].parent /\ entry'[d].lines = entry[d].lines
      /\ entry'[d].status = Rules!TargetStatus(action)
  BY <1>1 DEF QuantitiesTypeOK, VouchersTypeOK
<1>3. /\ entry[d].status = CASE action \in {"approve", "reject"} -> "PENDING"
                             [] action = "unreject"  -> "REJECTED"
                             [] action = "unapprove" -> "APPROVED"
      /\ entry'[d].status = CASE action \in {"unreject", "unapprove"} -> "PENDING"
                              [] action = "reject"  -> "REJECTED"
                              [] action = "approve" -> "APPROVED"
  BY <1>1, <1>2 DEF Rules!ActionIsValidForStatus, Rules!TargetStatus, Rules!ApprovalAction
<1>4. \A x \in Documents : Live(x)' <=> Live(x)
  BY <1>2, <1>3 DEF Live, Rules!ApprovalAction
<1> QED
  BY <1>1, <1>2, <1>3, <1>4 DEF ReviewQuantity

LEMMA DeleteChanges ==
  ASSUME QuantitiesTypeOK, NEW d \in Documents, DeleteQuantity(d)
  PROVE  /\ entry[d].status \in {"PENDING", "REJECTED"} /\ ~ Approved(d) /\ Blockers(d) = {}
         /\ entry'[d] = NoEntry /\ ~ Live(d)' /\ quantity'[d] = 0
         /\ \A x \in Documents : documents'[x].entity = documents[x].entity
         /\ \A x \in Documents \ {d} : /\ documents'[x] = documents[x]
                                       /\ entry'[x] = entry[x]
                                       /\ quantity'[x] = quantity[x]
                                       /\ billed'[x] = billed[x]
BY DEF DeleteQuantity, Delete, NoEntry, QuantitiesTypeOK, VouchersTypeOK, Live, Approved

(* Every step is one of the vouchers', or leaves them alone.                *)
LEMMA QuantityStep ==
  ASSUME [QuantitiesNext]_quantitiesVars
  PROVE  [VouchersNext]_voucherVars
<1>1. CASE UNCHANGED quantitiesVars
  BY <1>1 DEF quantitiesVars
<1>2. ASSUME NEW d \in Documents, NEW e \in Entities, NEW p \in Parents(e),
             NEW ls \in Sources(e), NEW q \in Quantity, SubmitQuantity(d, e, p, ls, q)
      PROVE  VouchersNext
  <2>1. p \in Documents \cup {NoDocument} /\ ls \in SUBSET Documents
    BY ParentsAndSources
  <2>2. Submit(d, e, p, ls, e \in SystemGenerated) /\ (e \in SystemGenerated) \in BOOLEAN
    BY <1>2 DEF SubmitQuantity
  <2> QED
    BY <2>1, <2>2 DEF VouchersNext
<1>3. ASSUME NEW d \in Documents, NEW action \in Rules!ApprovalAction, ReviewQuantity(d, action)
      PROVE  VouchersNext
  BY <1>3 DEF ReviewQuantity, VouchersNext
<1>4. ASSUME NEW d \in Documents, DeleteQuantity(d)
      PROVE  VouchersNext
  BY <1>4 DEF DeleteQuantity, VouchersNext
<1> QED
  BY <1>1, <1>2, <1>3, <1>4 DEF QuantitiesNext
-------------------------------------------------------------------------------
(* Where documents stand: a return or an invoice draws from one source of    *)
(* its kind, and who names a parent names one of the kind it takes.          *)

Placed(d) ==
  LET e == documents[d].entity IN
  /\ ~ Live(d) => entry[d].lines = {} /\ entry[d].parent = NoDocument
  /\ Live(d) /\ LineEntity(e) = "none" => entry[d].lines = {}
  /\ Live(d) /\ LineEntity(e) # "none" =>
       \E l \in Documents : entry[d].lines = {l} /\ documents[l].entity = LineEntity(e)
  /\ entry[d].parent # NoDocument =>
       documents[entry[d].parent].entity = ParentEntity(e) /\ ParentEntity(e) # "none"

AllPlaced == \A d \in Documents : Placed(d)

LEMMA SubmitPlaces ==
  ASSUME QuantitiesTypeOK, AllPlaced, NEW d \in Documents, NEW e \in Entities,
         NEW p \in Parents(e), NEW ls \in Sources(e), NEW q \in Quantity,
         SubmitQuantity(d, e, p, ls, q)
  PROVE  AllPlaced'
<1>1. /\ documents[d].entity \in {"none", e}
      /\ documents'[d].entity = e
      /\ entry'[d] = [status |-> "PENDING", revision |-> 1, parent |-> p, lines |-> ls]
      /\ \A x \in Documents \ {d} : documents'[x] = documents[x] /\ entry'[x] = entry[x]
  BY SubmitChanges
<1>2. /\ p # NoDocument => documents[p].entity = ParentEntity(e)
      /\ (ls = {}) <=> (LineEntity(e) = "none")
      /\ \A l \in ls : documents[l].entity = LineEntity(e)
  BY DEF SubmitQuantity, Submit
<1>3. \A x \in Documents : documents[x].entity # "none" => documents'[x].entity = documents[x].entity
  BY <1>1
<1>4. Placed(d)'
  <2>1. Live(d)' /\ entry'[d].lines = ls /\ entry'[d].parent = p
    BY <1>1 DEF Live
  <2>2. LineEntity(e) # "none" => \E l \in Documents : ls = {l} /\ documents'[l].entity = LineEntity(e)
    <3> SUFFICES ASSUME LineEntity(e) # "none"
                 PROVE  \E l \in Documents : ls = {l} /\ documents'[l].entity = LineEntity(e)
      OBVIOUS
    <3>1. PICK l \in Documents : ls = {l}
      BY DEF Sources
    <3> QED
      BY <1>2, <1>3, <3>1
  <2>3. p # NoDocument => /\ documents'[p].entity = ParentEntity(e)
                          /\ ParentEntity(e) # "none"
    BY <1>2, <1>3 DEF Parents
  <2> QED
    BY <1>1, <1>2, <2>1, <2>2, <2>3 DEF Placed
<1>5. ASSUME NEW x \in Documents \ {d}
      PROVE  Placed(x)'
  <2> DEFINE k == documents[x].entity
  <2>1. documents'[x] = documents[x] /\ entry'[x] = entry[x]
    BY <1>1
  <2>2. Live(x)' <=> Live(x)
    BY <2>1 DEF Live
  <2>3. Placed(x)
    BY DEF AllPlaced
  <2>4. ASSUME Live(x), LineEntity(k) # "none"
        PROVE  \E l \in Documents : entry[x].lines = {l} /\ documents'[l].entity = LineEntity(k)
    BY <1>3, <2>3, <2>4 DEF Placed
  <2>5. ASSUME entry[x].parent # NoDocument
        PROVE  documents'[entry[x].parent].entity = ParentEntity(k) /\ ParentEntity(k) # "none"
    <3>1. entry[x].parent \in Documents
      BY <2>5 DEF QuantitiesTypeOK, VouchersTypeOK
    <3> QED
      BY <1>3, <2>3, <2>5, <3>1 DEF Placed
  <2> QED
    BY <2>1, <2>2, <2>3, <2>4, <2>5 DEF Placed
<1> QED
  BY <1>4, <1>5 DEF AllPlaced

LEMMA ReviewPlaces ==
  ASSUME QuantitiesTypeOK, AllPlaced, NEW d \in Documents,
         NEW action \in Rules!ApprovalAction, ReviewQuantity(d, action)
  PROVE  AllPlaced'
<1>1. /\ documents' = documents
      /\ \A x \in Documents : /\ entry'[x].parent = entry[x].parent
                              /\ entry'[x].lines = entry[x].lines
                              /\ Live(x)' <=> Live(x)
  BY ReviewChanges
<1> QED
  BY <1>1 DEF AllPlaced, Placed

LEMMA DeletePlaces ==
  ASSUME QuantitiesTypeOK, AllPlaced, NEW d \in Documents, DeleteQuantity(d)
  PROVE  AllPlaced'
<1>1. /\ entry'[d] = NoEntry /\ ~ Live(d)'
      /\ \A x \in Documents : documents'[x].entity = documents[x].entity
      /\ \A x \in Documents \ {d} : entry'[x] = entry[x]
  BY DeleteChanges
<1>2. Placed(d)'
  BY <1>1 DEF Placed, NoEntry
<1>3. ASSUME NEW x \in Documents \ {d}
      PROVE  Placed(x)'
  <2>1. entry'[x] = entry[x] /\ (Live(x)' <=> Live(x)) /\ Placed(x)
    BY <1>1 DEF AllPlaced, Live
  <2>2. entry[x].parent # NoDocument => entry[x].parent \in Documents
    BY DEF QuantitiesTypeOK, VouchersTypeOK
  <2> QED
    BY <1>1, <2>1, <2>2 DEF Placed
<1> QED
  BY <1>2, <1>3 DEF AllPlaced
-------------------------------------------------------------------------------
(* Types.  What a return is given back is not negative, because it and the   *)
(* approved returns before it fit into their source.                         *)

(* The returns of one source are those that draw on it.                     *)
LEMMA SameSourceIs ==
  ASSUME AllPlaced, NEW d \in Documents, Live(d), documents[d].entity = "purchase-return"
  PROVE  \E l \in Documents :
           /\ entry[d].lines = {l} /\ documents[l].entity = "purchase-inbound"
           /\ SameSource(d) = ApprovedIn(DrawingOn(l, "purchase-return")) \ {d}
<1>1. PICK l \in Documents : entry[d].lines = {l} /\ documents[l].entity = "purchase-inbound"
  BY DEF AllPlaced, Placed, LineEntity
<1>2. SameSource(d) = ApprovedIn(DrawingOn(l, "purchase-return")) \ {d}
  BY <1>1 DEF SameSource, ApprovedIn, DrawingOn
<1> QED
  BY <1>1, <1>2

(* What may be returned at an approval, in the terms of its settlement.     *)
LEMMA SettlementFits ==
  ASSUME QuantitiesTypeOK, AllPlaced, NEW d \in Documents, Live(d),
         documents[d].entity = "purchase-return", QuantitiesStand(d, "approve")
  PROVE  /\ Total(SameSource(d)) \in Nat /\ quantity[d] \in Nat
         /\ Total(SameSource(d)) + quantity[d] \in Quantity
         /\ Settlement(d) \in Nat
         /\ Settlement(d) = Amount(Total(SameSource(d)) + quantity[d])
                              - Amount(Total(SameSource(d)))
<1>1. PICK l \in Documents :
        /\ entry[d].lines = {l}
        /\ SameSource(d) = ApprovedIn(DrawingOn(l, "purchase-return")) \ {d}
  BY SameSourceIs
<1> DEFINE before == Total(SameSource(d))
           others == Total(DrawingOn(l, "purchase-return") \ {d})
<1>2. quantity[d] + others <= quantity[l]
  BY <1>1 DEF QuantitiesStand, ReturnSources, Returns
<1>3. /\ quantity \in [Documents -> Nat] /\ quantity[l] \in Quantity
      /\ quantity[d] \in Nat /\ quantity[l] \in Nat
  BY Costs DEF QuantitiesTypeOK
<1>4. /\ DrawingOn(l, "purchase-return") \ {d} \in SUBSET Documents
      /\ SameSource(d) \in SUBSET (DrawingOn(l, "purchase-return") \ {d})
      /\ SameSource(d) \in SUBSET Documents
  BY <1>1 DEF ApprovedIn, DrawingOn, OfKind
<1>5. before <= others /\ before \in Nat /\ others \in Nat
  BY <1>3, <1>4, SumOfPart, SumOfDocuments DEF Total
<1>6. before + quantity[d] \in Nat /\ before + quantity[d] <= quantity[l]
  <2> HIDE DEF before, others
  <2> QED BY <1>2, <1>3, <1>5
<1>7. before + quantity[d] \in Quantity
  <2> HIDE DEF before
  <2> QED BY <1>3, <1>6, Costs
<1>8. /\ Amount(before) \in Nat /\ Amount(before + quantity[d]) \in Nat
      /\ Amount(before) <= Amount(before + quantity[d])
  <2>1. before <= before + quantity[d]
    <3> HIDE DEF before
    <3> QED BY <1>3, <1>5
  <2>2. before \in Quantity /\ Amount(before) <= Amount(before + quantity[d])
    <3> HIDE DEF before
    <3> QED BY <1>5, <1>7, <2>1, Costs
  <2>3. Amount(before) \in Nat /\ Amount(before + quantity[d]) \in Nat
    <3> HIDE DEF before
    <3> QED BY <1>7, <2>2, Costs
  <2> QED BY <2>2, <2>3
<1>9. Settlement(d) = Amount(before + quantity[d]) - Amount(before)
  BY DEF Settlement
<1>10. Settlement(d) \in Nat
  <2> HIDE DEF before
  <2> QED BY <1>8, <1>9
<1> QED
  BY <1>3, <1>5, <1>7, <1>9, <1>10

LEMMA QuantitiesTyped ==
  ASSUME QuantitiesTypeOK, AllPlaced, [QuantitiesNext]_quantitiesVars
  PROVE  QuantitiesTypeOK'
<1>0. VouchersTypeOK'
  BY QuantityStep, VouchersTyped DEF QuantitiesTypeOK
<1>1. CASE UNCHANGED quantitiesVars
  BY <1>0, <1>1 DEF quantitiesVars, voucherVars, quantityVars, QuantitiesTypeOK, Approved
<1>2. ASSUME NEW d \in Documents, NEW e \in Entities, NEW p \in Parents(e),
             NEW ls \in Sources(e), NEW q \in Quantity, SubmitQuantity(d, e, p, ls, q)
      PROVE  QuantitiesTypeOK'
  <2>1. quantity' \in [Documents -> Quantity] /\ UNCHANGED <<earlier, refund>>
    BY <1>2 DEF SubmitQuantity, QuantitiesTypeOK
  <2>2. billed' \in [Documents -> Nat]
    <3>1. e \in Invoices => documents[CHOOSE l \in ls : TRUE].stable \in Nat
      <4> SUFFICES ASSUME e \in Invoices PROVE documents[CHOOSE l \in ls : TRUE].stable \in Nat
        OBVIOUS
      <4>1. ls # {}
        BY <1>2 DEF SubmitQuantity, Submit, LineEntity, Invoices
      <4>2. ls \in SUBSET Documents
        BY ParentsAndSources
      <4>3. (CHOOSE l \in ls : TRUE) \in Documents
        BY <4>1, <4>2
      <4> QED
        BY <4>3 DEF QuantitiesTypeOK, VouchersTypeOK
    <3> QED
      BY <1>2, <3>1 DEF SubmitQuantity, QuantitiesTypeOK
  <2>3. ~ Approved(d) /\ \A x \in Documents \ {d} : documents'[x] = documents[x] /\ entry'[x] = entry[x]
    BY <1>2, SubmitChanges
  <2>4. \A x \in Documents : refund'[x] # 0 \/ earlier'[x] # {} =>
          documents'[x].entity = "purchase-return" /\ Approved(x)'
    BY <2>1, <2>3 DEF QuantitiesTypeOK, Approved
  <2> QED
    BY <1>0, <2>1, <2>2, <2>4 DEF QuantitiesTypeOK
<1>3. ASSUME NEW d \in Documents, NEW action \in Rules!ApprovalAction, ReviewQuantity(d, action)
      PROVE  QuantitiesTypeOK'
  <2>1. /\ documents' = documents /\ quantity' = quantity /\ billed' = billed
        /\ \A x \in Documents \ {d} : entry'[x] = entry[x]
        /\ entry[d].status = CASE action \in {"approve", "reject"} -> "PENDING"
                                [] action = "unreject"  -> "REJECTED"
                                [] action = "unapprove" -> "APPROVED"
        /\ entry'[d].status = CASE action \in {"unreject", "unapprove"} -> "PENDING"
                                [] action = "reject"  -> "REJECTED"
                                [] action = "approve" -> "APPROVED"
    BY <1>3, ReviewChanges
  <2>2. Settle(d, action) /\ QuantitiesStand(d, action)
    BY <1>3 DEF ReviewQuantity
  <2>3. CASE documents[d].entity = "purchase-return" /\ action = "approve"
    <3>1. Live(d)
      BY <2>1, <2>3 DEF Live
    <3>2. Settlement(d) \in Nat /\ SameSource(d) \in SUBSET Documents
      BY <2>2, <2>3, <3>1, SettlementFits DEF SameSource, ApprovedIn, OfKind
    <3>3. /\ earlier' = [earlier EXCEPT ![d] = SameSource(d)]
          /\ refund' = [refund EXCEPT ![d] = Settlement(d)]
      BY <2>2, <2>3 DEF Settle
    <3>4. Approved(d)' /\ \A x \in Documents \ {d} : Approved(x)' <=> Approved(x)
      BY <2>1, <2>3 DEF Approved
    <3> QED
      BY <1>0, <2>1, <2>3, <3>2, <3>3, <3>4 DEF QuantitiesTypeOK
  <2>4. CASE documents[d].entity = "purchase-return" /\ action = "unapprove"
    <3>1. /\ earlier' = [earlier EXCEPT ![d] = {}]
          /\ refund' = [refund EXCEPT ![d] = 0]
      BY <2>2, <2>4 DEF Settle
    <3>2. \A x \in Documents \ {d} : Approved(x)' <=> Approved(x)
      BY <2>1 DEF Approved
    <3> QED
      BY <1>0, <2>1, <3>1, <3>2 DEF QuantitiesTypeOK
  <2>5. CASE documents[d].entity # "purchase-return" \/ action \notin {"approve", "unapprove"}
    <3>1. UNCHANGED <<earlier, refund>>
      BY <2>2, <2>5 DEF Settle
    <3>2. \A x \in Documents \ {d} : Approved(x)' <=> Approved(x)
      BY <2>1 DEF Approved
    <3>3. documents[d].entity = "purchase-return" => ~ Approved(d)
      BY <2>1, <2>5 DEF Approved, Rules!ApprovalAction
    <3> QED
      BY <1>0, <2>1, <3>1, <3>2, <3>3 DEF QuantitiesTypeOK
  <2> QED
    BY <2>3, <2>4, <2>5
<1>4. ASSUME NEW d \in Documents, DeleteQuantity(d)
      PROVE  QuantitiesTypeOK'
  <2>1. /\ quantity' = [quantity EXCEPT ![d] = 0] /\ billed' = [billed EXCEPT ![d] = 0]
        /\ UNCHANGED <<earlier, refund>>
    BY <1>4 DEF DeleteQuantity
  <2>2. /\ ~ Approved(d)
        /\ \A x \in Documents \ {d} : documents'[x] = documents[x] /\ entry'[x] = entry[x]
    BY <1>4, DeleteChanges
  <2>3. 0 \in Quantity
    BY QuantitiesAssumption DEF Quantity
  <2>4. \A x \in Documents : refund'[x] # 0 \/ earlier'[x] # {} =>
          documents'[x].entity = "purchase-return" /\ Approved(x)'
    BY <2>1, <2>2 DEF QuantitiesTypeOK, Approved
  <2> QED
    BY <1>0, <2>1, <2>3, <2>4 DEF QuantitiesTypeOK
<1> QED
  BY <1>1, <1>2, <1>3, <1>4 DEF QuantitiesNext

BaseInv == QuantitiesTypeOK /\ AllPlaced /\ RestInv /\ OneSoleChild

LEMMA BaseHolds == QuantitiesInit => BaseInv
<1> SUFFICES ASSUME QuantitiesInit PROVE BaseInv
  OBVIOUS
<1>1. 0 \in Quantity
  BY QuantitiesAssumption DEF Quantity
<1>2. VouchersTypeOK /\ \A d \in Documents : entry[d] = NoEntry
  BY DEF QuantitiesInit, VouchersInit, VouchersTypeOK, NoEntry
<1>3. QuantitiesTypeOK
  BY <1>1, <1>2 DEF QuantitiesInit, QuantitiesTypeOK
<1>4. \A d \in Documents : ~ Live(d) /\ ~ Approved(d)
  BY <1>2 DEF NoEntry, Live, Approved
<1>5. AllPlaced
  BY <1>2, <1>4 DEF AllPlaced, Placed, NoEntry
<1>6. RestInv
  BY <1>2, <1>4 DEF RestInv, ApprovedRestOnApproved, DrawnOnStayApproved, NoEntry
<1>7. OneSoleChild
  BY <1>4 DEF OneSoleChild
<1> QED
  BY <1>3, <1>5, <1>6, <1>7 DEF BaseInv

LEMMA BaseStays ==
  ASSUME BaseInv, [QuantitiesNext]_quantitiesVars
  PROVE  BaseInv'
<1>1. QuantitiesTypeOK'
  BY QuantitiesTyped DEF BaseInv
<1>2. RestInv' /\ OneSoleChild'
  BY QuantityStep, VouchersRest, VouchersSole DEF BaseInv, RestInv
<1>3. AllPlaced'
  <2>1. CASE UNCHANGED quantitiesVars
    BY <2>1 DEF BaseInv, quantitiesVars, voucherVars, AllPlaced, Placed, Live
  <2>2. CASE QuantitiesNext
    BY <2>2, SubmitPlaces, ReviewPlaces, DeletePlaces DEF BaseInv, QuantitiesNext
  <2> QED
    BY <2>1, <2>2
<1> QED
  BY <1>1, <1>2, <1>3 DEF BaseInv

(* Documents, quantities, billing, order and refunds keep their shape; only  *)
(* an approved purchase return has a refund or a place in the order.         *)
THEOREM QuantitiesTypeCorrect == QuantitiesSpec => []QuantitiesTypeOK
<1>1. BaseInv => QuantitiesTypeOK
  BY DEF BaseInv
<1> QED
  BY <1>1, BaseHolds, BaseStays, PTL DEF QuantitiesSpec

(* With their quantities, the vouchers still see submissions, reviews and    *)
(* deletions only: what holds of Vouchers holds here.                        *)
THEOREM QuantitiesRunOnVouchers == QuantitiesSpec => VouchersSpec
<1>1. QuantitiesInit => VouchersInit
  BY DEF QuantitiesInit
<1> QED
  BY <1>1, QuantityStep, PTL DEF QuantitiesSpec, VouchersSpec
-------------------------------------------------------------------------------
(* Refunds.  The approved returns of one source stand in the order of their  *)
(* approvals: of two, one is earlier than the other, and each was given the  *)
(* difference that its quantity made to what was earlier.  The reversal of a *)
(* return looks for later ones, so it takes away the last difference.        *)

ReturnsOf(l) == ApprovedIn(DrawingOn(l, "purchase-return"))

InTurn(d) ==
  /\ earlier[d] \subseteq SameSource(d)
  /\ Total(earlier[d]) + quantity[d] \in Quantity
  /\ refund[d] = Amount(Total(earlier[d]) + quantity[d]) - Amount(Total(earlier[d]))
  /\ \A x \in SameSource(d) \ earlier[d] : d \in earlier[x]

AllInTurn == \A d \in ApprovedIn(OfKind("purchase-return")) : InTurn(d)

IsReturn(d) == Approved(d) /\ documents[d].entity = "purchase-return"

LEMMA ReturnsOfIs ==
  ASSUME NEW l
  PROVE  /\ ReturnsOf(l) = {x \in Documents : IsReturn(x) /\ l \in entry[x].lines}
         /\ ReturnsOf(l)' = {x \in Documents : IsReturn(x)' /\ l \in entry'[x].lines}
BY DEF ReturnsOf, ApprovedIn, DrawingOn, OfKind, Live, Approved, IsReturn

LEMMA SameSourceOf ==
  ASSUME NEW d
  PROVE  /\ SameSource(d) = {x \in Documents \ {d} :
                               IsReturn(x) /\ entry[x].lines \cap entry[d].lines # {}}
         /\ SameSource(d)' = {x \in Documents \ {d} :
                                IsReturn(x)' /\ entry'[x].lines \cap entry'[d].lines # {}}
BY DEF SameSource, ApprovedIn, OfKind, Live, Approved, IsReturn

(* ... and what they are after a step that keeps the lines of documents.     *)
LEMMA SameSourceStays ==
  ASSUME NEW d \in Documents, entry'[d].lines = entry[d].lines,
         \A x \in Documents \ {d} : /\ IsReturn(x)' <=> IsReturn(x)
                                    /\ IsReturn(x) => entry'[x].lines = entry[x].lines
  PROVE  SameSource(d)' = SameSource(d)
<1>1. \A x \in Documents \ {d} :
        IsReturn(x)' /\ entry'[x].lines \cap entry'[d].lines # {}
          <=> IsReturn(x) /\ entry[x].lines \cap entry[d].lines # {}
  OBVIOUS
<1> QED
  BY <1>1, SameSourceOf

LEMMA ReturnsOfStay ==
  ASSUME NEW l,
         \A x \in Documents : /\ IsReturn(x)' /\ l \in entry'[x].lines
                                <=> IsReturn(x) /\ l \in entry[x].lines
  PROVE  ReturnsOf(l)' = ReturnsOf(l)
BY ReturnsOfIs

LEMMA ApprovedReturns ==
  /\ ApprovedIn(OfKind("purchase-return")) = {x \in Documents : IsReturn(x)}
  /\ ApprovedIn(OfKind("purchase-return"))' = {x \in Documents : IsReturn(x)'}
BY DEF ApprovedIn, OfKind, Live, Approved, IsReturn

(* A step that leaves the approved returns as they are keeps their order.   *)
LEMMA ReturnsAside ==
  ASSUME QuantitiesTypeOK, QuantitiesTypeOK', AllInTurn, RefundsAddUp,
         earlier' = earlier, refund' = refund,
         \A x \in Documents : IsReturn(x)' <=> IsReturn(x),
         \A x \in Documents : IsReturn(x) => /\ entry'[x].lines = entry[x].lines
                                             /\ quantity'[x] = quantity[x]
  PROVE  (AllInTurn /\ RefundsAddUp)'
<1>1. ApprovedIn(OfKind("purchase-return"))' = ApprovedIn(OfKind("purchase-return"))
  BY ApprovedReturns
<1>2. ASSUME NEW d \in ApprovedIn(OfKind("purchase-return"))
      PROVE  InTurn(d)'
  <2>0. d \in Documents /\ IsReturn(d)
    BY <1>2, ApprovedReturns
  <2>1. SameSource(d)' = SameSource(d)
    BY <2>0, SameSourceStays
  <2>2. SameSource(d) \subseteq ApprovedIn(OfKind("purchase-return")) /\ d \in Documents
    BY <1>2 DEF SameSource, ApprovedIn, OfKind
  <2>3. InTurn(d)
    BY <1>2 DEF AllInTurn
  <2>4. earlier[d] \in SUBSET Documents /\ \A x \in earlier[d] : quantity'[x] = quantity[x]
    BY <2>2, <2>3, ApprovedReturns DEF InTurn, QuantitiesTypeOK
  <2>5. Total(earlier[d])' = Total(earlier[d])
    BY <2>4, SumOfSame DEF Total
  <2>6. quantity'[d] = quantity[d]
    BY <1>2, ApprovedReturns
  <2> QED
    BY <2>1, <2>3, <2>5, <2>6 DEF InTurn
<1>3. ASSUME NEW l \in Documents
      PROVE  SumFunctionOnSet(refund', ReturnsOf(l)') = Amount(Total(ReturnsOf(l))')
  <2>1. ReturnsOf(l)' = ReturnsOf(l)
    BY ReturnsOfIs
  <2>2. ReturnsOf(l) \in SUBSET Documents /\ \A x \in ReturnsOf(l) : quantity'[x] = quantity[x]
    BY ReturnsOfIs
  <2>3. Total(ReturnsOf(l))' = Total(ReturnsOf(l))
    BY <2>1, <2>2, SumOfSame DEF Total
  <2>4. SumFunctionOnSet(refund, ReturnsOf(l)) = Amount(Total(ReturnsOf(l)))
    BY DEF RefundsAddUp, ReturnsOf
  <2> QED
    BY <2>1, <2>3, <2>4
<1> QED
  BY <1>1, <1>2, <1>3 DEF AllInTurn, RefundsAddUp, ReturnsOf

(* Whoever draws on the same source, the other does, too.                   *)
LEMMA SourceShared ==
  ASSUME NEW d \in ApprovedIn(OfKind("purchase-return")), NEW x \in SameSource(d)
  PROVE  x \in ApprovedIn(OfKind("purchase-return")) /\ d \in SameSource(x)
BY ApprovedReturns, SameSourceOf

LEMMA ApprovalSettles ==
  ASSUME BaseInv, QuantitiesTypeOK', AllInTurn, RefundsAddUp,
         NEW d \in Documents, ReviewQuantity(d, "approve"),
         documents[d].entity = "purchase-return"
  PROVE  (AllInTurn /\ RefundsAddUp)'
<1> "approve" \in Rules!ApprovalAction
  BY DEF Rules!ApprovalAction
<1>1. /\ documents' = documents /\ quantity' = quantity
      /\ \A x \in Documents : entry'[x].lines = entry[x].lines
      /\ \A x \in Documents \ {d} : entry'[x] = entry[x]
      /\ entry[d].status = "PENDING" /\ entry'[d].status = "APPROVED"
  BY ReviewChanges DEF BaseInv
<1>2. /\ Live(d) /\ ~ Approved(d) /\ Approved(d)'
      /\ IsReturn(d)' /\ ~ IsReturn(d)
      /\ \A x \in Documents \ {d} : IsReturn(x)' <=> IsReturn(x)
  BY <1>1 DEF Live, Approved, IsReturn
<1>3. /\ earlier' = [earlier EXCEPT ![d] = SameSource(d)]
      /\ refund' = [refund EXCEPT ![d] = Settlement(d)]
      /\ QuantitiesStand(d, "approve")
  BY DEF ReviewQuantity, Settle
<1>4. /\ Total(SameSource(d)) \in Nat /\ quantity[d] \in Nat
      /\ Total(SameSource(d)) + quantity[d] \in Quantity
      /\ Settlement(d) \in Nat
      /\ Settlement(d) = Amount(Total(SameSource(d)) + quantity[d])
                           - Amount(Total(SameSource(d)))
  BY <1>2, <1>3, SettlementFits DEF BaseInv
<1>5. /\ earlier'[d] = SameSource(d) /\ refund'[d] = Settlement(d)
      /\ \A x \in Documents \ {d} : earlier'[x] = earlier[x] /\ refund'[x] = refund[x]
  BY <1>3 DEF BaseInv, QuantitiesTypeOK
<1>6. PICK l \in Documents :
        /\ entry[d].lines = {l}
        /\ SameSource(d) = ApprovedIn(DrawingOn(l, "purchase-return")) \ {d}
  BY <1>2, SameSourceIs DEF BaseInv
<1>7. ASSUME NEW x \in ApprovedIn(OfKind("purchase-return"))'
      PROVE  InTurn(x)'
  <2>1. CASE x = d
    <3>1. SameSource(d)' = SameSource(d)
      BY <1>1, <1>2, SameSourceStays
    <3>2. Total(earlier[d])' = Total(SameSource(d)) /\ quantity'[d] = quantity[d]
      BY <1>1, <1>5 DEF Total
    <3>3. InTurn(d)'
      BY <1>4, <1>5, <3>1, <3>2 DEF InTurn
    <3> QED
      BY <2>1, <3>3
  <2>2. CASE x # d
    <3>1. x \in Documents /\ x \in ApprovedIn(OfKind("purchase-return"))
      BY <1>1, <1>2, <2>2, ApprovedReturns
    <3>2. InTurn(x) /\ earlier'[x] = earlier[x] /\ refund'[x] = refund[x]
      BY <1>5, <2>2, <3>1 DEF AllInTurn
    <3>3. /\ SameSource(x) \subseteq SameSource(x)'
          /\ SameSource(x)' \subseteq SameSource(x) \cup {d}
          /\ d \in SameSource(x)' => x \in SameSource(d)
      BY <1>1, <1>2, <2>2, <3>1, SameSourceOf, ApprovedReturns
    <3>4. Total(earlier[x])' = Total(earlier[x]) /\ quantity'[x] = quantity[x]
      BY <1>1, <3>2 DEF Total
    <3>5. \A y \in SameSource(x)' \ earlier'[x] : x \in earlier'[y]
      <4>1. TAKE y \in SameSource(x)' \ earlier'[x]
      <4>2. CASE y = d
        BY <1>5, <3>3, <4>1, <4>2
      <4>3. CASE y # d
        <5>1. y \in SameSource(x) \ earlier[x] /\ y \in Documents
          BY <3>2, <3>3, <4>1, <4>3 DEF SameSource, ApprovedIn, OfKind
        <5> QED
          BY <1>5, <3>2, <4>3, <5>1 DEF InTurn
      <4> QED
        BY <4>2, <4>3
    <3> QED
      BY <3>2, <3>3, <3>4, <3>5 DEF InTurn
  <2> QED
    BY <2>1, <2>2
<1>8. ASSUME NEW s \in Documents
      PROVE  SumFunctionOnSet(refund', ReturnsOf(s)') = Amount(Total(ReturnsOf(s))')
  <2>0. /\ ReturnsOf(s) \in SUBSET Documents /\ d \notin ReturnsOf(s)
        /\ quantity \in [Documents -> Nat]
        /\ refund \in [Documents -> Nat] /\ refund' \in [Documents -> Nat]
    BY <1>2, ReturnsOfIs, Costs DEF BaseInv, QuantitiesTypeOK
  <2>1. SumFunctionOnSet(refund, ReturnsOf(s)) = Amount(Total(ReturnsOf(s)))
    BY DEF RefundsAddUp, ReturnsOf
  <2>2. SumFunctionOnSet(refund', ReturnsOf(s)) = SumFunctionOnSet(refund, ReturnsOf(s))
    BY <1>5, <2>0, SumOfSame
  <2>3. CASE s # l
    <3>1. ReturnsOf(s)' = ReturnsOf(s)
      BY <1>1, <1>2, <1>6, <2>3, ReturnsOfStay
    <3> QED
      BY <1>1, <2>1, <2>2, <3>1 DEF Total
  <2>4. CASE s = l
    <3>1. ReturnsOf(l)' = ReturnsOf(l) \cup {d}
      BY <1>1, <1>2, <1>6, ReturnsOfIs
    <3>2. SameSource(d) = ReturnsOf(l)
      BY <1>6, <2>0, <2>4 DEF ReturnsOf
    <3>3. Total(ReturnsOf(l))' = Total(ReturnsOf(l)) + quantity[d]
      BY <1>1, <2>0, <2>4, <3>1, SumWith DEF Total
    <3>4. SumFunctionOnSet(refund', ReturnsOf(l) \cup {d})
            = SumFunctionOnSet(refund', ReturnsOf(l)) + refund'[d]
      BY <2>0, <2>4, SumWith
    <3>5. SumFunctionOnSet(refund, ReturnsOf(l)) \in Nat
      BY <2>0, <2>4, SumOfDocuments
    <3>6. Amount(Total(ReturnsOf(l)) + quantity[d]) \in Nat
      BY <1>4, <3>2, Costs
    <3>7. SumFunctionOnSet(refund', ReturnsOf(l)') = Amount(Total(ReturnsOf(l)) + quantity[d])
      <4> DEFINE a == SumFunctionOnSet(refund, ReturnsOf(l))
                 b == Amount(Total(ReturnsOf(l)) + quantity[d])
                 c == SumFunctionOnSet(refund', ReturnsOf(l)')
      <4>1. c = a + (b - a) /\ a \in Nat /\ b \in Nat
        BY <1>4, <1>5, <2>1, <2>2, <2>4, <3>1, <3>2, <3>4, <3>5, <3>6
      <4> HIDE DEF a, b, c
      <4>2. c = b
        BY <4>1
      <4> QED BY <4>2 DEF b, c
    <3> QED
      BY <2>4, <3>3, <3>7
  <2> QED
    BY <2>3, <2>4
<1> QED
  BY <1>7, <1>8 DEF AllInTurn, RefundsAddUp, ReturnsOf

(* The return that is reversed is the last: all others of its source are     *)
(* earlier, so its refund is what it added to theirs.                        *)
LEMMA ReversalTakesTheLast ==
  ASSUME BaseInv, AllInTurn, NEW d \in Documents, IsReturn(d), AllocationBlockers(d) = {}
  PROVE  /\ earlier[d] = SameSource(d)
         /\ Total(SameSource(d)) + quantity[d] \in Quantity
         /\ refund[d] = Amount(Total(SameSource(d)) + quantity[d]) - Amount(Total(SameSource(d)))
<1>1. d \in ApprovedIn(OfKind("purchase-return"))
  BY ApprovedReturns
<1>2. InTurn(d)
  BY <1>1 DEF AllInTurn
<1>3. \A x \in SameSource(d) : d \notin earlier[x]
  BY DEF AllocationBlockers
<1>4. ASSUME NEW x \in SameSource(d)
      PROVE  x \in earlier[d]
  <2>1. x \in ApprovedIn(OfKind("purchase-return")) /\ d \in SameSource(x)
    BY <1>1, SourceShared
  <2>2. d \in SameSource(x) \ earlier[x] /\ InTurn(x)
    BY <1>3, <2>1 DEF AllInTurn
  <2> QED
    BY <2>2 DEF InTurn
<1>5. earlier[d] = SameSource(d)
  BY <1>2, <1>4 DEF InTurn
<1> QED
  BY <1>2, <1>5 DEF InTurn

LEMMA ReversalSettles ==
  ASSUME BaseInv, QuantitiesTypeOK', AllInTurn, RefundsAddUp,
         NEW d \in Documents, ReviewQuantity(d, "unapprove"),
         documents[d].entity = "purchase-return"
  PROVE  (AllInTurn /\ RefundsAddUp)'
<1> "unapprove" \in Rules!ApprovalAction
  BY DEF Rules!ApprovalAction
<1>1. /\ documents' = documents /\ quantity' = quantity
      /\ \A x \in Documents : entry'[x].lines = entry[x].lines
      /\ \A x \in Documents \ {d} : entry'[x] = entry[x]
      /\ entry[d].status = "APPROVED" /\ entry'[d].status = "PENDING"
  BY ReviewChanges DEF BaseInv
<1>2. /\ Live(d) /\ IsReturn(d) /\ ~ IsReturn(d)'
      /\ \A x \in Documents \ {d} : IsReturn(x)' <=> IsReturn(x)
  BY <1>1 DEF Live, Approved, IsReturn
<1>3. /\ earlier' = [earlier EXCEPT ![d] = {}]
      /\ refund' = [refund EXCEPT ![d] = 0]
      /\ AllocationBlockers(d) = {}
  BY DEF ReviewQuantity, Settle, QuantitiesStand
<1>4. /\ earlier[d] = SameSource(d)
      /\ Total(SameSource(d)) + quantity[d] \in Quantity
      /\ refund[d] = Amount(Total(SameSource(d)) + quantity[d]) - Amount(Total(SameSource(d)))
  BY <1>2, <1>3, ReversalTakesTheLast
<1>5. \A x \in Documents \ {d} : earlier'[x] = earlier[x] /\ refund'[x] = refund[x]
  BY <1>3 DEF BaseInv, QuantitiesTypeOK
<1>6. PICK l \in Documents :
        /\ entry[d].lines = {l}
        /\ SameSource(d) = ReturnsOf(l) \ {d}
  BY <1>1, <1>2, SameSourceIs DEF BaseInv, ReturnsOf
<1>7. ASSUME NEW x \in ApprovedIn(OfKind("purchase-return"))'
      PROVE  InTurn(x)'
  <2>1. x \in Documents /\ x # d /\ x \in ApprovedIn(OfKind("purchase-return"))
    BY <1>2, <1>7, ApprovedReturns
  <2>2. InTurn(x) /\ earlier'[x] = earlier[x] /\ refund'[x] = refund[x]
    BY <1>5, <2>1 DEF AllInTurn
  <2>3. SameSource(x)' = SameSource(x) \ {d}
    <3>1. \A y \in Documents \ {x} :
            IsReturn(y)' /\ entry'[y].lines \cap entry'[x].lines # {}
              <=> y # d /\ IsReturn(y) /\ entry[y].lines \cap entry[x].lines # {}
      BY <1>1, <1>2, <2>1
    <3> QED
      BY <3>1, SameSourceOf
  <2>4. d \notin earlier[x]
    <3>1. CASE d \in SameSource(x)
      <4>1. x \in SameSource(d)
        BY <2>1, <3>1, SourceShared
      <4> QED
        BY <1>3, <4>1 DEF AllocationBlockers
    <3>2. CASE d \notin SameSource(x)
      BY <2>2, <3>2 DEF InTurn
    <3> QED
      BY <3>1, <3>2
  <2>5. Total(earlier[x])' = Total(earlier[x]) /\ quantity'[x] = quantity[x]
    BY <1>1, <2>2 DEF Total
  <2>6. \A y \in SameSource(x)' \ earlier'[x] : x \in earlier'[y]
    <3>1. TAKE y \in SameSource(x)' \ earlier'[x]
    <3>2. y \in SameSource(x) \ earlier[x] /\ y \in Documents \ {d}
      BY <2>2, <2>3, <3>1 DEF SameSource, ApprovedIn, OfKind
    <3> QED
      BY <1>5, <2>2, <3>2 DEF InTurn
  <2> QED
    BY <2>2, <2>3, <2>4, <2>5, <2>6 DEF InTurn
<1>8. ASSUME NEW s \in Documents
      PROVE  SumFunctionOnSet(refund', ReturnsOf(s)') = Amount(Total(ReturnsOf(s))')
  <2>0. /\ ReturnsOf(s) \in SUBSET Documents
        /\ quantity \in [Documents -> Nat]
        /\ refund \in [Documents -> Nat] /\ refund' \in [Documents -> Nat]
    BY ReturnsOfIs, Costs DEF BaseInv, QuantitiesTypeOK
  <2>1. SumFunctionOnSet(refund, ReturnsOf(s)) = Amount(Total(ReturnsOf(s)))
    BY DEF RefundsAddUp, ReturnsOf
  <2>2. SumFunctionOnSet(refund', ReturnsOf(s) \ {d}) = SumFunctionOnSet(refund, ReturnsOf(s) \ {d})
    BY <1>5, <2>0, SumOfSame
  <2>3. CASE s # l
    <3>1. ReturnsOf(s)' = ReturnsOf(s) /\ d \notin ReturnsOf(s)
      BY <1>1, <1>2, <1>6, <2>3, ReturnsOfStay, ReturnsOfIs
    <3>2. ReturnsOf(s) \ {d} = ReturnsOf(s)
      BY <3>1
    <3> QED
      BY <1>1, <2>1, <2>2, <3>1, <3>2 DEF Total
  <2>4. CASE s = l
    <3>1. ReturnsOf(l)' = ReturnsOf(l) \ {d} /\ d \in ReturnsOf(l)
      BY <1>1, <1>2, <1>6, ReturnsOfIs
    <3>2. Total(ReturnsOf(l) \ {d}) = Total(ReturnsOf(l)) - quantity[d]
      BY <2>0, <2>4, <3>1, SumLess DEF Total
    <3>3. SumFunctionOnSet(refund, ReturnsOf(l) \ {d})
            = SumFunctionOnSet(refund, ReturnsOf(l)) - refund[d]
      BY <2>0, <2>4, <3>1, SumLess
    <3>4. /\ Total(ReturnsOf(l)) \in Nat /\ quantity[d] \in Nat
          /\ Total(ReturnsOf(l) \ {d}) \in Nat
          /\ SumFunctionOnSet(refund, ReturnsOf(l)) \in Nat
      BY <2>0, <2>4, SumOfDocuments DEF Total
    <3>5. Total(SameSource(d)) + quantity[d] = Total(ReturnsOf(l))
      BY <1>6, <3>2, <3>4
    <3>6. Amount(Total(ReturnsOf(l) \ {d})) \in Nat
      <4>1. Total(ReturnsOf(l)) \in Quantity
        BY <1>4, <3>5
      <4>2. Total(ReturnsOf(l) \ {d}) <= Total(ReturnsOf(l))
        BY <3>2, <3>4
      <4>3. Total(ReturnsOf(l) \ {d}) \in Quantity
        BY <3>4, <4>1, <4>2, Costs
      <4> QED
        BY <4>3, Costs
    <3>7. SumFunctionOnSet(refund', ReturnsOf(l) \ {d}) = Amount(Total(ReturnsOf(l) \ {d}))
      <4> DEFINE a == SumFunctionOnSet(refund, ReturnsOf(l))
                 b == Amount(Total(ReturnsOf(l) \ {d}))
                 c == SumFunctionOnSet(refund', ReturnsOf(l) \ {d})
      <4>1. refund[d] = Amount(Total(ReturnsOf(l))) - Amount(Total(ReturnsOf(l) \ {d}))
        BY <1>4, <1>6, <3>5
      <4>2. c = a - (a - b) /\ a \in Nat /\ b \in Nat
        BY <2>1, <2>2, <2>4, <3>3, <3>4, <3>6, <4>1
      <4> HIDE DEF a, b, c
      <4>3. c = b
        BY <4>2
      <4> QED BY <4>3 DEF b, c
    <3>8. Total(ReturnsOf(l))' = Total(ReturnsOf(l) \ {d})
      BY <1>1, <3>1 DEF Total
    <3> QED
      BY <2>4, <3>1, <3>7, <3>8
  <2> QED
    BY <2>3, <2>4
<1> QED
  BY <1>7, <1>8 DEF AllInTurn, RefundsAddUp, ReturnsOf

RefundInv == BaseInv /\ AllInTurn /\ RefundsAddUp

LEMMA RefundsHold == QuantitiesInit => RefundInv
<1> SUFFICES ASSUME QuantitiesInit PROVE RefundInv
  OBVIOUS
<1>1. \A d \in Documents : ~ IsReturn(d)
  BY DEF QuantitiesInit, VouchersInit, NoEntry, IsReturn, Approved
<1>2. AllInTurn
  BY <1>1, ApprovedReturns DEF AllInTurn
<1>3. ASSUME NEW l \in Documents
      PROVE  SumFunctionOnSet(refund, ReturnsOf(l)) = Amount(Total(ReturnsOf(l)))
  <2>1. ReturnsOf(l) = {}
    BY <1>1, ReturnsOfIs
  <2>2. SumFunctionOnSet(refund, {}) = 0 /\ Total({}) = 0
    BY SumEmpty DEF Total
  <2> QED
    BY <2>1, <2>2, QuantitiesAssumption
<1> QED
  BY <1>2, <1>3, BaseHolds DEF RefundInv, RefundsAddUp, ReturnsOf

LEMMA RefundsStay ==
  ASSUME RefundInv, [QuantitiesNext]_quantitiesVars
  PROVE  RefundInv'
<1>0. BaseInv' /\ QuantitiesTypeOK /\ QuantitiesTypeOK' /\ AllInTurn /\ RefundsAddUp
  <2>1. BaseInv'
    BY BaseStays DEF RefundInv
  <2> QED
    BY <2>1 DEF RefundInv, BaseInv
<1>1. CASE UNCHANGED quantitiesVars
  <2>1. /\ earlier' = earlier /\ refund' = refund
        /\ documents' = documents /\ entry' = entry /\ quantity' = quantity
    BY <1>1 DEF quantitiesVars, quantityVars, voucherVars
  <2>2. \A x \in Documents : IsReturn(x)' <=> IsReturn(x)
    BY <2>1 DEF IsReturn, Approved
  <2> QED
    BY <1>0, <2>1, <2>2, ReturnsAside DEF RefundInv
<1>2. ASSUME NEW d \in Documents, NEW e \in Entities, NEW p \in Parents(e),
             NEW ls \in Sources(e), NEW q \in Quantity, SubmitQuantity(d, e, p, ls, q)
      PROVE  RefundInv'
  <2>0. /\ ~ Approved(d)
        /\ entry'[d] = [status |-> "PENDING", revision |-> 1, parent |-> p, lines |-> ls]
        /\ \A x \in Documents \ {d} : /\ documents'[x] = documents[x]
                                      /\ entry'[x] = entry[x]
                                      /\ quantity'[x] = quantity[x]
    BY <1>0, <1>2, SubmitChanges
  <2>1. ~ Approved(d) /\ entry'[d].status = "PENDING"
    BY <2>0
  <2>2. \A x \in Documents : IsReturn(x)' <=> IsReturn(x)
    BY <2>0, <2>1 DEF IsReturn, Approved
  <2>3. \A x \in Documents : IsReturn(x) => x # d
    BY <2>1 DEF IsReturn
  <2>4. earlier' = earlier /\ refund' = refund
    BY <1>2 DEF SubmitQuantity
  <2> QED
    BY <1>0, <2>0, <2>2, <2>3, <2>4, ReturnsAside DEF RefundInv
<1>3. ASSUME NEW d \in Documents, DeleteQuantity(d)
      PROVE  RefundInv'
  <2>1. /\ ~ Approved(d) /\ entry'[d] = NoEntry
        /\ \A x \in Documents \ {d} : /\ documents'[x] = documents[x]
                                      /\ entry'[x] = entry[x]
                                      /\ quantity'[x] = quantity[x]
    BY <1>0, <1>3, DeleteChanges
  <2>2. \A x \in Documents : IsReturn(x)' <=> IsReturn(x)
    BY <2>1 DEF IsReturn, Approved, NoEntry
  <2>3. \A x \in Documents : IsReturn(x) => x # d
    BY <2>1 DEF IsReturn
  <2>4. earlier' = earlier /\ refund' = refund
    BY <1>3 DEF DeleteQuantity
  <2> QED
    BY <1>0, <2>1, <2>2, <2>3, <2>4, ReturnsAside DEF RefundInv
<1>4. ASSUME NEW d \in Documents, NEW action \in Rules!ApprovalAction, ReviewQuantity(d, action)
      PROVE  RefundInv'
  <2>1. CASE documents[d].entity = "purchase-return" /\ action = "approve"
    BY <1>0, <1>4, <2>1, ApprovalSettles DEF RefundInv
  <2>2. CASE documents[d].entity = "purchase-return" /\ action = "unapprove"
    BY <1>0, <1>4, <2>2, ReversalSettles DEF RefundInv
  <2>3. CASE documents[d].entity # "purchase-return" \/ action \notin {"approve", "unapprove"}
    <3>1. /\ documents' = documents /\ quantity' = quantity
          /\ \A x \in Documents : entry'[x].lines = entry[x].lines
          /\ \A x \in Documents \ {d} : entry'[x] = entry[x]
          /\ action \notin {"approve", "unapprove"} => ~ Approved(d) /\ ~ Approved(d)'
      BY <1>0, <1>4, ReviewChanges DEF Approved, Rules!ApprovalAction
    <3>2. \A x \in Documents : IsReturn(x)' <=> IsReturn(x)
      BY <2>3, <3>1 DEF IsReturn, Approved
    <3>3. earlier' = earlier /\ refund' = refund
      BY <1>4, <2>3 DEF ReviewQuantity, Settle
    <3> QED
      BY <1>0, <3>1, <3>2, <3>3, ReturnsAside DEF RefundInv
  <2> QED
    BY <2>1, <2>2, <2>3
<1> QED
  BY <1>1, <1>2, <1>3, <1>4 DEF QuantitiesNext

(* invoice.ts 605-635: what the postings of returns give back for a receipt  *)
(* adds up to the amount of all that was returned, for any number of         *)
(* returns, whatever the price rounds to.                                    *)
THEOREM RefundsAlwaysAddUp == QuantitiesSpec => []RefundsAddUp
<1>1. RefundInv => RefundsAddUp
  BY DEF RefundInv
<1> QED
  BY <1>1, RefundsHold, RefundsStay, PTL DEF QuantitiesSpec
-------------------------------------------------------------------------------
(* The approved documents below another: what a step does to them.          *)

Below(p, e) == ApprovedIn(ChildrenOf(p, e))

LEMMA BelowIs ==
  ASSUME NEW p, NEW e
  PROVE  /\ Below(p, e) = {x \in Documents : /\ Approved(x) /\ documents[x].entity = e
                                             /\ entry[x].parent = p}
         /\ Below(p, e)' = {x \in Documents : /\ Approved(x)' /\ documents'[x].entity = e
                                              /\ entry'[x].parent = p}
BY DEF Below, ApprovedIn, ChildrenOf, OfKind, Live, Approved

LEMMA BelowTotal ==
  ASSUME QuantitiesTypeOK, NEW p, NEW e
  PROVE  /\ Below(p, e) \in SUBSET Documents
         /\ quantity \in [Documents -> Nat]
         /\ Total(Below(p, e)) \in Nat
<1>1. Below(p, e) \in SUBSET Documents
  BY BelowIs
<1>2. quantity \in [Documents -> Nat]
  BY Costs DEF QuantitiesTypeOK
<1> QED
  BY <1>1, <1>2, SumOfDocuments DEF Total

LEMMA BelowStays ==
  ASSUME NEW p, NEW e,
         \A x \in Documents :
           Approved(x)' /\ documents'[x].entity = e /\ entry'[x].parent = p
             <=> Approved(x) /\ documents[x].entity = e /\ entry[x].parent = p
  PROVE  Below(p, e)' = Below(p, e)
<1> DEFINE P(x) == Approved(x) /\ documents[x].entity = e /\ entry[x].parent = p
<1>1. \A x \in Documents : P(x)' <=> P(x)
  OBVIOUS
<1>2. /\ Below(p, e) = {x \in Documents : P(x)}
      /\ Below(p, e)' = {x \in Documents : P(x)'}
  BY BelowIs
<1> QED
  <2> HIDE DEF P
  <2> QED BY <1>1, <1>2

(* Approved documents are as they were.                                     *)
ApprovedAside ==
  \A x \in Documents :
    /\ Approved(x)' <=> Approved(x)
    /\ Approved(x) => /\ documents'[x] = documents[x] /\ entry'[x].parent = entry[x].parent
                      /\ entry'[x].lines = entry[x].lines /\ quantity'[x] = quantity[x]

LEMMA NothingApproved ==
  ASSUME QuantitiesTypeOK, [QuantitiesNext]_quantitiesVars,
         \A d \in Documents, action \in {"approve", "unapprove"} : ~ ReviewQuantity(d, action)
  PROVE  ApprovedAside
<1>1. CASE UNCHANGED quantitiesVars
  BY <1>1 DEF quantitiesVars, quantityVars, voucherVars, ApprovedAside, Approved
<1>2. ASSUME NEW d \in Documents, NEW e \in Entities, NEW p \in Parents(e),
             NEW ls \in Sources(e), NEW q \in Quantity, SubmitQuantity(d, e, p, ls, q)
      PROVE  ApprovedAside
  <2>1. /\ ~ Approved(d)
        /\ entry'[d] = [status |-> "PENDING", revision |-> 1, parent |-> p, lines |-> ls]
        /\ \A x \in Documents \ {d} : /\ documents'[x] = documents[x]
                                      /\ entry'[x] = entry[x]
                                      /\ quantity'[x] = quantity[x]
    BY <1>2, SubmitChanges
  <2>2. ~ Approved(d)'
    BY <2>1 DEF Approved
  <2>3. \A x \in Documents \ {d} : Approved(x)' <=> Approved(x)
    BY <2>1 DEF Approved
  <2> QED
    BY <2>1, <2>2, <2>3 DEF ApprovedAside
<1>3. ASSUME NEW d \in Documents, DeleteQuantity(d)
      PROVE  ApprovedAside
  <2>1. /\ ~ Approved(d) /\ entry'[d] = NoEntry
        /\ \A x \in Documents \ {d} : /\ documents'[x] = documents[x]
                                      /\ entry'[x] = entry[x]
                                      /\ quantity'[x] = quantity[x]
    BY <1>3, DeleteChanges
  <2>2. ~ Approved(d)'
    BY <2>1 DEF Approved, NoEntry
  <2>3. \A x \in Documents \ {d} : Approved(x)' <=> Approved(x)
    BY <2>1 DEF Approved
  <2> QED
    BY <2>1, <2>2, <2>3 DEF ApprovedAside
<1>4. ASSUME NEW d \in Documents, NEW action \in Rules!ApprovalAction, ReviewQuantity(d, action)
      PROVE  ApprovedAside
  <2>1. action \in {"reject", "unreject"}
    BY <1>4 DEF Rules!ApprovalAction
  <2>2. /\ documents' = documents /\ quantity' = quantity
        /\ \A x \in Documents : /\ entry'[x].parent = entry[x].parent
                                /\ entry'[x].lines = entry[x].lines
        /\ \A x \in Documents \ {d} : entry'[x] = entry[x]
        /\ ~ Approved(d) /\ ~ Approved(d)'
    BY <1>4, <2>1, ReviewChanges DEF Approved
  <2>3. \A x \in Documents \ {d} : Approved(x)' <=> Approved(x)
    BY <2>2 DEF Approved
  <2> QED
    BY <2>2, <2>3 DEF ApprovedAside
<1> QED
  BY <1>1, <1>2, <1>3, <1>4 DEF QuantitiesNext

LEMMA BelowAside ==
  ASSUME QuantitiesTypeOK, ApprovedAside, NEW p, NEW e
  PROVE  Below(p, e)' = Below(p, e) /\ Total(Below(p, e))' = Total(Below(p, e))
<1>1. Below(p, e)' = Below(p, e)
  <2>1. \A x \in Documents :
          Approved(x)' /\ documents'[x].entity = e /\ entry'[x].parent = p
            <=> Approved(x) /\ documents[x].entity = e /\ entry[x].parent = p
    BY DEF ApprovedAside
  <2> QED
    BY <2>1, BelowStays
<1>2. Below(p, e) \in SUBSET Documents /\ \A x \in Below(p, e) : quantity'[x] = quantity[x]
  BY BelowIs DEF ApprovedAside
<1> QED
  BY <1>1, <1>2, SumOfSame DEF Total

LEMMA BelowApproved ==
  ASSUME QuantitiesTypeOK, NEW d \in Documents, ReviewQuantity(d, "approve"), NEW p, NEW e
  PROVE  /\ d \notin Below(p, e)
         /\ IF documents[d].entity = e /\ entry[d].parent = p
            THEN /\ Below(p, e)' = Below(p, e) \cup {d}
                 /\ Total(Below(p, e))' = Total(Below(p, e)) + quantity[d]
            ELSE Below(p, e)' = Below(p, e) /\ Total(Below(p, e))' = Total(Below(p, e))
<1>1. /\ documents' = documents /\ quantity' = quantity
      /\ \A x \in Documents : entry'[x].parent = entry[x].parent
      /\ \A x \in Documents \ {d} : entry'[x] = entry[x]
      /\ ~ Approved(d) /\ Approved(d)'
  BY ReviewChanges DEF Rules!ApprovalAction, Approved
<1>2. \A x \in Documents \ {d} : Approved(x)' <=> Approved(x)
  BY <1>1 DEF Approved
<1>3. d \notin Below(p, e)
  BY <1>1, BelowIs
<1>4. CASE documents[d].entity = e /\ entry[d].parent = p
  <2>1. Below(p, e)' = Below(p, e) \cup {d}
    BY <1>1, <1>2, <1>4, BelowIs
  <2>2. Total(Below(p, e) \cup {d}) = Total(Below(p, e)) + quantity[d]
    BY <1>3, BelowTotal, SumWith DEF Total
  <2> QED
    BY <1>1, <1>3, <1>4, <2>1, <2>2 DEF Total
<1>5. CASE ~ (documents[d].entity = e /\ entry[d].parent = p)
  <2>1. \A x \in Documents :
          Approved(x)' /\ documents'[x].entity = e /\ entry'[x].parent = p
            <=> Approved(x) /\ documents[x].entity = e /\ entry[x].parent = p
    BY <1>1, <1>2, <1>5
  <2>2. Below(p, e)' = Below(p, e)
    BY <2>1, BelowStays
  <2> QED
    BY <1>1, <1>3, <1>5, <2>2 DEF Total
<1> QED
  BY <1>4, <1>5

LEMMA BelowReversed ==
  ASSUME QuantitiesTypeOK, NEW d \in Documents, ReviewQuantity(d, "unapprove"), NEW p, NEW e
  PROVE  /\ Below(p, e)' = Below(p, e) \ {d}
         /\ Total(Below(p, e))' <= Total(Below(p, e))
         /\ documents[d].entity # e \/ entry[d].parent # p =>
              Below(p, e)' = Below(p, e) /\ Total(Below(p, e))' = Total(Below(p, e))
<1>1. /\ documents' = documents /\ quantity' = quantity
      /\ \A x \in Documents : entry'[x].parent = entry[x].parent
      /\ \A x \in Documents \ {d} : entry'[x] = entry[x]
      /\ Approved(d) /\ ~ Approved(d)'
  BY ReviewChanges DEF Rules!ApprovalAction, Approved
<1>2. \A x \in Documents \ {d} : Approved(x)' <=> Approved(x)
  BY <1>1 DEF Approved
<1>3. Below(p, e)' = Below(p, e) \ {d}
  BY <1>1, <1>2, BelowIs
<1>4. Total(Below(p, e) \ {d}) <= Total(Below(p, e))
  BY BelowTotal, SumOfPart DEF Total
<1>5. documents[d].entity # e \/ entry[d].parent # p => d \notin Below(p, e)
  BY BelowIs
<1> QED
  BY <1>1, <1>3, <1>4, <1>5 DEF Total

-------------------------------------------------------------------------------
(* Receipts.  Only the approval of an inbound adds to them, and it counts    *)
(* every inbound that is there; only the reversal of a return takes room.    *)

ReceiptsStep ==
  \A order \in Documents :
    /\ order \in ApprovedIn(OfKind("purchase-order"))'
    /\ ~ NetReceiptsFit(order)'
    => \/ ~ NetReceiptsFit(order)
       \/ \E d \in DOMAIN quantity : /\ documents[d].entity = "purchase-return"
                                     /\ Approved(d) /\ ~ Approved(d)'

LEMMA ReceiptsAre ==
  ASSUME NEW order
  PROVE  /\ NetReceiptsFit(order) <=>
              Total(Below(order, "purchase-inbound")) - Total(Below(order, "purchase-return"))
                <= quantity[order]
         /\ NetReceiptsFit(order)' <=>
              Total(Below(order, "purchase-inbound"))' - Total(Below(order, "purchase-return"))'
                <= quantity'[order]
BY DEF NetReceiptsFit, NetReceipts, Below

LEMMA ReceiptsFit ==
  ASSUME BaseInv, QuantitiesTypeOK', [QuantitiesNext]_quantitiesVars
  PROVE  ReceiptsStep
<1> SUFFICES ASSUME NEW order \in Documents,
                    order \in ApprovedIn(OfKind("purchase-order"))',
                    NetReceiptsFit(order),
                    \A d \in Documents : documents[d].entity = "purchase-return" =>
                      ~ Approved(d) \/ Approved(d)'
             PROVE  NetReceiptsFit(order)'
  BY DEF ReceiptsStep, BaseInv, QuantitiesTypeOK
<1> DEFINE in  == Total(Below(order, "purchase-inbound"))
           out == Total(Below(order, "purchase-return"))
<1>0. /\ QuantitiesTypeOK
      /\ in \in Nat /\ out \in Nat /\ in' \in Nat /\ out' \in Nat
      /\ quantity[order] \in Nat /\ quantity \in [Documents -> Nat]
      /\ in - out <= quantity[order]
  <2>1. in \in Nat /\ out \in Nat
    BY BelowTotal DEF BaseInv
  <2>2. in' \in Nat /\ out' \in Nat
    <3>1. quantity' \in [Documents -> Nat]
      BY Costs DEF QuantitiesTypeOK
    <3>2. /\ Below(order, "purchase-inbound")' \in SUBSET Documents
          /\ Below(order, "purchase-return")' \in SUBSET Documents
      BY BelowIs
    <3> QED
      BY <3>1, <3>2, SumOfDocuments DEF Total
  <2>3. quantity \in [Documents -> Nat]
    BY Costs DEF BaseInv, QuantitiesTypeOK
  <2> QED
    BY <2>1, <2>2, <2>3, ReceiptsAre DEF BaseInv
<1>1. CASE \A d \in Documents, action \in {"approve", "unapprove"} : ~ ReviewQuantity(d, action)
  <2>1. ApprovedAside
    BY <1>0, <1>1, NothingApproved
  <2>2. in' = in /\ out' = out
    BY <1>0, <2>1, BelowAside
  <2>3. Approved(order)'
    BY DEF ApprovedIn
  <2>4. quantity'[order] = quantity[order]
    BY <2>1, <2>3 DEF ApprovedAside
  <2> QED
    BY <1>0, <2>2, <2>4, ReceiptsAre
<1>2. ASSUME NEW d \in Documents, ReviewQuantity(d, "approve")
      PROVE  NetReceiptsFit(order)'
  <2>1. quantity' = quantity
    BY <1>2 DEF ReviewQuantity
  <2>2. CASE documents[d].entity = "purchase-inbound" /\ entry[d].parent = order
    <3> DEFINE others == Total(ChildrenOf(order, "purchase-inbound") \ {d})
    <3>1. quantity[d] + others <= quantity[order] + out
      BY <1>2, <2>2 DEF ReviewQuantity, QuantitiesStand, PurchaseReceipt, Below
    <3>2. in' = in + quantity[d] /\ out' = out /\ d \notin Below(order, "purchase-inbound")
      BY <1>0, <1>2, <2>2, BelowApproved
    <3>3. in <= others /\ others \in Nat
      <4>1. /\ ChildrenOf(order, "purchase-inbound") \ {d} \in SUBSET Documents
            /\ Below(order, "purchase-inbound") \in
                 SUBSET (ChildrenOf(order, "purchase-inbound") \ {d})
        BY <3>2 DEF Below, ApprovedIn, ChildrenOf, OfKind
      <4> QED
        BY <1>0, <4>1, SumOfPart, SumOfDocuments DEF Total
    <3>4. quantity[d] \in Nat
      BY <1>0
    <3>5. in' - out' <= quantity[order]
      <4> HIDE DEF in, out, others
      <4> QED BY <1>0, <3>1, <3>2, <3>3, <3>4
    <3> QED
      BY <2>1, <3>5, ReceiptsAre
  <2>3. CASE ~ (documents[d].entity = "purchase-inbound" /\ entry[d].parent = order)
    <3>1. in' = in
      BY <1>0, <1>2, <2>3, BelowApproved
    <3>2. out' = out \/ out' = out + quantity[d]
      BY <1>0, <1>2, BelowApproved
    <3>3. quantity[d] \in Nat
      BY <1>0
    <3>4. in' - out' <= quantity[order]
      <4> HIDE DEF in, out
      <4> QED BY <1>0, <3>1, <3>2, <3>3
    <3> QED
      BY <2>1, <3>4, ReceiptsAre
  <2> QED
    BY <2>2, <2>3
<1>3. ASSUME NEW d \in Documents, ReviewQuantity(d, "unapprove")
      PROVE  NetReceiptsFit(order)'
  <2>1. quantity' = quantity
    BY <1>3 DEF ReviewQuantity
  <2>2. documents[d].entity # "purchase-return"
    <3>1. Approved(d) /\ ~ Approved(d)'
      BY <1>0, <1>3, ReviewChanges DEF Rules!ApprovalAction, Approved
    <3> QED
      BY <3>1
  <2>3. in' <= in /\ out' = out
    BY <1>0, <1>3, <2>2, BelowReversed
  <2>4. in' - out' <= quantity[order]
    <3> HIDE DEF in, out
    <3> QED BY <1>0, <2>3
  <2> QED
    BY <2>1, <2>4, ReceiptsAre
<1> QED
  BY <1>1, <1>2, <1>3

(* prior-fact.ts 301-392: no step takes the approved receipts of an order,   *)
(* less what was sent back, beyond what was ordered, but the reversal of a   *)
(* return after others have been received for it.                            *)
THEOREM ReceiptsStayWithinOrder == QuantitiesSpec => ReceiptsWithinOrder
<1>1. BaseInv /\ [QuantitiesNext]_quantitiesVars => BaseInv'
  BY BaseStays
<1>2. BaseInv /\ BaseInv' /\ [QuantitiesNext]_quantitiesVars => ReceiptsStep
  BY ReceiptsFit DEF BaseInv
<1>3. QuantitiesSpec => [][ReceiptsStep]_quantitiesVars
  BY <1>1, <1>2, BaseHolds, PTL DEF QuantitiesSpec
<1> QED
  BY <1>3, PTL DEF ReceiptsStep, ReceiptsWithinOrder
-------------------------------------------------------------------------------
(* Sale orders.  An approved signoff stands under the one delivery of an     *)
(* outbound, so an outbound has one at most, and what it signs for is not    *)
(* more than was sent out.                                                   *)

Fulfilment == {"sale-outbound", "sale-delivery", "sale-signoff"}

Fulfils ==
  \A d \in Documents : Approved(d) =>
    /\ documents[d].entity \in {"sale-outbound", "sale-signoff"} =>
         quantity[d] <= quantity[entry[d].parent]
    /\ documents[d].entity = "sale-delivery" => quantity[d] = quantity[entry[d].parent]

LEMMA RestsOnParent ==
  ASSUME BaseInv, NEW d \in Documents, Live(d), documents[d].entity \in Fulfilment,
         SourcesStand(documents[d].entity, entry[d].parent, entry[d].lines, "approve")
  PROVE  /\ entry[d].parent \in Documents /\ entry[d].parent # NoDocument
         /\ Approved(entry[d].parent) /\ Live(entry[d].parent)
         /\ documents[entry[d].parent].entity = ParentEntity(documents[d].entity)
<1>2. entry[d].parent \in Documents /\ Approved(entry[d].parent)
  BY DEF SourcesStand, ParentCheckedAt, Fulfilment
<1>3. entry[d].parent # NoDocument
  BY <1>2, VouchersAssumption
<1>4. documents[entry[d].parent].entity = ParentEntity(documents[d].entity)
  BY <1>3 DEF BaseInv, AllPlaced, Placed
<1> QED
  BY <1>2, <1>3, <1>4 DEF Approved, Live

LEMMA ApprovedRests ==
  ASSUME BaseInv, NEW d \in Documents, Approved(d), documents[d].entity \in Fulfilment
  PROVE  /\ entry[d].parent \in Documents /\ entry[d].parent # NoDocument
         /\ Approved(entry[d].parent) /\ Live(entry[d].parent)
         /\ documents[entry[d].parent].entity = ParentEntity(documents[d].entity)
<1>1. SourcesStand(documents[d].entity, entry[d].parent, entry[d].lines, "approve")
  BY DEF BaseInv, RestInv, ApprovedRestOnApproved
<1>2. Live(d)
  BY DEF Live, Approved
<1> QED
  BY <1>1, <1>2, RestsOnParent

(* The outbound that a signoff belongs to, by way of its delivery.          *)
SignedOf(s) == entry[entry[s].parent].parent

SignoffsBelow ==
  \A o : Signoffs(o) = {s \in Documents : /\ Approved(s) /\ documents[s].entity = "sale-signoff"
                                          /\ SignedOf(s) = o}

LEMMA SignoffsAre == BaseInv => SignoffsBelow
<1> SUFFICES ASSUME BaseInv, NEW o
             PROVE  Signoffs(o) = {s \in Documents : /\ Approved(s)
                                                     /\ documents[s].entity = "sale-signoff"
                                                     /\ SignedOf(s) = o}
  BY DEF SignoffsBelow
<1>1. Signoffs(o) = UNION {Below(v, "sale-signoff") : v \in Below(o, "sale-delivery")}
  BY DEF Signoffs, Below
<1>2. ASSUME NEW s \in Documents, Approved(s), documents[s].entity = "sale-signoff",
             SignedOf(s) = o
      PROVE  \E v \in Below(o, "sale-delivery") : s \in Below(v, "sale-signoff")
  <2>1. /\ entry[s].parent \in Documents /\ Approved(entry[s].parent)
        /\ documents[entry[s].parent].entity = ParentEntity("sale-signoff")
    BY <1>2, ApprovedRests DEF Fulfilment
  <2>2. entry[s].parent \in Below(o, "sale-delivery") /\ s \in Below(entry[s].parent, "sale-signoff")
    BY <1>2, <2>1, BelowIs DEF ParentEntity, SignedOf
  <2> QED
    BY <2>2
<1>3. ASSUME NEW v \in Below(o, "sale-delivery"), NEW s \in Below(v, "sale-signoff")
      PROVE  /\ s \in Documents /\ Approved(s) /\ documents[s].entity = "sale-signoff"
             /\ SignedOf(s) = o
  BY <1>3, BelowIs DEF SignedOf
<1> QED
  BY <1>1, <1>2, <1>3

LEMMA SignoffsAreNext == BaseInv' => SignoffsBelow'
  BY SignoffsAre, PTL

LEMMA OneSignoff ==
  ASSUME BaseInv, NEW s \in Documents, NEW t \in Documents,
         NEW v \in Documents, NEW w \in Documents,
         Live(s), Live(t), documents[s].entity = "sale-signoff", documents[t].entity = "sale-signoff",
         entry[s].parent = v, entry[t].parent = w,
         Live(v), Live(w), documents[v].entity = "sale-delivery",
         documents[w].entity = "sale-delivery", entry[v].parent = entry[w].parent
  PROVE  s = t
<1>1. v = w
  BY DEF BaseInv, OneSoleChild, Sole
<1> QED
  BY <1>1 DEF BaseInv, OneSoleChild, Sole

LEMMA SignoffsOfOne ==
  ASSUME BaseInv, NEW o, NEW s \in Signoffs(o)
  PROVE  Signoffs(o) = {s}
<1>1. ASSUME NEW t \in Signoffs(o), NEW u \in Signoffs(o)
      PROVE  t = u
  <2>1. /\ t \in Documents /\ Approved(t) /\ documents[t].entity = "sale-signoff"
        /\ u \in Documents /\ Approved(u) /\ documents[u].entity = "sale-signoff"
        /\ SignedOf(t) = SignedOf(u)
    BY SignoffsAre DEF SignoffsBelow
  <2>2. PICK v \in Documents : /\ entry[t].parent = v /\ Live(v)
                               /\ documents[v].entity = "sale-delivery"
    BY <2>1, ApprovedRests DEF Fulfilment, ParentEntity
  <2>3. PICK w \in Documents : /\ entry[u].parent = w /\ Live(w)
                               /\ documents[w].entity = "sale-delivery"
    BY <2>1, ApprovedRests DEF Fulfilment, ParentEntity
  <2> QED
    BY <2>1, <2>2, <2>3, OneSignoff DEF SignedOf, Live, Approved
<1> QED
  BY <1>1

OneEach == \A o : \A s \in Signoffs(o) : Signoffs(o) = {s}

LEMMA OneEachNow == BaseInv => OneEach
  BY SignoffsOfOne DEF OneEach

LEMMA OneEachNext == BaseInv' => OneEach'
  BY OneEachNow, PTL

(* What an outbound takes of its order.                                     *)
LEMMA TakenIs ==
  ASSUME QuantitiesTypeOK, NEW o \in Documents, NEW reversed
  PROVE  Taken(o, reversed) \in Nat
<1>1. Signoffs(o) \ reversed \in SUBSET Documents
  BY DEF Signoffs, ApprovedIn, ChildrenOf, OfKind
<1>2. quantity \in [Documents -> Nat]
  BY Costs DEF QuantitiesTypeOK
<1> QED
  BY <1>1, <1>2, SumOfDocuments DEF Taken, Total

TakenNow == [o \in Documents |-> Taken(o, {})]

LEMMA OccupancyIs ==
  ASSUME NEW order
  PROVE  /\ SaleOrderOccupancy(order, {}, {})
              = SumFunctionOnSet(TakenNow, Below(order, "sale-outbound"))
         /\ SaleOrderOccupancy(order, {}, {})'
              = SumFunctionOnSet(TakenNow', Below(order, "sale-outbound")')
<1>1. Below(order, "sale-outbound") \ {} = Below(order, "sale-outbound")
  OBVIOUS
<1>2. (Below(order, "sale-outbound") \ {})' = Below(order, "sale-outbound")'
  OBVIOUS
<1> QED
  BY <1>1, <1>2 DEF SaleOrderOccupancy, Below, TakenNow

TakenOK == TakenNow \in [Documents -> Nat]

LEMMA TakenTyped == QuantitiesTypeOK => TakenOK
  BY TakenIs DEF TakenNow, TakenOK

LEMMA TakenTypedNext == QuantitiesTypeOK' => TakenOK'
  BY TakenTyped, PTL

(* An order of which nothing takes more than before.                        *)
LEMMA OccupancyKept ==
  ASSUME QuantitiesTypeOK, QuantitiesTypeOK', NEW order,
         Below(order, "sale-outbound")' \subseteq Below(order, "sale-outbound"),
         \A o \in Below(order, "sale-outbound")' : TakenNow'[o] <= TakenNow[o]
  PROVE  SaleOrderOccupancy(order, {}, {})' <= SaleOrderOccupancy(order, {}, {})
<1> DEFINE S == Below(order, "sale-outbound")
<1>1. TakenNow \in [Documents -> Nat] /\ TakenNow' \in [Documents -> Nat]
  BY TakenTyped, TakenTypedNext DEF TakenOK
<1>2. S \in SUBSET Documents /\ S' \in SUBSET S /\ S' \in SUBSET Documents
  BY BelowIs
<1>3. /\ SumFunctionOnSet(TakenNow', S') \in Nat /\ SumFunctionOnSet(TakenNow, S') \in Nat
      /\ SumFunctionOnSet(TakenNow, S) \in Nat /\ IsFiniteSet(S')
  BY <1>1, <1>2, SumOfDocuments
<1>4. SumFunctionOnSet(TakenNow', S') <= SumFunctionOnSet(TakenNow, S')
  <2>1. \A o \in S' : TakenNow'[o] \in Int /\ TakenNow[o] \in Int /\ TakenNow'[o] <= TakenNow[o]
    BY <1>1, <1>2
  <2> QED
    BY <1>3, <2>1, SumBounded
<1>5. SumFunctionOnSet(TakenNow, S') <= SumFunctionOnSet(TakenNow, S)
  BY <1>1, <1>2, SumOfPart
<1> QED
  BY <1>3, <1>4, <1>5, OccupancyIs

SoldInv == BaseInv /\ Fulfils /\ OrdersNotOversold

(* The stock that an approved document of the chain stands for.             *)
LEMMA FulfilsKept ==
  ASSUME BaseInv, BaseInv', Fulfils, [QuantitiesNext]_quantitiesVars
  PROVE  Fulfils'
<1>0. QuantitiesTypeOK /\ quantity \in [Documents -> Nat]
  BY Costs DEF BaseInv, QuantitiesTypeOK
<1>1. CASE \A d \in Documents, action \in {"approve", "unapprove"} : ~ ReviewQuantity(d, action)
  <2>1. ApprovedAside
    BY <1>0, <1>1, NothingApproved
  <2>2. ASSUME NEW d \in Documents, Approved(d)', documents'[d].entity \in Fulfilment
        PROVE  /\ documents'[d] = documents[d] /\ entry'[d].parent = entry[d].parent
               /\ quantity'[d] = quantity[d] /\ Approved(d)
               /\ quantity'[entry[d].parent] = quantity[entry[d].parent]
    <3>1. /\ Approved(d) /\ documents'[d] = documents[d] /\ quantity'[d] = quantity[d]
          /\ entry'[d].parent = entry[d].parent
      BY <2>1, <2>2 DEF ApprovedAside
    <3>2. entry[d].parent \in Documents /\ Approved(entry[d].parent)
      BY <2>2, <3>1, ApprovedRests
    <3> QED
      BY <2>1, <3>1, <3>2 DEF ApprovedAside
  <2> QED
    BY <2>2 DEF Fulfils, Fulfilment
<1>2. ASSUME NEW d \in Documents, ReviewQuantity(d, "approve")
      PROVE  Fulfils'
  <2>1. /\ documents' = documents /\ quantity' = quantity
        /\ \A x \in Documents : entry'[x].parent = entry[x].parent
        /\ \A x \in Documents \ {d} : entry'[x] = entry[x]
        /\ Live(d)
    BY <1>0, <1>2, ReviewChanges DEF Rules!ApprovalAction, Live
  <2>2. \A x \in Documents \ {d} : Approved(x)' <=> Approved(x)
    BY <2>1 DEF Approved
  <2>3. /\ SaleFulfilment(d, documents[d].entity, entry[d].parent, quantity[d])
        /\ SourcesStand(documents[d].entity, entry[d].parent, entry[d].lines, "approve")
    BY <1>2 DEF ReviewQuantity, Review, QuantitiesStand
  <2>4. CASE documents[d].entity = "sale-outbound"
    <3> DEFINE p == entry[d].parent
               S == Below(p, "sale-outbound") \ {d}
               f == [o \in Documents |-> Taken(o, {})]
    <3>1. p \in Documents
      BY <2>1, <2>3, <2>4, RestsOnParent DEF Fulfilment
    <3>2. quantity[d] + SumFunctionOnSet(f, S) <= quantity[p]
      BY <2>3, <2>4 DEF SaleFulfilment, SaleOrderOccupancy, Below
    <3>3. SumFunctionOnSet(f, S) \in Nat
      <4>1. f \in [Documents -> Nat]
        BY <1>0, TakenIs
      <4>2. S \in SUBSET Documents
        BY BelowIs
      <4> QED
        BY <4>1, <4>2, SumOfDocuments
    <3>4. quantity[d] <= quantity[p]
      <4>1. quantity[d] \in Nat /\ quantity[p] \in Nat
        BY <1>0, <3>1
      <4> HIDE DEF p, S, f
      <4> QED BY <3>2, <3>3, <4>1
    <3> QED
      BY <2>1, <2>2, <2>4, <3>4 DEF Fulfils
  <2>5. CASE documents[d].entity # "sale-outbound"
    BY <2>1, <2>2, <2>3, <2>5 DEF Fulfils, SaleFulfilment
  <2> QED
    BY <2>4, <2>5
<1>3. ASSUME NEW d \in Documents, ReviewQuantity(d, "unapprove")
      PROVE  Fulfils'
  <2>1. /\ documents' = documents /\ quantity' = quantity
        /\ \A x \in Documents : entry'[x].parent = entry[x].parent
        /\ \A x \in Documents \ {d} : entry'[x] = entry[x]
        /\ Approved(d)
    BY <1>0, <1>3, ReviewChanges DEF Rules!ApprovalAction, Approved
  <2>2. \A x \in Documents : Approved(x)' => Approved(x)
    BY <2>1 DEF Approved
  <2> QED
    BY <2>1, <2>2 DEF Fulfils
<1> QED
  BY <1>1, <1>2, <1>3

(* Steps that approve or reverse nothing.                                   *)
LEMMA TakenAside ==
  ASSUME BaseInv, BaseInv', ApprovedAside, NEW o \in Documents, Approved(o)
  PROVE  TakenNow'[o] = TakenNow[o]
<1>1. Signoffs(o)' = Signoffs(o)
  <2> DEFINE P(s) == Approved(s) /\ documents[s].entity = "sale-signoff" /\ SignedOf(s) = o
  <2>1. ASSUME NEW s \in Documents
        PROVE  P(s)' <=> P(s)
    <3>1. CASE Approved(s) /\ documents[s].entity = "sale-signoff"
      <4>1. entry[s].parent \in Documents /\ Approved(entry[s].parent)
        BY <3>1, ApprovedRests DEF Fulfilment
      <4>2. SignedOf(s)' = SignedOf(s)
        BY <3>1, <4>1 DEF SignedOf, ApprovedAside
      <4> QED
        BY <3>1, <4>2 DEF ApprovedAside
    <3>2. CASE ~ (Approved(s) /\ documents[s].entity = "sale-signoff")
      BY <3>2 DEF ApprovedAside
    <3> QED
      BY <3>1, <3>2
  <2>2. /\ Signoffs(o) = {s \in Documents : P(s)}
        /\ Signoffs(o)' = {s \in Documents : P(s)'}
    BY SignoffsAre, SignoffsAreNext DEF SignoffsBelow
  <2> HIDE DEF P
  <2> QED BY <2>1, <2>2
<1>2. Signoffs(o) \ {} = Signoffs(o)
  OBVIOUS
<1>3. \A s \in Signoffs(o) : s \in Documents /\ quantity'[s] = quantity[s]
  BY SignoffsAre DEF SignoffsBelow, ApprovedAside
<1>4. Total(Signoffs(o))' = Total(Signoffs(o))
  BY <1>1, <1>3, SumOfSame DEF Total
<1>5. quantity'[o] = quantity[o]
  BY DEF ApprovedAside
<1>6. Taken(o, {})' = Taken(o, {})
  BY <1>1, <1>2, <1>4, <1>5 DEF Taken
<1> QED
  BY <1>6 DEF TakenNow

LEMMA SoldAside ==
  ASSUME SoldInv, BaseInv', ApprovedAside
  PROVE  OrdersNotOversold'
<1> SUFFICES ASSUME NEW order \in ApprovedIn(OfKind("sale-order"))'
             PROVE  SaleOrderOccupancy(order, {}, {})' <= quantity'[order]
  BY DEF OrdersNotOversold
<1>0. QuantitiesTypeOK /\ QuantitiesTypeOK' /\ BaseInv
  BY DEF SoldInv, BaseInv
<1>1. /\ order \in Documents /\ Approved(order) /\ documents[order].entity = "sale-order"
      /\ quantity'[order] = quantity[order]
  BY DEF ApprovedIn, OfKind, ApprovedAside
<1>2. SaleOrderOccupancy(order, {}, {}) <= quantity[order]
  BY <1>1 DEF SoldInv, OrdersNotOversold, ApprovedIn, OfKind, Live, Approved
<1>3. Below(order, "sale-outbound")' = Below(order, "sale-outbound")
  BY <1>0, BelowAside
<1>4. \A o \in Below(order, "sale-outbound") : TakenNow'[o] = TakenNow[o]
  BY <1>0, BelowIs, TakenAside
<1>5. SumFunctionOnSet(TakenNow', Below(order, "sale-outbound"))
        = SumFunctionOnSet(TakenNow, Below(order, "sale-outbound"))
  <2>1. Below(order, "sale-outbound") \in SUBSET Documents
    BY BelowIs
  <2> QED
    BY <1>4, <2>1, SumOfSame
<1>6. SaleOrderOccupancy(order, {}, {})' = SaleOrderOccupancy(order, {}, {})
  BY <1>3, <1>5, OccupancyIs
<1> QED
  BY <1>1, <1>2, <1>6

(* What an approval or a reversal does to the signoffs of an outbound.      *)
LEMMA SignoffsAtReview ==
  ASSUME BaseInv, BaseInv', NEW d \in Documents, NEW action \in {"approve", "unapprove"},
         ReviewQuantity(d, action), NEW o
  PROVE  /\ documents' = documents /\ quantity' = quantity
         /\ documents[d].entity # "sale-signoff" => Signoffs(o)' = Signoffs(o)
         /\ documents[d].entity = "sale-signoff" => SignedOf(d)' = SignedOf(d)
         /\ documents[d].entity = "sale-signoff" /\ action = "approve" =>
              /\ d \notin Signoffs(o)
              /\ Signoffs(o)' = IF SignedOf(d) = o THEN Signoffs(o) \cup {d} ELSE Signoffs(o)
         /\ documents[d].entity = "sale-signoff" /\ action = "unapprove" =>
              /\ d \in Signoffs(SignedOf(d))
              /\ Signoffs(o)' = Signoffs(o) \ {d}
<1> DEFINE P(s) == Approved(s) /\ documents[s].entity = "sale-signoff" /\ SignedOf(s) = o
<1>0. /\ QuantitiesTypeOK /\ action \in Rules!ApprovalAction
      /\ Review(d, action)
  BY DEF BaseInv, Rules!ApprovalAction, ReviewQuantity
<1>1. /\ documents' = documents /\ quantity' = quantity
      /\ \A x \in Documents : entry'[x].parent = entry[x].parent
      /\ \A x \in Documents \ {d} : entry'[x] = entry[x]
      /\ action = "approve" => Approved(d)' /\ ~ Approved(d) /\ Live(d)
      /\ action = "unapprove" => Approved(d) /\ ~ Approved(d)'
  BY <1>0, ReviewChanges DEF Approved, Live
<1>2. \A x \in Documents \ {d} : Approved(x)' <=> Approved(x)
  BY <1>1 DEF Approved
<1>3. ASSUME documents[d].entity = "sale-signoff"
      PROVE  entry[d].parent \in Documents
  <2>1. CASE action = "approve"
    BY <1>0, <1>1, <1>3, <2>1, RestsOnParent DEF Review, Fulfilment
  <2>2. CASE action = "unapprove"
    BY <1>1, <1>3, <2>2, ApprovedRests DEF Fulfilment
  <2> QED
    BY <2>1, <2>2
<1>4. ASSUME NEW s \in Documents, Approved(s), documents[s].entity = "sale-signoff"
      PROVE  entry[s].parent \in Documents
  BY <1>4, ApprovedRests DEF Fulfilment
<1>5. ASSUME NEW s \in Documents, entry[s].parent \in Documents
      PROVE  SignedOf(s)' = SignedOf(s)
  BY <1>1, <1>5 DEF SignedOf
<1>6. ASSUME NEW s \in Documents \ {d}
      PROVE  P(s)' <=> P(s)
  <2>1. CASE Approved(s) /\ documents[s].entity = "sale-signoff"
    <3>1. SignedOf(s)' = SignedOf(s)
      BY <1>4, <1>5, <2>1
    <3>2. Approved(s)'
      BY <1>2, <2>1
    <3> QED
      BY <1>1, <2>1, <3>1, <3>2
  <2>2. CASE ~ (Approved(s) /\ documents[s].entity = "sale-signoff")
    <3>1. ~ (Approved(s)' /\ documents'[s].entity = "sale-signoff")
      BY <1>1, <1>2, <2>2
    <3> QED
      BY <2>2, <3>1
  <2> QED
    BY <2>1, <2>2
<1>7. documents[d].entity = "sale-signoff" => SignedOf(d)' = SignedOf(d)
  BY <1>3, <1>5
<1>8. /\ documents[d].entity # "sale-signoff" => ~ P(d) /\ ~ P(d)'
      /\ documents[d].entity = "sale-signoff" /\ action = "approve" =>
           ~ P(d) /\ (P(d)' <=> SignedOf(d) = o)
      /\ documents[d].entity = "sale-signoff" /\ action = "unapprove" =>
           ~ P(d)' /\ (P(d) <=> SignedOf(d) = o)
  BY <1>1, <1>7
<1>9. /\ Signoffs(o) = {s \in Documents : P(s)}
      /\ Signoffs(o)' = {s \in Documents : P(s)'}
  BY SignoffsAre, SignoffsAreNext DEF SignoffsBelow
<1>10. documents[d].entity = "sale-signoff" /\ action = "unapprove" => d \in Signoffs(SignedOf(d))
  BY <1>1, SignoffsAre DEF SignoffsBelow
<1>11. documents[d].entity # "sale-signoff" => Signoffs(o)' = Signoffs(o)
  <2> HIDE DEF P
  <2> QED BY <1>6, <1>8, <1>9
<1>12. documents[d].entity = "sale-signoff" /\ action = "approve" =>
         /\ d \notin Signoffs(o)
         /\ Signoffs(o)' = IF SignedOf(d) = o THEN Signoffs(o) \cup {d} ELSE Signoffs(o)
  <2> HIDE DEF P
  <2> QED BY <1>6, <1>8, <1>9
<1>13. documents[d].entity = "sale-signoff" /\ action = "unapprove" =>
         Signoffs(o)' = Signoffs(o) \ {d}
  <2> HIDE DEF P
  <2> QED BY <1>6, <1>8, <1>9
<1> QED
  BY <1>1, <1>7, <1>10, <1>11, <1>12, <1>13

LEMMA TakenUnchanged ==
  ASSUME quantity' = quantity, NEW o \in Documents, Signoffs(o)' = Signoffs(o)
  PROVE  TakenNow'[o] = TakenNow[o]
<1>1. Taken(o, {})' = Taken(o, {})
  BY DEF Taken, Total
<1> QED
  BY <1>1 DEF TakenNow

(* An approval.  An outbound looks at its order; a signoff takes no more     *)
(* than what was sent out; nothing else counts.                              *)
LEMMA ApprovalSells ==
  ASSUME SoldInv, BaseInv', Fulfils', NEW d \in Documents, ReviewQuantity(d, "approve"),
         NEW order \in ApprovedIn(OfKind("sale-order"))'
  PROVE  SaleOrderOccupancy(order, {}, {})' <= quantity'[order]
<1>0. /\ QuantitiesTypeOK /\ QuantitiesTypeOK' /\ BaseInv /\ Fulfils
      /\ quantity \in [Documents -> Nat]
  BY Costs DEF SoldInv, BaseInv, QuantitiesTypeOK
<1> DEFINE k == documents[d].entity
           out == Below(order, "sale-outbound")
<1>1. /\ documents' = documents /\ quantity' = quantity
      /\ \A x \in Documents \ {d} : entry'[x] = entry[x]
      /\ ~ Approved(d) /\ Live(d)
  BY <1>0, ReviewChanges DEF Rules!ApprovalAction, Approved, Live
<1>2. /\ SaleFulfilment(d, k, entry[d].parent, quantity[d])
      /\ SourcesStand(k, entry[d].parent, entry[d].lines, "approve")
  BY DEF ReviewQuantity, Review, QuantitiesStand
<1>3. /\ order \in Documents /\ documents[order].entity = "sale-order" /\ Approved(order)'
  BY <1>1 DEF ApprovedIn, OfKind
<1>4. out \in SUBSET Documents /\ quantity[order] \in Nat
  BY <1>0, <1>3, BelowIs
<1>5. CASE order = d
  <2>1. out = {}
    <3>1. ASSUME NEW o \in out PROVE FALSE
      <4>1. /\ o \in Documents /\ Approved(o) /\ documents[o].entity = "sale-outbound"
            /\ entry[o].parent = d
        BY <1>5, <3>1, BelowIs
      <4>2. Approved(d)
        BY <1>0, <4>1, ApprovedRests DEF Fulfilment
      <4> QED
        BY <1>1, <4>2
    <3> QED
      BY <3>1
  <2>2. out' = {}
    BY <1>0, <1>3, <1>5, <2>1, BelowApproved
  <2>3. SaleOrderOccupancy(order, {}, {})' = 0
    BY <2>2, OccupancyIs, SumEmpty
  <2> QED
    BY <1>1, <1>4, <2>3
<1>6. CASE order # d
  <2>1. Approved(order)
    BY <1>1, <1>3, <1>6 DEF Approved
  <2>2. SaleOrderOccupancy(order, {}, {}) <= quantity[order]
    BY <1>3, <2>1 DEF SoldInv, OrdersNotOversold, ApprovedIn, OfKind, Live, Approved
  <2>3. /\ SaleOrderOccupancy(order, {}, {}) \in Nat
        /\ SaleOrderOccupancy(order, {}, {})' \in Nat
    <3>1. TakenNow \in [Documents -> Nat] /\ TakenNow' \in [Documents -> Nat]
      BY <1>0, TakenTyped, TakenTypedNext DEF TakenOK
    <3>2. out' \in SUBSET Documents
      BY BelowIs
    <3> QED
      BY <1>4, <3>1, <3>2, SumOfDocuments, OccupancyIs
  <2>4. CASE k = "sale-outbound" /\ entry[d].parent = order
    <3>1. \A o \in Documents : TakenNow'[o] = TakenNow[o]
      BY <1>0, <1>1, <2>4, SignoffsAtReview, TakenUnchanged
    <3>2. d \notin out /\ out' = out \cup {d}
      BY <1>0, <2>4, BelowApproved
    <3>3. TakenNow[d] = quantity[d]
      <4>1. Signoffs(d) = {}
        <5>1. ASSUME NEW s \in Signoffs(d) PROVE FALSE
          <6>1. /\ s \in Documents /\ Approved(s) /\ documents[s].entity = "sale-signoff"
                /\ SignedOf(s) = d
            BY <1>0, <5>1, SignoffsAre DEF SignoffsBelow
          <6>2. /\ entry[s].parent \in Documents /\ Approved(entry[s].parent)
                /\ documents[entry[s].parent].entity = "sale-delivery"
            BY <1>0, <6>1, ApprovedRests DEF Fulfilment, ParentEntity
          <6>3. Approved(entry[entry[s].parent].parent)
            BY <1>0, <6>2, ApprovedRests DEF Fulfilment
          <6> QED
            BY <1>1, <6>1, <6>3 DEF SignedOf
        <5> QED
          BY <5>1
      <4> QED
        BY <4>1 DEF TakenNow, Taken
    <3>4. TakenNow \in [Documents -> Nat]
      BY <1>0, TakenTyped DEF TakenOK
    <3>5. SaleOrderOccupancy(order, {}, {})'
            = SaleOrderOccupancy(order, {}, {}) + quantity[d]
      <4>1. SumFunctionOnSet(TakenNow', out \cup {d}) = SumFunctionOnSet(TakenNow, out \cup {d})
        BY <1>4, <3>1, SumOfSame
      <4>2. SumFunctionOnSet(TakenNow, out \cup {d}) = SumFunctionOnSet(TakenNow, out) + quantity[d]
        BY <1>4, <3>2, <3>3, <3>4, SumWith
      <4> QED
        BY <3>2, <4>1, <4>2, OccupancyIs
    <3>6. quantity[d] + SaleOrderOccupancy(order, {d}, {}) <= quantity[order]
      BY <1>2, <2>4 DEF SaleFulfilment
    <3>7. SaleOrderOccupancy(order, {d}, {}) = SaleOrderOccupancy(order, {}, {})
      <4>1. out \ {d} = out \ {}
        BY <3>2
      <4> QED
        BY <4>1 DEF SaleOrderOccupancy, Below
    <3>8. quantity[d] \in Nat
      BY <1>0
    <3> QED
      BY <1>1, <1>4, <2>3, <3>5, <3>6, <3>7, <3>8
  <2>5. CASE ~ (k = "sale-outbound" /\ entry[d].parent = order)
    <3>1. out' = out
      BY <1>0, <2>5, BelowApproved
    <3>2. ASSUME NEW o \in out
          PROVE  TakenNow'[o] <= TakenNow[o]
      <4>0. o \in Documents /\ Approved(o) /\ documents[o].entity = "sale-outbound"
        BY <3>2, BelowIs
      <4>1. /\ TakenNow[o] \in Nat /\ TakenNow'[o] \in Nat
        BY <1>0, <4>0, TakenTyped, TakenTypedNext DEF TakenOK
      <4>2. CASE Signoffs(o)' = Signoffs(o)
        BY <1>1, <4>0, <4>1, <4>2, TakenUnchanged
      <4>3. CASE Signoffs(o)' # Signoffs(o)
        <5>1. /\ k = "sale-signoff" /\ SignedOf(d) = o /\ d \notin Signoffs(o)
              /\ Signoffs(o)' = Signoffs(o) \cup {d}
          BY <1>0, <4>3, SignoffsAtReview
        <5>2. Signoffs(o)' = {d} /\ Signoffs(o) = {}
          <6>1. d \in Signoffs(o)'
            BY <5>1
          <6>2. Signoffs(o)' = {d}
            BY <6>1, OneEachNext DEF OneEach
          <6> QED
            BY <5>1, <6>2
        <5>3. TakenNow'[o] = quantity[d]
          <6>1. (Signoffs(o) \ {})' = {d}
            BY <5>2
          <6>2. Total(Signoffs(o) \ {})' = SumFunctionOnSet(quantity, {d})
            BY <1>1, <6>1 DEF Total
          <6>3. SumFunctionOnSet(quantity, {d}) = quantity[d]
            BY <1>0, SumOfOne
          <6>4. Taken(o, {})' = quantity[d]
            BY <6>1, <6>2, <6>3 DEF Taken
          <6> QED
            BY <4>0, <6>4 DEF TakenNow
        <5>4. TakenNow[o] = quantity[o]
          BY <4>0, <5>2 DEF TakenNow, Taken
        <5>5. /\ entry[d].parent \in Documents /\ Approved(entry[d].parent)
              /\ documents[entry[d].parent].entity = "sale-delivery"
          BY <1>0, <1>1, <1>2, <5>1, RestsOnParent DEF Fulfilment, ParentEntity
        <5>6. quantity[entry[d].parent] = quantity[o]
          BY <1>0, <5>1, <5>5 DEF Fulfils, SignedOf
        <5>7. quantity[d] <= quantity[entry[d].parent]
          BY <1>2, <5>1 DEF SaleFulfilment
        <5> QED
          BY <5>3, <5>4, <5>6, <5>7
      <4> QED
        BY <4>2, <4>3
    <3>3. SaleOrderOccupancy(order, {}, {})' <= SaleOrderOccupancy(order, {}, {})
      BY <1>0, <3>1, <3>2, OccupancyKept
    <3> QED
      BY <1>1, <1>4, <2>2, <2>3, <3>3
  <2> QED
    BY <2>4, <2>5
<1> QED
  BY <1>5, <1>6

(* A reversal.  Of what is below an order only a signoff takes less than     *)
(* what its outbound takes without it, and its reversal looks at the order:  *)
(* it fits, or there is no other outbound.                                   *)
LEMMA ReversalSells ==
  ASSUME SoldInv, BaseInv', NEW d \in Documents, ReviewQuantity(d, "unapprove"),
         NEW order \in ApprovedIn(OfKind("sale-order"))'
  PROVE  SaleOrderOccupancy(order, {}, {})' <= quantity'[order]
<1>0. /\ QuantitiesTypeOK /\ QuantitiesTypeOK' /\ BaseInv /\ Fulfils
      /\ quantity \in [Documents -> Nat]
  BY Costs DEF SoldInv, BaseInv, QuantitiesTypeOK
<1> DEFINE k == documents[d].entity
           out == Below(order, "sale-outbound")
<1>1. /\ documents' = documents /\ quantity' = quantity
      /\ \A x \in Documents \ {d} : entry'[x] = entry[x]
      /\ Approved(d) /\ ~ Approved(d)'
  BY <1>0, ReviewChanges DEF Rules!ApprovalAction, Approved
<1>2. /\ order \in Documents /\ documents[order].entity = "sale-order" /\ Approved(order)
      /\ order # d
  <2>1. order \in Documents /\ documents[order].entity = "sale-order" /\ Approved(order)'
    BY <1>1 DEF ApprovedIn, OfKind
  <2> QED
    BY <1>1, <2>1 DEF Approved
<1>3. SaleOrderOccupancy(order, {}, {}) <= quantity[order]
  BY <1>2 DEF SoldInv, OrdersNotOversold, ApprovedIn, OfKind, Live, Approved
<1>4. /\ out \in SUBSET Documents /\ out' \in SUBSET Documents /\ quantity[order] \in Nat
      /\ out' = out \ {d} /\ (k # "sale-outbound" => out' = out)
  BY <1>0, <1>2, BelowIs, BelowReversed
<1>5. /\ TakenNow \in [Documents -> Nat] /\ TakenNow' \in [Documents -> Nat]
      /\ SaleOrderOccupancy(order, {}, {}) \in Nat /\ SaleOrderOccupancy(order, {}, {})' \in Nat
  <2>1. TakenNow \in [Documents -> Nat] /\ TakenNow' \in [Documents -> Nat]
    BY <1>0, TakenTyped, TakenTypedNext DEF TakenOK
  <2> QED
    BY <1>4, <2>1, SumOfDocuments, OccupancyIs
<1>6. CASE k # "sale-signoff" \/ \A o \in out : o # SignedOf(d)
  <2>1. ASSUME NEW o \in out'
        PROVE  TakenNow'[o] <= TakenNow[o]
    <3>1. o \in Documents /\ o \in out
      BY <1>4
    <3>2. Signoffs(o)' = Signoffs(o)
      <4>1. CASE k # "sale-signoff"
        BY <1>0, <4>1, SignoffsAtReview
      <4>2. CASE k = "sale-signoff"
        <5>1. d \notin Signoffs(o)
          BY <1>0, <1>6, <3>1, <4>2, SignoffsAre DEF SignoffsBelow
        <5>2. Signoffs(o)' = Signoffs(o) \ {d}
          BY <1>0, <4>2, SignoffsAtReview
        <5> QED
          BY <5>1, <5>2
      <4> QED
        BY <4>1, <4>2
    <3> QED
      BY <1>1, <1>5, <3>1, <3>2, TakenUnchanged
  <2>2. SaleOrderOccupancy(order, {}, {})' <= SaleOrderOccupancy(order, {}, {})
    BY <1>0, <1>4, <2>1, OccupancyKept
  <2> QED
    BY <1>1, <1>3, <1>4, <1>5, <2>2
<1>7. CASE k = "sale-signoff" /\ \E o \in out : o = SignedOf(d)
  <2> DEFINE o1 == SignedOf(d)
  <2>1. /\ o1 \in Documents /\ o1 \in out /\ Approved(o1)
        /\ documents[o1].entity = "sale-outbound" /\ entry[o1].parent = order
    BY <1>4, <1>7, BelowIs
  <2>2. SaleOrderOccupancy(order, {}, {d}) > quantity[order] => out \ {o1} = {}
    <3>1. SignoffBlockers(d) = {}
      BY <1>7 DEF ReviewQuantity, QuantitiesStand
    <3> QED
      BY <2>1, <3>1 DEF SignoffBlockers, SignedOf, Below
  <2>3. out' = out
    BY <1>4, <1>7
  <2>4. \A o \in Documents : Signoffs(o)' = Signoffs(o) \ {d}
    BY <1>0, <1>7, SignoffsAtReview
  <2>5. \A o \in Documents : TakenNow'[o] = Taken(o, {d})
    <3> SUFFICES ASSUME NEW o \in Documents PROVE TakenNow'[o] = Taken(o, {d})
      OBVIOUS
    <3>1. (Signoffs(o) \ {})' = Signoffs(o) \ {d}
      BY <2>4
    <3>2. Taken(o, {})' = Taken(o, {d})
      BY <1>1, <3>1 DEF Taken, Total
    <3> QED
      BY <3>2 DEF TakenNow
  <2>6. CASE SaleOrderOccupancy(order, {}, {d}) > quantity[order]
    <3>1. out' = {o1}
      BY <2>1, <2>2, <2>3, <2>6
    <3>2. SaleOrderOccupancy(order, {}, {})' = TakenNow'[o1]
      BY <1>5, <2>1, <3>1, OccupancyIs, SumOfOne
    <3>3. Signoffs(o1) \ {d} = {}
      <4>1. d \in Signoffs(o1)
        BY <1>0, <1>7, SignoffsAtReview
      <4> QED
        BY <1>0, <4>1, SignoffsOfOne
    <3>4. TakenNow'[o1] = quantity[o1]
      BY <2>1, <2>5, <3>3 DEF Taken
    <3>5. quantity[o1] <= quantity[order]
      BY <1>0, <2>1 DEF Fulfils
    <3> QED
      BY <1>1, <3>2, <3>4, <3>5
  <2>7. CASE ~ (SaleOrderOccupancy(order, {}, {d}) > quantity[order])
    <3> DEFINE f == [o \in Documents |-> Taken(o, {d})]
    <3>1. SumFunctionOnSet(TakenNow', out) = SumFunctionOnSet(f, out)
      BY <1>4, <2>5, SumOfSame
    <3>2. SaleOrderOccupancy(order, {}, {d}) = SumFunctionOnSet(f, out)
      <4>1. out \ {} = out
        OBVIOUS
      <4> QED
        BY <4>1 DEF SaleOrderOccupancy, Below
    <3>3. SaleOrderOccupancy(order, {}, {})' = SaleOrderOccupancy(order, {}, {d})
      BY <2>3, <3>1, <3>2, OccupancyIs
    <3> QED
      BY <1>1, <1>4, <1>5, <2>7, <3>3
  <2> QED
    BY <2>6, <2>7
<1> QED
  BY <1>6, <1>7

LEMMA SoldHolds == QuantitiesInit => SoldInv
<1> SUFFICES ASSUME QuantitiesInit PROVE SoldInv
  OBVIOUS
<1>1. BaseInv
  BY BaseHolds
<1>2. \A d \in Documents : ~ Live(d) /\ ~ Approved(d)
  BY DEF QuantitiesInit, VouchersInit, NoEntry, Live, Approved
<1>3. Fulfils /\ OrdersNotOversold
  BY <1>2 DEF Fulfils, OrdersNotOversold, ApprovedIn, OfKind
<1> QED
  BY <1>1, <1>3 DEF SoldInv

LEMMA SoldStays ==
  ASSUME SoldInv, [QuantitiesNext]_quantitiesVars
  PROVE  SoldInv'
<1>1. BaseInv'
  BY BaseStays DEF SoldInv
<1>2. Fulfils'
  BY <1>1, FulfilsKept DEF SoldInv
<1>3. OrdersNotOversold'
  <2>1. CASE \A d \in Documents, action \in {"approve", "unapprove"} : ~ ReviewQuantity(d, action)
    <3>1. ApprovedAside
      BY <2>1, NothingApproved DEF SoldInv, BaseInv
    <3> QED
      BY <1>1, <3>1, SoldAside
  <2>2. ASSUME NEW d \in Documents, ReviewQuantity(d, "approve")
        PROVE  OrdersNotOversold'
    BY <1>1, <1>2, <2>2, ApprovalSells DEF OrdersNotOversold
  <2>3. ASSUME NEW d \in Documents, ReviewQuantity(d, "unapprove")
        PROVE  OrdersNotOversold'
    BY <1>1, <2>3, ReversalSells DEF OrdersNotOversold
  <2> QED
    BY <2>1, <2>2, <2>3
<1> QED
  BY <1>1, <1>2, <1>3 DEF SoldInv

(* sale-fulfillment.ts 378-455: what is under way and what was signed for    *)
(* never add up to more than was ordered, in whatever order outbounds are    *)
(* sent and signoffs for less than was sent are approved and reversed.       *)
THEOREM OrdersAreNotOversold == QuantitiesSpec => []OrdersNotOversold
<1>1. SoldInv => OrdersNotOversold
  BY DEF SoldInv
<1> QED
  BY <1>1, SoldHolds, SoldStays, PTL DEF QuantitiesSpec
-------------------------------------------------------------------------------
(* Sources.  What is returned of a source, whatever was approved of it yet,  *)
(* and what is invoiced of it change with one document at a time.  A         *)
(* purchase return or an invoice that is not rejected keeps its source as it *)
(* is; a signoff that is deleted does not come back.                         *)

Reserving(l) ==
  {x \in Documents : /\ Live(x) /\ documents[x].entity = "purchase-return"
                     /\ l \in entry[x].lines /\ entry[x].status # "REJECTED"}

SaleReturns(l) ==
  {x \in Documents : /\ Live(x) /\ documents[x].entity = "sale-return"
                     /\ l \in entry[x].lines}

Returning(l) ==
  {x \in Documents : /\ Approved(x) /\ documents[x].entity \in Returns
                     /\ l \in entry[x].lines}

Billing(l) ==
  {x \in Documents : /\ entry[x].status \in {"PENDING", "APPROVED"}
                     /\ documents[x].entity \in Invoices
                     /\ l \in entry[x].lines}

ReturnsFit(l) ==
  /\ Total(Reserving(l)) <= quantity[l]
  /\ Live(l) /\ documents[l].entity = "sale-signoff" => Total(SaleReturns(l)) <= quantity[l]

AllReturnsFit == \A l \in Documents : ReturnsFit(l)

InvoicesFit ==
  \A l \in Documents :
    Amount(quantity[l]) - Amount(Total(Returning(l))) - Total(Billing(l)) >= 0

InvoicesCurrent ==
  \A l \in Documents : \A d \in Billing(l) : billed[d] = documents[l].stable

SourcesInv == BaseInv /\ AllReturnsFit /\ InvoicesFit /\ InvoicesCurrent

(* What is returned is in the range of quantities, because a source takes    *)
(* returns of one kind.                                                      *)
ReturnedInRange ==
  \A l \in Documents : /\ Total(Returning(l)) \in Quantity
                       /\ Total(Returning(l)) <= quantity[l]

LEMMA ReturnedFits == BaseInv /\ AllReturnsFit => ReturnedInRange
<1> SUFFICES ASSUME BaseInv, AllReturnsFit, NEW l \in Documents
             PROVE  /\ Total(Returning(l)) \in Quantity
                    /\ Total(Returning(l)) <= quantity[l]
  BY DEF ReturnedInRange
<1>1. /\ quantity \in [Documents -> Nat] /\ quantity[l] \in Quantity /\ quantity[l] \in Nat
      /\ QuantitiesTypeOK
  BY Costs DEF BaseInv, QuantitiesTypeOK
<1>2. Total(Returning(l)) \in Nat
  BY <1>1, SumOfDocuments DEF Total, Returning
<1>3. ASSUME NEW x \in Returning(l)
      PROVE  /\ Live(x) /\ documents[l].entity = LineEntity(documents[x].entity)
             /\ Approved(l)
  <2>1. /\ x \in Documents /\ Approved(x) /\ documents[x].entity \in Returns
        /\ l \in entry[x].lines
    BY <1>3 DEF Returning
  <2>2. Live(x)
    BY <2>1 DEF Live, Approved
  <2>3. documents[l].entity = LineEntity(documents[x].entity)
    BY <2>1, <2>2 DEF BaseInv, AllPlaced, Placed
  <2>4. Approved(l)
    BY <2>1 DEF BaseInv, RestInv, ApprovedRestOnApproved, SourcesStand, LinesCheckedAt, Returns
  <2> QED
    BY <2>2, <2>3, <2>4
<1>4. Returning(l) = {} => Total(Returning(l)) <= quantity[l]
  BY <1>1, SumEmpty DEF Total
<1>5. ASSUME Returning(l) # {}, documents[l].entity = "sale-signoff"
      PROVE  Total(Returning(l)) <= quantity[l]
  <2>1. Returning(l) \in SUBSET SaleReturns(l)
    BY <1>3, <1>5 DEF Returning, SaleReturns, LineEntity, Returns
  <2>2. Live(l)
    BY <1>3, <1>5 DEF Live, Approved
  <2>3. Total(SaleReturns(l)) <= quantity[l]
    BY <1>5, <2>2 DEF AllReturnsFit, ReturnsFit
  <2>4. Total(Returning(l)) <= Total(SaleReturns(l)) /\ Total(SaleReturns(l)) \in Nat
    BY <1>1, <2>1, SumOfPart, SumOfDocuments DEF Total, SaleReturns
  <2> QED
    BY <1>1, <1>2, <2>3, <2>4
<1>6. ASSUME Returning(l) # {}, documents[l].entity # "sale-signoff"
      PROVE  Total(Returning(l)) <= quantity[l]
  <2>1. Returning(l) \in SUBSET Reserving(l)
    BY <1>3, <1>6 DEF Returning, Reserving, LineEntity, Returns, Approved
  <2>2. Total(Reserving(l)) <= quantity[l]
    BY DEF AllReturnsFit, ReturnsFit
  <2>3. Total(Returning(l)) <= Total(Reserving(l)) /\ Total(Reserving(l)) \in Nat
    BY <1>1, <2>1, SumOfPart, SumOfDocuments DEF Total, Reserving
  <2> QED
    BY <1>1, <1>2, <2>2, <2>3
<1>7. Total(Returning(l)) <= quantity[l]
  BY <1>4, <1>5, <1>6
<1> QED
  BY <1>1, <1>2, <1>7, Costs

LEMMA ReturnedFitsNext == (BaseInv /\ AllReturnsFit)' => ReturnedInRange'
  BY ReturnedFits, PTL

(* A step touches one document.                                             *)
OneTouched(d) ==
  \A x \in Documents \ {d} : /\ documents'[x] = documents[x] /\ entry'[x] = entry[x]
                             /\ quantity'[x] = quantity[x] /\ billed'[x] = billed[x]

LEMMA SetsTouched ==
  ASSUME NEW d \in Documents, OneTouched(d), NEW l
  PROVE  /\ Reserving(l)' \ {d} = Reserving(l) \ {d}
         /\ SaleReturns(l)' \ {d} = SaleReturns(l) \ {d}
         /\ Returning(l)' \ {d} = Returning(l) \ {d}
         /\ Billing(l)' \ {d} = Billing(l) \ {d}
<1>1. \A x \in Documents \ {d} : documents'[x] = documents[x] /\ entry'[x] = entry[x]
  BY DEF OneTouched
<1>2. Reserving(l)' \ {d} = Reserving(l) \ {d} /\ SaleReturns(l)' \ {d} = SaleReturns(l) \ {d}
  BY <1>1 DEF Reserving, SaleReturns, Live
<1>3. Returning(l)' \ {d} = Returning(l) \ {d} /\ Billing(l)' \ {d} = Billing(l) \ {d}
  BY <1>1 DEF Returning, Billing, Approved
<1> QED
  BY <1>2, <1>3

LEMMA TotalTouched ==
  ASSUME QuantitiesTypeOK, QuantitiesTypeOK', NEW d \in Documents, OneTouched(d),
         NEW S \in SUBSET Documents, NEW T \in SUBSET Documents, T \ {d} = S \ {d}
  PROVE  /\ Total(S \ {d}) \in Nat /\ quantity[d] \in Nat /\ quantity'[d] \in Nat
         /\ Total(S) = Total(S \ {d}) + (IF d \in S THEN quantity[d] ELSE 0)
         /\ Total(T)' = Total(S \ {d}) + (IF d \in T THEN quantity'[d] ELSE 0)
<1>1. quantity \in [Documents -> Nat] /\ quantity' \in [Documents -> Nat]
  BY Costs DEF QuantitiesTypeOK
<1>2. S \ {d} \in SUBSET Documents /\ T \ {d} \in SUBSET Documents
  OBVIOUS
<1>3. SumFunctionOnSet(quantity, S \ {d}) \in Nat /\ SumFunctionOnSet(quantity, S) \in Nat
      /\ SumFunctionOnSet(quantity', T) \in Nat
  BY <1>1, <1>2, SumOfDocuments
<1>4. SumFunctionOnSet(quantity', T \ {d}) = SumFunctionOnSet(quantity, S \ {d})
  BY <1>2, SumOfSame DEF OneTouched
<1>5. d \in S => SumFunctionOnSet(quantity, S \ {d}) = SumFunctionOnSet(quantity, S) - quantity[d]
  BY <1>1, SumLess
<1>6. d \in T => SumFunctionOnSet(quantity', T \ {d}) = SumFunctionOnSet(quantity', T) - quantity'[d]
  BY <1>1, SumLess
<1>7. /\ d \notin S => S \ {d} = S
      /\ d \notin T => T \ {d} = T
  OBVIOUS
<1> QED
  BY <1>1, <1>3, <1>4, <1>5, <1>6, <1>7 DEF Total

LEMMA AvailableIs ==
  ASSUME NEW l, NEW excluded
  PROVE  /\ Returned(l) = Total(Returning(l))
         /\ AvailableAmount(l, excluded)
              = Amount(quantity[l]) - Amount(Total(Returning(l))) - Total(Billing(l) \ excluded)
<1>1. ApprovedIn(UNION {DrawingOn(l, e) : e \in Returns}) = Returning(l)
  BY DEF ApprovedIn, DrawingOn, OfKind, Returning, Live, Approved
<1> DEFINE U == UNION {DrawingOn(l, e) : e \in Invoices}
<1>2. {x \in U \ excluded : entry[x].status \in {"PENDING", "APPROVED"}} = Billing(l) \ excluded
  <2>1. ASSUME NEW x
        PROVE  x \in U /\ entry[x].status \in {"PENDING", "APPROVED"} <=> x \in Billing(l)
    <3>1. x \in U
            <=> /\ x \in Documents /\ Live(x) /\ documents[x].entity \in Invoices
                /\ l \in entry[x].lines
      BY DEF DrawingOn, OfKind
    <3> HIDE DEF U
    <3> QED BY <3>1 DEF Billing, Live
  <2> HIDE DEF U
  <2> QED BY <2>1
<1>3. Returned(l) = Total(Returning(l))
  BY <1>1 DEF Returned
<1>4. Invoiced(l, excluded) = Total(Billing(l) \ excluded)
  <2>1. Invoiced(l, excluded)
          = Total({x \in U \ excluded : entry[x].status \in {"PENDING", "APPROVED"}})
    BY DEF Invoiced
  <2> HIDE DEF U
  <2> QED BY <1>2, <2>1
<1> QED
  BY <1>3, <1>4 DEF AvailableAmount

(* Of what is not approved, nothing is returned, reserved or invoiced.      *)
NothingDrawn ==
  \A l \in Documents : ~ Approved(l) => Reserving(l) = {} /\ Returning(l) = {} /\ Billing(l) = {}

LEMMA DrawnApproved == BaseInv => NothingDrawn
<1> SUFFICES ASSUME BaseInv, NEW l \in Documents,
                    NEW x \in Reserving(l) \cup Returning(l) \cup Billing(l)
             PROVE  Approved(l)
  BY DEF NothingDrawn
<1>1. /\ x \in Documents /\ l \in entry[x].lines
      /\ documents[x].entity \in Returns \cup Invoices
      /\ Live(x)
  BY DEF Reserving, Returning, Billing, Live, Approved, Returns
<1>2. entry[x].status \in {"PENDING", "REJECTED", "APPROVED"}
  BY <1>1 DEF BaseInv, QuantitiesTypeOK, VouchersTypeOK, Rules!ApprovalStatus, Live
<1>3. CASE Approved(x)
  BY <1>1, <1>3 DEF BaseInv, RestInv, ApprovedRestOnApproved, SourcesStand, LinesCheckedAt,
                    Returns, Invoices
<1>4. CASE ~ Approved(x)
  <2>1. /\ documents[x].entity \in {"purchase-return"} \cup Invoices
        /\ entry[x].status \in {"PENDING", "APPROVED"}
    BY <1>1, <1>2, <1>4 DEF Reserving, Returning, Billing, Approved
  <2> QED
    BY <1>1, <2>1 DEF BaseInv, RestInv, DrawnOnStayApproved, LinesCheckedAt, Invoices
<1> QED
  BY <1>3, <1>4

LEMMA DrawnApprovedNext == BaseInv' => NothingDrawn'
  BY DrawnApproved, PTL

LEMMA SourceSets ==
  ASSUME NEW l
  PROVE  /\ Reserving(l) \in SUBSET Documents /\ Reserving(l)' \in SUBSET Documents
         /\ SaleReturns(l) \in SUBSET Documents /\ SaleReturns(l)' \in SUBSET Documents
         /\ Returning(l) \in SUBSET Documents /\ Returning(l)' \in SUBSET Documents
         /\ Billing(l) \in SUBSET Documents /\ Billing(l)' \in SUBSET Documents
         /\ Reserving(l) \subseteq DrawingOn(l, "purchase-return")
         /\ SaleReturns(l) = DrawingOn(l, "sale-return")
         /\ \A e : DrawingOn(l, e) \in SUBSET Documents
BY DEF Reserving, SaleReturns, Returning, Billing, DrawingOn, OfKind

(* A document that joins the returns of its source has looked at the others. *)
LEMMA ReservesInTurn ==
  ASSUME QuantitiesTypeOK, QuantitiesTypeOK', NEW d \in Documents, OneTouched(d),
         NEW l \in Documents, quantity'[l] = quantity[l], Total(Reserving(l)) <= quantity[l],
         \/ d \notin Reserving(l)'
         \/ d \in Reserving(l) /\ quantity'[d] = quantity[d]
         \/ quantity'[d] + Total(DrawingOn(l, "purchase-return") \ {d}) <= quantity[l]
  PROVE  Total(Reserving(l))' <= quantity'[l]
<1> DEFINE S == Reserving(l)
           T == Reserving(l)'
           D == DrawingOn(l, "purchase-return")
<1>1. /\ quantity \in [Documents -> Nat] /\ quantity[l] \in Nat
      /\ S \in SUBSET Documents /\ T \in SUBSET Documents /\ D \in SUBSET Documents /\ S \subseteq D
      /\ T \ {d} = S \ {d}
  BY Costs, SourceSets, SetsTouched DEF QuantitiesTypeOK
<1>2. /\ Total(S \ {d}) \in Nat /\ quantity[d] \in Nat /\ quantity'[d] \in Nat
      /\ Total(S) = Total(S \ {d}) + (IF d \in S THEN quantity[d] ELSE 0)
      /\ Total(Reserving(l))' = Total(S \ {d}) + (IF d \in T THEN quantity'[d] ELSE 0)
  BY <1>1, TotalTouched DEF Total
<1>3. Total(S \ {d}) <= Total(D \ {d}) /\ Total(D \ {d}) \in Nat
  BY <1>1, SumOfPart, SumOfDocuments DEF Total
<1> QED
  <2> HIDE DEF S, T, D
  <2> QED BY <1>1, <1>2, <1>3 DEF S, T, D

LEMMA SaleReturnsInTurn ==
  ASSUME QuantitiesTypeOK, QuantitiesTypeOK', NEW d \in Documents, OneTouched(d),
         NEW l \in Documents, quantity'[l] = quantity[l], Total(SaleReturns(l)) <= quantity[l],
         \/ d \notin SaleReturns(l)'
         \/ d \in SaleReturns(l) /\ quantity'[d] = quantity[d]
         \/ quantity'[d] + Total(DrawingOn(l, "sale-return") \ {d}) <= quantity[l]
  PROVE  Total(SaleReturns(l))' <= quantity'[l]
<1> DEFINE S == SaleReturns(l)
           T == SaleReturns(l)'
<1>1. /\ quantity \in [Documents -> Nat] /\ quantity[l] \in Nat
      /\ S \in SUBSET Documents /\ T \in SUBSET Documents /\ S = DrawingOn(l, "sale-return")
      /\ T \ {d} = S \ {d}
  BY Costs, SourceSets, SetsTouched DEF QuantitiesTypeOK
<1>2. /\ Total(S \ {d}) \in Nat /\ quantity[d] \in Nat /\ quantity'[d] \in Nat
      /\ Total(S) = Total(S \ {d}) + (IF d \in S THEN quantity[d] ELSE 0)
      /\ Total(SaleReturns(l))' = Total(S \ {d}) + (IF d \in T THEN quantity'[d] ELSE 0)
  BY <1>1, TotalTouched DEF Total
<1> QED
  <2> HIDE DEF S, T
  <2> QED BY <1>1, <1>2 DEF S, T

LEMMA SubmitFits ==
  ASSUME SourcesInv, BaseInv', NEW d \in Documents, NEW e \in Entities, NEW p \in Parents(e),
         NEW ls \in Sources(e), NEW q \in Quantity, SubmitQuantity(d, e, p, ls, q)
  PROVE  AllReturnsFit'
<1> SUFFICES ASSUME NEW l \in Documents PROVE ReturnsFit(l)'
  BY DEF AllReturnsFit
<1>0. /\ QuantitiesTypeOK /\ QuantitiesTypeOK' /\ ReturnsFit(l)
      /\ quantity' \in [Documents -> Nat]
  BY Costs DEF SourcesInv, BaseInv, QuantitiesTypeOK, AllReturnsFit
<1>1. /\ ~ Live(d) /\ documents[d].entity \in {"none", e} /\ documents'[d].entity = e
      /\ entry'[d] = [status |-> "PENDING", revision |-> 1, parent |-> p, lines |-> ls]
      /\ quantity'[d] = q /\ OneTouched(d)
  BY <1>0, SubmitChanges DEF OneTouched
<1>2. ReturnSources(d, e, ls, q) /\ (e \in SystemGenerated => documents[d].entity = "none")
  BY DEF SubmitQuantity
<1>3. Total(Reserving(l))' <= quantity'[l]
  <2>1. CASE ~ Approved(l)'
    <3>1. Reserving(l)' = {}
      BY <2>1, DrawnApprovedNext DEF NothingDrawn
    <3> QED
      BY <1>0, <3>1, SumEmpty DEF Total
  <2>2. CASE Approved(l)'
    <3>1. quantity'[l] = quantity[l]
      BY <1>1, <2>2 DEF Approved, OneTouched
    <3>2. d \in Reserving(l)' => q + Total(DrawingOn(l, "purchase-return") \ {d}) <= quantity[l]
      BY <1>1, <1>2 DEF Reserving, ReturnSources, Returns
    <3> QED
      BY <1>0, <1>1, <3>1, <3>2, ReservesInTurn DEF ReturnsFit
  <2> QED
    BY <2>1, <2>2
<1>4. ASSUME Live(l)', documents'[l].entity = "sale-signoff"
      PROVE  Total(SaleReturns(l))' <= quantity'[l]
  <2>1. CASE l = d
    <3>1. SaleReturns(l)' = {}
      <4>1. documents[d].entity = "none"
        BY <1>1, <1>2, <1>4, <2>1 DEF SystemGenerated
      <4>2. ASSUME NEW x \in SaleReturns(l)' PROVE FALSE
        <5>1. x \in Documents \ {d} /\ x \in SaleReturns(l)
          <6>1. x \in Documents /\ documents'[x].entity = "sale-return"
            BY <4>2 DEF SaleReturns
          <6>2. x # d
            BY <1>4, <2>1, <6>1
          <6> QED
            BY <1>1, <4>2, <6>1, <6>2, SetsTouched
        <5>2. documents[l].entity = LineEntity("sale-return")
          BY <5>1 DEF SaleReturns, SourcesInv, BaseInv, AllPlaced, Placed
        <5> QED
          BY <2>1, <4>1, <5>2 DEF LineEntity
      <4> QED
        BY <4>2
    <3> QED
      BY <1>0, <3>1, SumEmpty DEF Total
  <2>2. CASE l # d
    <3>1. quantity'[l] = quantity[l] /\ Live(l) /\ documents[l].entity = "sale-signoff"
      BY <1>1, <1>4, <2>2 DEF Live, OneTouched
    <3>2. d \in SaleReturns(l)' => q + Total(DrawingOn(l, "sale-return") \ {d}) <= quantity[l]
      BY <1>1, <1>2 DEF SaleReturns, ReturnSources, Returns
    <3> QED
      BY <1>0, <1>1, <3>1, <3>2, SaleReturnsInTurn DEF ReturnsFit
  <2> QED
    BY <2>1, <2>2
<1> QED
  BY <1>3, <1>4 DEF ReturnsFit

LEMMA ReviewFits ==
  ASSUME SourcesInv, BaseInv', NEW d \in Documents, NEW action \in Rules!ApprovalAction,
         ReviewQuantity(d, action)
  PROVE  AllReturnsFit'
<1> SUFFICES ASSUME NEW l \in Documents PROVE ReturnsFit(l)'
  BY DEF AllReturnsFit
<1>0. QuantitiesTypeOK /\ QuantitiesTypeOK' /\ ReturnsFit(l)
  BY DEF SourcesInv, BaseInv, AllReturnsFit
<1>1. /\ documents' = documents /\ quantity' = quantity /\ billed' = billed
      /\ \A x \in Documents : /\ entry'[x].lines = entry[x].lines
                              /\ Live(x)' <=> Live(x)
      /\ \A x \in Documents \ {d} : entry'[x] = entry[x]
      /\ entry[d].status = "REJECTED" => action = "unreject"
  BY <1>0, ReviewChanges DEF Rules!ApprovalAction
<1>2. OneTouched(d)
  BY <1>1 DEF OneTouched
<1>3. Total(Reserving(l))' <= quantity'[l]
  <2>1. d \in Reserving(l)' \ Reserving(l) =>
          quantity[d] + Total(DrawingOn(l, "purchase-return") \ {d}) <= quantity[l]
    <3> SUFFICES ASSUME d \in Reserving(l)', d \notin Reserving(l)
                 PROVE  quantity[d] + Total(DrawingOn(l, "purchase-return") \ {d}) <= quantity[l]
      OBVIOUS
    <3>1. /\ documents[d].entity = "purchase-return" /\ l \in entry[d].lines
          /\ entry[d].status = "REJECTED"
      BY <1>1 DEF Reserving
    <3>2. ReturnSources(d, "purchase-return", entry[d].lines, quantity[d])
      BY <1>1, <3>1 DEF ReviewQuantity, QuantitiesStand
    <3> QED
      BY <3>1, <3>2 DEF ReturnSources, Returns
  <2> QED
    BY <1>0, <1>1, <1>2, <2>1, ReservesInTurn DEF ReturnsFit
<1>4. ASSUME Live(l)', documents'[l].entity = "sale-signoff"
      PROVE  Total(SaleReturns(l))' <= quantity'[l]
  <2>1. d \in SaleReturns(l)' => d \in SaleReturns(l)
    BY <1>1 DEF SaleReturns
  <2> QED
    BY <1>0, <1>1, <1>2, <1>4, <2>1, SaleReturnsInTurn DEF ReturnsFit
<1> QED
  BY <1>3, <1>4 DEF ReturnsFit

LEMMA DeleteFits ==
  ASSUME SourcesInv, BaseInv', NEW d \in Documents, DeleteQuantity(d)
  PROVE  AllReturnsFit'
<1> SUFFICES ASSUME NEW l \in Documents PROVE ReturnsFit(l)'
  BY DEF AllReturnsFit
<1>0. /\ QuantitiesTypeOK /\ QuantitiesTypeOK' /\ ReturnsFit(l)
      /\ quantity' \in [Documents -> Nat]
  BY Costs DEF SourcesInv, BaseInv, QuantitiesTypeOK, AllReturnsFit
<1>1. ~ Live(d)' /\ OneTouched(d)
  BY <1>0, DeleteChanges DEF OneTouched
<1>2. d \notin Reserving(l)' /\ d \notin SaleReturns(l)'
  BY <1>1 DEF Reserving, SaleReturns
<1>3. Total(Reserving(l))' <= quantity'[l]
  <2>1. CASE ~ Approved(l)'
    <3>1. Reserving(l)' = {}
      BY <2>1, DrawnApprovedNext DEF NothingDrawn
    <3> QED
      BY <1>0, <3>1, SumEmpty DEF Total
  <2>2. CASE Approved(l)'
    <3>1. quantity'[l] = quantity[l]
      BY <1>1, <2>2 DEF Approved, Live, OneTouched
    <3> QED
      BY <1>0, <1>1, <1>2, <3>1, ReservesInTurn DEF ReturnsFit
  <2> QED
    BY <2>1, <2>2
<1>4. ASSUME Live(l)', documents'[l].entity = "sale-signoff"
      PROVE  Total(SaleReturns(l))' <= quantity'[l]
  <2>1. quantity'[l] = quantity[l] /\ Live(l) /\ documents[l].entity = "sale-signoff"
    BY <1>1, <1>4 DEF Live, OneTouched
  <2> QED
    BY <1>0, <1>1, <1>2, <2>1, SaleReturnsInTurn DEF ReturnsFit
<1> QED
  BY <1>3, <1>4 DEF ReturnsFit

(* What a step on d does to what is returned and invoiced of l.             *)
LEMMA SourceTotals ==
  ASSUME QuantitiesTypeOK, QuantitiesTypeOK', NEW d \in Documents, OneTouched(d), NEW l
  PROVE  /\ Total(Returning(l) \ {d}) \in Nat /\ Total(Billing(l) \ {d}) \in Nat
         /\ quantity[d] \in Nat /\ quantity'[d] \in Nat
         /\ Total(Returning(l))
              = Total(Returning(l) \ {d}) + (IF d \in Returning(l) THEN quantity[d] ELSE 0)
         /\ Total(Returning(l))'
              = Total(Returning(l) \ {d}) + (IF d \in Returning(l)' THEN quantity'[d] ELSE 0)
         /\ Total(Billing(l))
              = Total(Billing(l) \ {d}) + (IF d \in Billing(l) THEN quantity[d] ELSE 0)
         /\ Total(Billing(l))'
              = Total(Billing(l) \ {d}) + (IF d \in Billing(l)' THEN quantity'[d] ELSE 0)
<1>1. /\ Returning(l)' \ {d} = Returning(l) \ {d} /\ Billing(l)' \ {d} = Billing(l) \ {d}
      /\ Returning(l) \in SUBSET Documents /\ Returning(l)' \in SUBSET Documents
      /\ Billing(l) \in SUBSET Documents /\ Billing(l)' \in SUBSET Documents
  BY SetsTouched, SourceSets
<1>2. /\ Total(Returning(l) \ {d}) \in Nat /\ quantity[d] \in Nat /\ quantity'[d] \in Nat
      /\ Total(Returning(l))
           = Total(Returning(l) \ {d}) + (IF d \in Returning(l) THEN quantity[d] ELSE 0)
      /\ Total(Returning(l))'
           = Total(Returning(l) \ {d}) + (IF d \in Returning(l)' THEN quantity'[d] ELSE 0)
  BY <1>1, TotalTouched DEF Total
<1>3. /\ Total(Billing(l) \ {d}) \in Nat
      /\ Total(Billing(l))
           = Total(Billing(l) \ {d}) + (IF d \in Billing(l) THEN quantity[d] ELSE 0)
      /\ Total(Billing(l))'
           = Total(Billing(l) \ {d}) + (IF d \in Billing(l)' THEN quantity'[d] ELSE 0)
  BY <1>1, TotalTouched DEF Total
<1> QED
  BY <1>2, <1>3

AvailableNext(l) ==
  Amount(quantity'[l]) - Amount(Total(Returning(l))') - Total(Billing(l))' >= 0

LEMMA NothingDrawnAvailable ==
  ASSUME BaseInv', NEW l \in Documents, ~ Approved(l)'
  PROVE  AvailableNext(l)
<1>1. Returning(l)' = {} /\ Billing(l)' = {}
  BY DrawnApprovedNext DEF NothingDrawn
<1>2. Total(Returning(l))' = 0 /\ Total(Billing(l))' = 0
  BY <1>1, SumEmpty DEF Total
<1>3. quantity'[l] \in Quantity
  BY DEF BaseInv, QuantitiesTypeOK
<1>4. Amount(quantity'[l]) \in Nat /\ Amount(0) = 0
  BY <1>3, Costs
<1> QED
  BY <1>2, <1>4 DEF AvailableNext

(* An invoice that joins looks at what is available without it, a return     *)
(* that is approved at what its settlement takes; what is taken back gives.  *)
LEMMA StaysAvailable ==
  ASSUME SourcesInv, BaseInv', AllReturnsFit', NEW d \in Documents, OneTouched(d),
         NEW l \in Documents, quantity'[l] = quantity[l],
         d \in Billing(l) => d \notin Returning(l)' /\ d \notin Returning(l),
         d \in Returning(l)' => quantity'[d] = quantity[d],
         d \in Billing(l) /\ d \in Billing(l)' => quantity'[d] = quantity[d],
         d \in Billing(l)' =>
           /\ d \notin Returning(l)' /\ d \notin Returning(l)
           /\ d \in Billing(l) \/ quantity'[d] <= AvailableAmount(l, {d}),
         d \in Returning(l)' =>
           \/ d \in Returning(l)
           \/ Amount(Returned(l) + quantity[d]) - Amount(Returned(l)) <= AvailableAmount(l, {})
  PROVE  AvailableNext(l)
<1> DEFINE R == Total(Returning(l))
           S == Total(Returning(l))'
           B == Total(Billing(l))
           C == Total(Billing(l))'
           A == quantity[l]
           r == Total(Returning(l) \ {d})
           b == Total(Billing(l) \ {d})
<1>1. /\ QuantitiesTypeOK /\ QuantitiesTypeOK' /\ A \in Quantity
      /\ R \in Quantity /\ S \in Quantity
      /\ Amount(A) - Amount(R) - B >= 0
  BY ReturnedFits, ReturnedFitsNext DEF SourcesInv, BaseInv, QuantitiesTypeOK, ReturnedInRange, InvoicesFit
<1>2. /\ R \in Nat /\ S \in Nat /\ Amount(A) \in Nat /\ Amount(R) \in Nat /\ Amount(S) \in Nat
      /\ S <= R => Amount(S) <= Amount(R)
  <2> HIDE DEF R, S, A
  <2> QED BY <1>1, Costs
<1>3. /\ r \in Nat /\ b \in Nat /\ quantity[d] \in Nat /\ quantity'[d] \in Nat
      /\ R = r + (IF d \in Returning(l) THEN quantity[d] ELSE 0)
      /\ S = r + (IF d \in Returning(l)' THEN quantity'[d] ELSE 0)
      /\ B = b + (IF d \in Billing(l) THEN quantity[d] ELSE 0)
      /\ C = b + (IF d \in Billing(l)' THEN quantity'[d] ELSE 0)
  BY <1>1, SourceTotals
<1>4. /\ Returned(l) = R
      /\ AvailableAmount(l, {d}) = Amount(A) - Amount(R) - b
      /\ AvailableAmount(l, {}) = Amount(A) - Amount(R) - B
  <2>1. Billing(l) \ {} = Billing(l)
    OBVIOUS
  <2> QED
    BY <1>3, <2>1, AvailableIs
<1>5. Amount(A) - Amount(S) - C >= 0
  <2>1. CASE d \in Billing(l)'
    <3>1. S = R
      <4> HIDE DEF R, S, B, C, A, r, b
      <4> QED BY <1>3, <2>1
    <3>2. C <= B \/ (C = b + quantity'[d] /\ quantity'[d] <= Amount(A) - Amount(R) - b)
      <4>1. d \in Billing(l) => quantity'[d] = quantity[d]
        BY <2>1
      <4>2. d \in Billing(l) \/ quantity'[d] <= Amount(A) - Amount(R) - b
        BY <1>4, <2>1
      <4> HIDE DEF R, S, B, C, A, r, b
      <4> QED BY <1>3, <2>1, <4>1, <4>2
    <3>3. B \in Nat /\ C \in Nat
      <4> HIDE DEF R, S, B, C, A, r, b
      <4> QED BY <1>3
    <3> HIDE DEF R, S, B, C, A, r, b
    <3> QED BY <1>1, <1>2, <1>3, <3>1, <3>2, <3>3
  <2>2. CASE d \notin Billing(l)' /\ (d \notin Returning(l)' \/ d \in Returning(l))
    <3>1. d \in Returning(l)' => quantity'[d] = quantity[d]
      OBVIOUS
    <3>2. S <= R /\ C <= B /\ B \in Nat /\ C \in Nat
      <4> HIDE DEF R, S, B, C, A, r, b
      <4> QED BY <1>3, <2>2, <3>1
    <3> HIDE DEF R, S, B, C, A, r, b
    <3> QED BY <1>1, <1>2, <3>2
  <2>3. CASE d \notin Billing(l)' /\ d \in Returning(l)' /\ d \notin Returning(l)
    <3>1. quantity'[d] = quantity[d] /\ d \notin Billing(l)
      BY <2>3
    <3>2. Amount(R + quantity[d]) - Amount(R) <= Amount(A) - Amount(R) - B
      BY <1>4, <2>3
    <3>3. S = R + quantity[d] /\ C = B /\ B \in Nat
      <4> HIDE DEF R, S, B, C, A, r, b
      <4> QED BY <1>3, <2>3, <3>1
    <3>4. Amount(S) - Amount(R) <= Amount(A) - Amount(R) - B
      <4> HIDE DEF R, S, B, C, A, r, b
      <4> QED BY <3>2, <3>3
    <3> HIDE DEF R, S, B, C, A, r, b
    <3> QED BY <1>2, <3>3, <3>4
  <2> QED
    BY <2>1, <2>2, <2>3
<1> QED
  BY <1>5 DEF AvailableNext

LEMMA SubmitInvoices ==
  ASSUME SourcesInv, BaseInv', AllReturnsFit', NEW d \in Documents, NEW e \in Entities,
         NEW p \in Parents(e), NEW ls \in Sources(e), NEW q \in Quantity,
         SubmitQuantity(d, e, p, ls, q)
  PROVE  InvoicesFit' /\ InvoicesCurrent'
<1>0. QuantitiesTypeOK /\ QuantitiesTypeOK'
  BY DEF SourcesInv, BaseInv
<1>1. /\ ~ Live(d) /\ ~ Approved(d) /\ documents'[d].entity = e
      /\ entry'[d] = [status |-> "PENDING", revision |-> 1, parent |-> p, lines |-> ls]
      /\ quantity'[d] = q /\ OneTouched(d)
      /\ \A x \in Documents : documents'[x].stable = documents[x].stable
  BY <1>0, SubmitChanges DEF OneTouched
<1>2. InvoiceSources(d, e, ls, q, billed'[d])
  BY DEF SubmitQuantity
<1>3. ASSUME NEW l \in Documents
      PROVE  /\ d \notin Billing(l) /\ d \notin Returning(l) /\ d \notin Returning(l)'
             /\ d \in Billing(l)' => /\ billed'[d] = documents[l].stable
                                     /\ q <= AvailableAmount(l, {d})
  <2>1. d \notin Billing(l) /\ d \notin Returning(l) /\ d \notin Returning(l)'
    BY <1>1 DEF Billing, Returning, Live, Approved
  <2>2. d \in Billing(l)' => e \in Invoices /\ l \in ls
    BY <1>1 DEF Billing
  <2> QED
    BY <1>2, <2>1, <2>2 DEF InvoiceSources
<1>4. ASSUME NEW l \in Documents
      PROVE  AvailableNext(l)
  <2>1. CASE Approved(l)'
    <3>1. quantity'[l] = quantity[l]
      BY <1>1, <2>1 DEF OneTouched, Approved
    <3> QED
      BY <1>1, <1>3, <3>1, StaysAvailable
  <2>2. CASE ~ Approved(l)'
    BY <2>2, NothingDrawnAvailable
  <2> QED
    BY <2>1, <2>2
<1>5. ASSUME NEW l \in Documents, NEW x \in Billing(l)'
      PROVE  billed'[x] = documents'[l].stable
  <2>1. CASE x = d
    BY <1>1, <1>3, <1>5, <2>1
  <2>2. CASE x # d
    <3>1. x \in Documents \ {d} /\ x \in Billing(l)
      BY <1>1, <1>5, <2>2, SetsTouched, SourceSets
    <3> QED
      BY <1>1, <3>1 DEF SourcesInv, InvoicesCurrent, OneTouched
  <2> QED
    BY <2>1, <2>2
<1> QED
  BY <1>4, <1>5 DEF InvoicesFit, InvoicesCurrent, AvailableNext

LEMMA ReviewInvoices ==
  ASSUME SourcesInv, BaseInv', AllReturnsFit', NEW d \in Documents,
         NEW action \in Rules!ApprovalAction, ReviewQuantity(d, action)
  PROVE  InvoicesFit' /\ InvoicesCurrent'
<1> DEFINE k == documents[d].entity
<1>0. QuantitiesTypeOK /\ QuantitiesTypeOK'
  BY DEF SourcesInv, BaseInv
<1>1. /\ documents' = documents /\ quantity' = quantity /\ billed' = billed
      /\ \A x \in Documents : entry'[x].lines = entry[x].lines
      /\ \A x \in Documents \ {d} : entry'[x] = entry[x]
      /\ entry[d].status = CASE action \in {"approve", "reject"} -> "PENDING"
                             [] action = "unreject"  -> "REJECTED"
                             [] action = "unapprove" -> "APPROVED"
      /\ entry'[d].status = CASE action \in {"unreject", "unapprove"} -> "PENDING"
                              [] action = "reject"  -> "REJECTED"
                              [] action = "approve" -> "APPROVED"
  BY <1>0, ReviewChanges
<1>2. OneTouched(d)
  BY <1>1 DEF OneTouched
<1>3. QuantitiesStand(d, action)
  BY DEF ReviewQuantity
<1>4. k \in Invoices => k \notin Returns
  BY DEF Invoices, Returns
<1>5. ASSUME NEW l \in Documents
      PROVE  d \in Billing(l)' /\ d \notin Billing(l) =>
               billed[d] = documents[l].stable /\ quantity[d] <= AvailableAmount(l, {d})
  <2> SUFFICES ASSUME d \in Billing(l)', d \notin Billing(l)
               PROVE  billed[d] = documents[l].stable /\ quantity[d] <= AvailableAmount(l, {d})
    OBVIOUS
  <2>1. k \in Invoices /\ l \in entry[d].lines /\ action = "unreject"
    BY <1>1 DEF Billing, Rules!ApprovalAction
  <2>2. InvoiceSources(d, k, entry[d].lines, quantity[d], billed[d])
    BY <1>3, <2>1 DEF QuantitiesStand
  <2> QED
    BY <2>1, <2>2 DEF InvoiceSources
<1>6. ASSUME NEW l \in Documents
      PROVE  d \in Returning(l)' /\ d \notin Returning(l) =>
               Amount(Returned(l) + quantity[d]) - Amount(Returned(l)) <= AvailableAmount(l, {})
  <2> SUFFICES ASSUME d \in Returning(l)', d \notin Returning(l)
               PROVE  Amount(Returned(l) + quantity[d]) - Amount(Returned(l))
                        <= AvailableAmount(l, {})
    OBVIOUS
  <2>1. k \in Returns /\ l \in entry[d].lines /\ action = "approve"
    BY <1>1 DEF Returning, Approved, Rules!ApprovalAction
  <2>2. ReturnInvoiceCapacity(k, entry[d].lines, quantity[d])
    BY <1>3, <2>1 DEF QuantitiesStand
  <2> QED
    BY <2>1, <2>2 DEF ReturnInvoiceCapacity
<1>7. ASSUME NEW l \in Documents
      PROVE  AvailableNext(l)
  <2>1. d \in Billing(l) \/ d \in Billing(l)' => d \notin Returning(l) /\ d \notin Returning(l)'
    BY <1>1, <1>4 DEF Billing, Returning
  <2> QED
    BY <1>1, <1>2, <1>5, <1>6, <2>1, StaysAvailable
<1>8. ASSUME NEW l \in Documents, NEW x \in Billing(l)'
      PROVE  billed'[x] = documents'[l].stable
  <2>1. CASE x \in Billing(l)
    BY <1>1, <2>1 DEF SourcesInv, InvoicesCurrent
  <2>2. CASE x \notin Billing(l)
    <3>1. x = d
      BY <1>2, <1>8, <2>2, SetsTouched, SourceSets
    <3> QED
      BY <1>1, <1>5, <1>8, <2>2, <3>1
  <2> QED
    BY <2>1, <2>2
<1> QED
  BY <1>7, <1>8 DEF InvoicesFit, InvoicesCurrent, AvailableNext

LEMMA DeleteInvoices ==
  ASSUME SourcesInv, BaseInv', AllReturnsFit', NEW d \in Documents, DeleteQuantity(d)
  PROVE  InvoicesFit' /\ InvoicesCurrent'
<1>0. QuantitiesTypeOK /\ QuantitiesTypeOK'
  BY DEF SourcesInv, BaseInv
<1>1. /\ ~ Approved(d) /\ ~ Live(d)' /\ OneTouched(d) /\ Blockers(d) = {}
  BY <1>0, DeleteChanges DEF OneTouched
<1>2. ASSUME NEW l \in Documents
      PROVE  d \notin Billing(l)' /\ d \notin Returning(l) /\ d \notin Returning(l)'
  BY <1>1 DEF Billing, Returning, Live, Approved
<1>3. ASSUME NEW l \in Documents
      PROVE  AvailableNext(l)
  <2>1. CASE Approved(l)'
    <3>1. quantity'[l] = quantity[l]
      BY <1>1, <2>1 DEF OneTouched, Approved, Live
    <3> QED
      BY <1>1, <1>2, <3>1, StaysAvailable
  <2>2. CASE ~ Approved(l)'
    BY <2>2, NothingDrawnAvailable
  <2> QED
    BY <2>1, <2>2
<1>4. ASSUME NEW l \in Documents, NEW x \in Billing(l)'
      PROVE  billed'[x] = documents'[l].stable
  <2>1. x \in Documents \ {d} /\ x \in Billing(l)
    BY <1>1, <1>2, <1>4, SetsTouched, SourceSets
  <2>2. l # d
    BY <1>1, <2>1 DEF Billing, Blockers
  <2> QED
    BY <1>1, <2>1, <2>2 DEF SourcesInv, InvoicesCurrent, OneTouched
<1> QED
  BY <1>3, <1>4 DEF InvoicesFit, InvoicesCurrent, AvailableNext

LEMMA SourcesHold == QuantitiesInit => SourcesInv
<1> SUFFICES ASSUME QuantitiesInit PROVE SourcesInv
  OBVIOUS
<1>1. BaseInv
  BY BaseHolds
<1>2. /\ \A d \in Documents : ~ Live(d) /\ ~ Approved(d) /\ entry[d].status = "ABSENT"
      /\ quantity = [d \in Documents |-> 0]
  BY DEF QuantitiesInit, VouchersInit, NoEntry, Live, Approved
<1>3. \A l : Reserving(l) = {} /\ SaleReturns(l) = {} /\ Returning(l) = {} /\ Billing(l) = {}
  BY <1>2 DEF Reserving, SaleReturns, Returning, Billing
<1>4. AllReturnsFit
  BY <1>2, <1>3, SumEmpty DEF AllReturnsFit, ReturnsFit, Total
<1>5. InvoicesFit
  <2>1. \A l : Total(Returning(l)) = 0 /\ Total(Billing(l)) = 0
    BY <1>3, SumEmpty DEF Total
  <2>2. \A l \in Documents : quantity[l] = 0
    BY <1>2
  <2>3. Amount(0) = 0
    BY QuantitiesAssumption
  <2> QED
    BY <2>1, <2>2, <2>3 DEF InvoicesFit
<1>6. InvoicesCurrent
  BY <1>3 DEF InvoicesCurrent
<1> QED
  BY <1>1, <1>4, <1>5, <1>6 DEF SourcesInv

LEMMA SourcesStay ==
  ASSUME SourcesInv, [QuantitiesNext]_quantitiesVars
  PROVE  SourcesInv'
<1>1. BaseInv'
  BY BaseStays DEF SourcesInv
<1>2. CASE UNCHANGED quantitiesVars
  <2>1. UNCHANGED <<documents, entry, quantity, billed>>
    BY <1>2 DEF quantitiesVars, voucherVars, quantityVars
  <2>2. \A l \in Documents :
          /\ Reserving(l)' = Reserving(l) /\ SaleReturns(l)' = SaleReturns(l)
          /\ Returning(l)' = Returning(l) /\ Billing(l)' = Billing(l) /\ (Live(l)' <=> Live(l))
    BY <2>1 DEF Reserving, SaleReturns, Returning, Billing, Live, Approved
  <2>3. AllReturnsFit' /\ InvoicesFit' /\ InvoicesCurrent'
    BY <2>1, <2>2 DEF SourcesInv, AllReturnsFit, ReturnsFit, InvoicesFit, InvoicesCurrent, Total
  <2> QED
    BY <1>1, <2>3 DEF SourcesInv
<1>3. CASE QuantitiesNext
  <2>1. AllReturnsFit'
    BY <1>1, <1>3, SubmitFits, ReviewFits, DeleteFits DEF QuantitiesNext
  <2>2. InvoicesFit' /\ InvoicesCurrent'
    BY <1>1, <1>3, <2>1, SubmitInvoices, ReviewInvoices, DeleteInvoices DEF QuantitiesNext
  <2> QED
    BY <1>1, <2>1, <2>2 DEF SourcesInv
<1> QED
  BY <1>2, <1>3

(* service.ts 4563-4712, invoice.ts 153-534: returns and invoices together   *)
(* never take more from a source than it has, also when it was replaced      *)
(* while they lay rejected; an invoice names the submission that is in force.*)
THEOREM SourcesAreNotOverdrawn == QuantitiesSpec => []SourcesNotOverdrawn
<1>1. SourcesInv => SourcesNotOverdrawn
  <2> SUFFICES ASSUME SourcesInv, NEW l \in Documents
               PROVE  /\ Total({d \in DrawingOn(l, "purchase-return") :
                                  entry[d].status # "REJECTED"}) <= quantity[l]
                      /\ Total(ApprovedIn(DrawingOn(l, "sale-return"))) <= quantity[l]
                      /\ AvailableAmount(l, {}) >= 0
                      /\ \A d \in UNION {DrawingOn(l, e) : e \in Invoices} :
                           entry[d].status # "REJECTED" =>
                             Approved(l) /\ billed[d] = documents[l].stable
    BY DEF SourcesNotOverdrawn
  <2>0. QuantitiesTypeOK /\ quantity \in [Documents -> Nat] /\ quantity[l] \in Nat
    BY Costs DEF SourcesInv, BaseInv, QuantitiesTypeOK
  <2>1. {d \in DrawingOn(l, "purchase-return") : entry[d].status # "REJECTED"} = Reserving(l)
    BY DEF DrawingOn, OfKind, Reserving
  <2>2. Total(Reserving(l)) <= quantity[l]
    BY DEF SourcesInv, AllReturnsFit, ReturnsFit
  <2>3. Total(ApprovedIn(DrawingOn(l, "sale-return"))) <= quantity[l]
    <3>1. ApprovedIn(DrawingOn(l, "sale-return")) \in SUBSET Returning(l)
      BY DEF ApprovedIn, DrawingOn, OfKind, Returning, Returns
    <3>2. Total(Returning(l)) <= quantity[l]
      BY ReturnedFits DEF SourcesInv, ReturnedInRange
    <3>3. /\ Total(ApprovedIn(DrawingOn(l, "sale-return"))) <= Total(Returning(l))
          /\ Total(Returning(l)) \in Nat
          /\ Total(ApprovedIn(DrawingOn(l, "sale-return"))) \in Nat
      BY <2>0, <3>1, SourceSets, SumOfPart, SumOfDocuments DEF Total
    <3> QED
      BY <2>0, <3>2, <3>3
  <2>4. AvailableAmount(l, {}) >= 0
    <3>1. Billing(l) \ {} = Billing(l)
      OBVIOUS
    <3> QED
      BY <3>1, AvailableIs DEF SourcesInv, InvoicesFit
  <2>5. ASSUME NEW d \in UNION {DrawingOn(l, e) : e \in Invoices}, entry[d].status # "REJECTED"
        PROVE  Approved(l) /\ billed[d] = documents[l].stable
    <3>1. d \in Documents /\ Live(d) /\ documents[d].entity \in Invoices /\ l \in entry[d].lines
      BY <2>5 DEF DrawingOn, OfKind
    <3>2. entry[d].status \in {"PENDING", "APPROVED"}
      BY <2>0, <2>5, <3>1 DEF QuantitiesTypeOK, VouchersTypeOK, Rules!ApprovalStatus, Live
    <3>3. d \in Billing(l)
      BY <3>1, <3>2 DEF Billing
    <3>4. Approved(l)
      BY <3>3, DrawnApproved DEF SourcesInv, NothingDrawn
    <3> QED
      BY <3>3, <3>4 DEF SourcesInv, InvoicesCurrent
  <2> QED
    BY <2>1, <2>2, <2>3, <2>4, <2>5
<1> QED
  BY <1>1, SourcesHold, SourcesStay, PTL DEF QuantitiesSpec
===============================================================================
