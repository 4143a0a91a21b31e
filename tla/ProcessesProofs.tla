---------------------------- MODULE ProcessesProofs ----------------------------
(***************************************************************************)
(* Proofs about Vouchers and Processes.  The vouchers' invariants are        *)
(* proved once, for VouchersNext; every step of a process is such a step or  *)
(* leaves the vouchers alone.                                                *)
(***************************************************************************)
EXTENDS Processes, TLAPS

USE VouchersAssumption, ProcessesAssumption

-------------------------------------------------------------------------------
(* Types.                                                                   *)

LEMMA SubmitTyped ==
  ASSUME VouchersTypeOK, NEW d \in Documents, NEW e \in Entities,
         NEW p \in Documents \cup {NoDocument}, NEW ls \in SUBSET Documents,
         NEW trusted \in BOOLEAN, Submit(d, e, p, ls, trusted)
  PROVE  VouchersTypeOK'
<1>1. NewDetail(e, p, ls) \in [status   : Rules!ApprovalStatus \cup {"ABSENT"},
                               revision : Nat,
                               parent   : Documents \cup {NoDocument},
                               lines    : SUBSET Documents]
  BY DEF NewDetail, Rules!ApprovalStatus
<1> QED
  BY <1>1 DEF Submit, VouchersTypeOK

LEMMA ReviewTyped ==
  ASSUME VouchersTypeOK, NEW d \in Documents, NEW action \in Rules!ApprovalAction,
         Review(d, action)
  PROVE  VouchersTypeOK'
<1>1. Rules!TargetStatus(action) \in Rules!ApprovalStatus
  BY DEF Rules!TargetStatus, Rules!ApprovalStatus, Rules!ApprovalAction
<1> QED
  BY <1>1 DEF Review, VouchersTypeOK

LEMMA DeleteTyped ==
  ASSUME VouchersTypeOK, NEW d \in Documents, Delete(d)
  PROVE  VouchersTypeOK'
  BY DEF Delete, VouchersTypeOK, NoEntry

LEMMA VouchersTyped ==
  ASSUME VouchersTypeOK, [VouchersNext]_voucherVars
  PROVE  VouchersTypeOK'
<1>1. CASE UNCHANGED voucherVars
  BY <1>1 DEF voucherVars, VouchersTypeOK
<1>2. CASE VouchersNext
  BY <1>2, SubmitTyped, ReviewTyped, DeleteTyped DEF VouchersNext
<1> QED
  BY <1>1, <1>2

(* What a node action under way carries.                                    *)
ActInv ==
  \A r \in Documents : act[r].kind # "none" =>
    /\ instance[r] \in Definitions
    /\ act[r].node \in Documents
    /\ act[r].kind = "create" => act[r].key \in Keys /\ act[r].request \in RequestKeys

LEMMA Typed == Init => TypeOK /\ ActInv
  BY DEF Init, VouchersInit, TypeOK, VouchersTypeOK, ActInv, NoEntry, NoNode,
         NoResult, NoAct, NodeRow, ResultRow

(* A step of a process is one of the vouchers', or leaves them alone.       *)
LEMMA VoucherStep ==
  ASSUME TypeOK, ActInv, [Next]_vars
  PROVE  [VouchersNext]_voucherVars
<1>1. CASE UNCHANGED vars
  BY <1>1 DEF vars, voucherVars
<1>2. CASE SubmitVoucher
  BY <1>2 DEF SubmitVoucher, VouchersNext
<1>3. CASE ReviewVoucher
  BY <1>3 DEF ReviewVoucher, VouchersNext
<1>4. CASE DeleteVoucher
  BY <1>4 DEF DeleteVoucher, VouchersNext
<1>5. ASSUME NEW r \in Documents, BeginCreate(r) \/ BeginReview(r) \/ GiveUp(r)
      PROVE  UNCHANGED voucherVars
  BY <1>5 DEF BeginCreate, BeginReview, GiveUp, voucherVars
<1>6. ASSUME NEW r \in Documents, CreateChild(r)
      PROVE  VouchersNext
  <2>1. /\ instance[r] \in Definitions
        /\ act[r].node \in Documents
        /\ act[r].key \in Keys
    BY <1>6 DEF CreateChild, ActInv
  <2>2. instance[r].entity[act[r].key] \in Entities
    BY <2>1
  <2>3. PICK d \in Documents :
          Submit(d, instance[r].entity[act[r].key], act[r].node, {}, TRUE)
    BY <1>6 DEF CreateChild
  <2> QED
    BY <2>1, <2>2, <2>3 DEF VouchersNext
<1>7. ASSUME NEW r \in Documents, ReviewChild(r)
      PROVE  VouchersNext
  <2>1. act[r].node \in Documents /\ act[r].kind \in Rules!ApprovalAction
    BY <1>7 DEF ReviewChild, ActInv, NodeReview, Rules!ApprovalAction
  <2> QED
    BY <1>7, <2>1 DEF ReviewChild, VouchersNext
<1>8. ASSUME NEW r \in Documents, CancelChild(r)
      PROVE  VouchersNext
  <2>1. act[r].node \in Documents
    BY <1>8 DEF CancelChild, ActInv
  <2> QED
    BY <1>8, <2>1 DEF CancelChild, VouchersNext
<1> QED
  BY <1>1, <1>2, <1>3, <1>4, <1>5, <1>6, <1>7, <1>8 DEF Next

(* Rows that are switched off are rows.                                     *)
LEMMA RowOff ==
  ASSUME NEW row \in ResultRow
  PROVE  /\ [row EXCEPT !.active = FALSE] \in ResultRow
         /\ [row EXCEPT !.active = FALSE, !.target = NoDocument] \in ResultRow
  BY DEF ResultRow

LEMMA NodeOff ==
  ASSUME NEW row \in NodeRow
  PROVE  [row EXCEPT !.holds = FALSE] \in NodeRow
  BY DEF NodeRow

(* What a review does to the processes keeps the types, and the instances   *)
(* that have been started.                                                  *)
LEMMA EffectsTyped ==
  ASSUME TypeOK, NEW d \in Documents, NEW action, Effects(d, action)
  PROVE  /\ instance' \in [Documents -> Definitions \cup {NoInstance}]
         /\ node' \in [Documents -> [Documents -> NodeRow]]
         /\ result' \in [Documents -> [Documents -> [Keys -> ResultRow]]]
         /\ \A r \in Documents : instance[r] \in Definitions => instance'[r] = instance[r]
<1>1. CASE UNCHANGED <<instance, node>>
  <2>1. CASE UNCHANGED result
    BY <1>1, <2>1 DEF TypeOK
  <2>2. CASE result' = [result EXCEPT ![d] = [n \in Documents |-> [k \in Keys |->
                         [result[d][n][k] EXCEPT !.active = FALSE]]]]
    <3>1. \A n \in Documents, k \in Keys :
            [result[d][n][k] EXCEPT !.active = FALSE] \in ResultRow
      <4>1. TAKE n \in Documents, k \in Keys
      <4>2. result[d][n][k] \in ResultRow
        BY DEF TypeOK
      <4> QED
        BY <4>2, RowOff
    <3>2. result' \in [Documents -> [Documents -> [Keys -> ResultRow]]]
      BY <2>2, <3>1 DEF TypeOK
    <3> QED
      BY <1>1, <3>2 DEF TypeOK
  <2> QED
    BY <2>1, <2>2 DEF Effects, Reverse
<1>2. CASE ~ UNCHANGED <<instance, node>>
  <2>1. UNCHANGED result
    BY <1>2 DEF Effects
  <2>2. ~ Started(d)
    BY <1>2 DEF Effects, Start
  <2>3. PICK g \in Definitions :
          /\ instance' = [instance EXCEPT ![d] = g]
          /\ node' = [node EXCEPT ![d][d] = [key |-> g.root, parent |-> NoDocument,
                                            holds |-> TRUE]]
    BY <1>2 DEF Effects, Start
  <2> QED
    <3>1. [key |-> g.root, parent |-> NoDocument, holds |-> TRUE] \in NodeRow
      BY <2>3 DEF NodeRow
    <3> QED
      BY <2>1, <2>2, <2>3, <3>1 DEF TypeOK, Started
<1> QED
  BY <1>1, <1>2

LEMMA TypeStep == TypeOK /\ ActInv /\ [Next]_vars => TypeOK' /\ ActInv'
<1> SUFFICES ASSUME TypeOK, ActInv, [Next]_vars
             PROVE  TypeOK' /\ ActInv'
  OBVIOUS
<1>0. VouchersTypeOK'
  BY VoucherStep, VouchersTyped DEF TypeOK
<1>1. CASE UNCHANGED vars
  BY <1>0, <1>1 DEF vars, TypeOK, ActInv
<1>2. CASE SubmitVoucher \/ DeleteVoucher
  BY <1>0, <1>2 DEF SubmitVoucher, DeleteVoucher, processVars, TypeOK, ActInv
<1>3. CASE ReviewVoucher
  <2>1. PICK d \in Documents, action \in Rules!ApprovalAction : Effects(d, action)
    BY <1>3 DEF ReviewVoucher
  <2>2. UNCHANGED <<created, act>>
    BY <1>3 DEF ReviewVoucher
  <2> QED
    BY <1>0, <2>1, <2>2, EffectsTyped DEF TypeOK, ActInv
<1>4. ASSUME NEW r \in Documents, BeginCreate(r)
      PROVE  TypeOK' /\ ActInv'
  <2>1. PICK n \in Documents, k \in Keys, q \in RequestKeys :
          act' = [act EXCEPT ![r] = [NoAct EXCEPT !.kind = "create", !.node = n,
                                                  !.key = k, !.request = q]]
    BY <1>4 DEF BeginCreate
  <2>2. UNCHANGED <<instance, node, result, created>>
    BY <1>4 DEF BeginCreate
  <2>3. instance[r] \in Definitions
    BY <1>4 DEF BeginCreate, Idle, Started, TypeOK
  <2> QED
    BY <1>0, <2>1, <2>2, <2>3 DEF TypeOK, ActInv, NoAct
<1>5. ASSUME NEW r \in Documents, BeginReview(r)
      PROVE  TypeOK' /\ ActInv'
  <2>1. PICK c \in Documents, kind \in NodeReview :
          act' = [act EXCEPT ![r] = [NoAct EXCEPT !.kind = kind, !.node = c,
                                                  !.stable = documents[c].stable,
                                                  !.revision = entry[c].revision]]
    BY <1>5 DEF BeginReview
  <2>2. UNCHANGED <<instance, node, result, created>>
    BY <1>5 DEF BeginReview
  <2>3. instance[r] \in Definitions
    BY <1>5 DEF BeginReview, Idle, Started, TypeOK
  <2>4. documents[c].stable \in Nat /\ entry[c].revision \in Nat
    BY DEF TypeOK, VouchersTypeOK
  <2> QED
    BY <1>0, <2>1, <2>2, <2>3, <2>4 DEF TypeOK, ActInv, NoAct, NodeReview
<1>6. ASSUME NEW r \in Documents, CreateChild(r)
      PROVE  TypeOK' /\ ActInv'
  <2>1. /\ act[r].node \in Documents
        /\ act[r].key \in Keys
        /\ act[r].request \in RequestKeys
    BY <1>6 DEF CreateChild, ActInv
  <2>2. PICK d \in Documents :
          /\ node' = [node EXCEPT ![r][d] = [key |-> act[r].key, parent |-> act[r].node,
                                            holds |-> TRUE]]
          /\ result' = [result EXCEPT ![r][act[r].node][act[r].key] =
                          [request |-> act[r].request, target |-> d, active |-> TRUE]]
          /\ created' = created \cup {[root |-> r, source |-> act[r].node, key |-> act[r].key,
                                       request |-> act[r].request, child |-> d]}
    BY <1>6 DEF CreateChild
  <2>3. act' = [act EXCEPT ![r] = NoAct] /\ UNCHANGED instance
    BY <1>6 DEF CreateChild, Done
  <2>4. /\ [key |-> act[r].key, parent |-> act[r].node, holds |-> TRUE] \in NodeRow
        /\ [request |-> act[r].request, target |-> d, active |-> TRUE] \in ResultRow
    BY <2>1 DEF NodeRow, ResultRow
  <2>5. /\ node' \in [Documents -> [Documents -> NodeRow]]
        /\ result' \in [Documents -> [Documents -> [Keys -> ResultRow]]]
    BY <2>1, <2>2, <2>4 DEF TypeOK
  <2>6. act' \in [Documents -> [kind     : NodeReview \cup {"create", "none"},
                                node     : Documents \cup {NoDocument},
                                key      : Keys \cup {NoKey},
                                request  : RequestKeys \cup {NoRequest},
                                stable   : Nat,
                                revision : Nat]]
    BY <2>3 DEF TypeOK, NoAct
  <2> QED
    BY <1>0, <2>1, <2>2, <2>3, <2>5, <2>6 DEF TypeOK, ActInv, NoAct
<1>7. ASSUME NEW r \in Documents, ReviewChild(r)
      PROVE  TypeOK' /\ ActInv'
  <2>1. act[r].node \in Documents /\ Effects(act[r].node, act[r].kind)
    BY <1>7 DEF ReviewChild, ActInv, NodeReview
  <2>2. act' = [act EXCEPT ![r] = NoAct] /\ UNCHANGED created
    BY <1>7 DEF ReviewChild, Done
  <2> QED
    BY <1>0, <2>1, <2>2, EffectsTyped DEF TypeOK, ActInv, NoAct
<1>8. ASSUME NEW r \in Documents, CancelChild(r)
      PROVE  TypeOK' /\ ActInv'
  <2>1. act[r].node \in Documents
    BY <1>8 DEF CancelChild, ActInv
  <2>2. /\ act' = [act EXCEPT ![r] = NoAct]
        /\ UNCHANGED <<instance, created>>
        /\ node' = [node EXCEPT ![r][act[r].node].holds = FALSE]
        /\ result' = [x \in Documents |-> [n \in Documents |-> [k \in Keys |->
                       IF result[x][n][k].target = act[r].node
                       THEN [result[x][n][k] EXCEPT !.active = FALSE, !.target = NoDocument]
                       ELSE result[x][n][k]]]]
    BY <1>8 DEF CancelChild, Done
  <2>3. result' \in [Documents -> [Documents -> [Keys -> ResultRow]]]
    <3>1. \A x, n \in Documents, k \in Keys : result'[x][n][k] =
            IF result[x][n][k].target = act[r].node
            THEN [result[x][n][k] EXCEPT !.active = FALSE, !.target = NoDocument]
            ELSE result[x][n][k]
      BY <2>2
    <3>2. ASSUME NEW x \in Documents, NEW n \in Documents, NEW k \in Keys
          PROVE  result'[x][n][k] \in ResultRow
      <4>1. result[x][n][k] \in ResultRow
        BY DEF TypeOK
      <4> QED
        BY <3>1, <4>1, RowOff
    <3> QED
      BY <2>2, <3>2
  <2>4. node' \in [Documents -> [Documents -> NodeRow]]
    <3>0. node[r][act[r].node] \in NodeRow
      BY <2>1 DEF TypeOK
    <3>1. [node[r][act[r].node] EXCEPT !.holds = FALSE] \in NodeRow
      BY <3>0, NodeOff
    <3> QED
      BY <2>1, <2>2, <3>1 DEF TypeOK
  <2> QED
    BY <1>0, <2>1, <2>2, <2>3, <2>4 DEF TypeOK, ActInv, NoAct
<1>9. ASSUME NEW r \in Documents, GiveUp(r)
      PROVE  TypeOK' /\ ActInv'
  BY <1>0, <1>9 DEF GiveUp, Done, TypeOK, ActInv, NoAct
<1> QED
  BY <1>1, <1>2, <1>3, <1>4, <1>5, <1>6, <1>7, <1>8, <1>9 DEF Next

(* Documents, nodes, results and actions under way keep their shape.        *)
THEOREM ProcessesTypeCorrect == Spec => []TypeOK
<1>1. Init => TypeOK /\ ActInv
  BY Typed
<1>2. TypeOK /\ ActInv /\ [Next]_vars => TypeOK' /\ ActInv'
  BY TypeStep
<1> QED
  BY <1>1, <1>2, PTL DEF Spec

(* Whatever the workflow does, the vouchers see a sequence of ordinary      *)
(* submissions, reviews and deletions.                                      *)
THEOREM ProcessesRunOnVouchers == Spec => VouchersSpec
<1>1. Init => VouchersInit /\ TypeOK /\ ActInv
  BY Typed DEF Init
<1>2. TypeOK /\ ActInv /\ [Next]_vars => TypeOK' /\ ActInv'
  BY TypeStep
<1>3. TypeOK /\ ActInv /\ [Next]_vars => [VouchersNext]_voucherVars
  BY VoucherStep
<1> QED
  BY <1>1, <1>2, <1>3, PTL DEF Spec, VouchersSpec

-------------------------------------------------------------------------------
(* What documents rest on.  An operation changes the entry of one document  *)
(* only; what an approved document rests on is approved, so it is not the   *)
(* document that is submitted or deleted, and only an unapproval, which     *)
(* looks for blockers, can take the approval away.                          *)

RestInv == VouchersTypeOK /\ ApprovedRestOnApproved /\ DrawnOnStayApproved

LEMMA SubmitRests ==
  ASSUME RestInv, NEW d \in Documents, NEW e \in Entities,
         NEW p \in Documents \cup {NoDocument}, NEW ls \in SUBSET Documents,
         NEW trusted \in BOOLEAN, Submit(d, e, p, ls, trusted)
  PROVE  (ApprovedRestOnApproved /\ DrawnOnStayApproved)'
<1>1. /\ ~ Live(d) /\ SourcesStand(e, p, ls, "submit")
      /\ documents' = [documents EXCEPT ![d].entity = e]
      /\ entry' = [entry EXCEPT ![d] = [status |-> "PENDING", revision |-> 1,
                                       parent |-> p, lines |-> ls]]
  BY DEF Submit, NewDetail
<1>2. \A x \in Documents \ {d} : documents'[x] = documents[x] /\ entry'[x] = entry[x]
  BY <1>1 DEF RestInv, VouchersTypeOK
<1>3. /\ documents'[d].entity = e
      /\ entry'[d].status = "PENDING" /\ entry'[d].lines = ls
  BY <1>1 DEF RestInv, VouchersTypeOK
<1>4. \A x \in Documents : Approved(x) => x # d /\ Approved(x)'
  BY <1>1, <1>2 DEF Approved, Live
<1>5. ApprovedRestOnApproved'
  <2> SUFFICES ASSUME NEW x \in Documents, Approved(x)'
               PROVE  SourcesStand(documents[x].entity, entry[x].parent, entry[x].lines,
                                   "approve")'
    BY DEF ApprovedRestOnApproved
  <2>1. x # d
    BY <1>3 DEF Approved
  <2>2. /\ documents'[x] = documents[x] /\ entry'[x] = entry[x]
        /\ SourcesStand(documents[x].entity, entry[x].parent, entry[x].lines, "approve")
    BY <1>2, <2>1 DEF Approved, RestInv, ApprovedRestOnApproved
  <2>3. entry[x].lines \subseteq Documents
    BY DEF RestInv, VouchersTypeOK
  <2> QED
    BY <1>4, <2>2, <2>3 DEF SourcesStand
<1>6. DrawnOnStayApproved'
  <2> SUFFICES ASSUME NEW x \in Documents,
                      documents'[x].entity \in LinesCheckedAt("unreject"),
                      entry'[x].status \in {"PENDING", "APPROVED"},
                      NEW l \in entry'[x].lines
               PROVE  Approved(l)'
    BY DEF DrawnOnStayApproved
  <2>1. CASE x = d
    <3>1. e \in LinesCheckedAt("submit") /\ l \in Documents
      BY <1>3, <2>1 DEF LinesCheckedAt
    <3> QED
      BY <1>1, <1>3, <1>4, <2>1, <3>1 DEF SourcesStand
  <2>2. CASE x # d
    <3>1. Approved(l) /\ l \in Documents
      BY <1>2, <2>2 DEF RestInv, DrawnOnStayApproved, VouchersTypeOK
    <3> QED
      BY <1>4, <3>1
  <2> QED
    BY <2>1, <2>2
<1> QED
  BY <1>5, <1>6

LEMMA ReviewRests ==
  ASSUME RestInv, NEW d \in Documents, NEW action \in Rules!ApprovalAction,
         Review(d, action)
  PROVE  (ApprovedRestOnApproved /\ DrawnOnStayApproved)'
<1>1. /\ Rules!ActionIsValidForStatus(action, entry[d].status)
      /\ entry' = [entry EXCEPT ![d].status = Rules!TargetStatus(action),
                                ![d].revision = @ + 1]
      /\ UNCHANGED documents
  BY DEF Review
<1>2. /\ entry[d].status = "APPROVED" <=> action = "unapprove"
      /\ entry'[d].status = "APPROVED" <=> action = "approve"
      /\ entry'[d].status = "PENDING" <=> action \in {"unreject", "unapprove"}
  BY <1>1 DEF RestInv, VouchersTypeOK, Rules!ActionIsValidForStatus, Rules!TargetStatus,
              Rules!ApprovalAction, Rules!ApprovalStatus
<1>3. \A x \in Documents : /\ entry'[x].parent = entry[x].parent
                           /\ entry'[x].lines = entry[x].lines
                           /\ x # d => entry'[x] = entry[x]
  BY <1>1 DEF RestInv, VouchersTypeOK
<1>4. ASSUME NEW l \in Documents, Approved(l), ~ Approved(l)'
      PROVE  /\ l = d
             /\ Blockers(l) = {}
  BY <1>2, <1>3, <1>4 DEF Approved, Review
<1>5. ApprovedRestOnApproved'
  <2> SUFFICES ASSUME NEW x \in Documents, Approved(x)'
               PROVE  SourcesStand(documents[x].entity, entry[x].parent, entry[x].lines,
                                   "approve")'
    BY DEF ApprovedRestOnApproved
  <2>1. SourcesStand(documents[x].entity, entry[x].parent, entry[x].lines, "approve")
    <3>1. CASE x = d
      BY <1>2, <3>1 DEF Approved, Review
    <3>2. CASE x # d
      BY <1>3, <3>2 DEF Approved, RestInv, ApprovedRestOnApproved
    <3> QED
      BY <3>1, <3>2
  <2>2. ASSUME NEW l \in Documents, Approved(l),
               l = entry[x].parent \/ l \in entry[x].lines
        PROVE  Approved(l)'
    <3> SUFFICES ASSUME ~ Approved(l)'
                 PROVE  FALSE
      OBVIOUS
    <3>1. l = d /\ Blockers(l) = {}
      BY <1>4, <2>2
    <3>2. x # d
      BY <3>1 DEF Approved
    <3>3. Approved(x)
      BY <1>3, <3>2 DEF Approved
    <3> QED
      BY <2>2, <3>1, <3>3 DEF Blockers, Approved, Live
  <2>3. entry[x].lines \subseteq Documents
    BY DEF RestInv, VouchersTypeOK
  <2> QED
    BY <1>1, <1>3, <2>1, <2>2, <2>3 DEF SourcesStand
<1>6. DrawnOnStayApproved'
  <2> SUFFICES ASSUME NEW x \in Documents,
                      documents'[x].entity \in LinesCheckedAt("unreject"),
                      entry'[x].status \in {"PENDING", "APPROVED"},
                      NEW l \in entry'[x].lines
               PROVE  Approved(l)'
    BY DEF DrawnOnStayApproved
  <2>1. documents[x].entity \in LinesCheckedAt("unreject") /\ l \in entry[x].lines
    BY <1>1, <1>3
  <2>2. l \in Documents
    BY <2>1 DEF RestInv, VouchersTypeOK
  <2>3. CASE action = "unreject" /\ x = d
    <3>1. Approved(l)
      BY <2>1, <2>3 DEF Review, SourcesStand
    <3> QED
      BY <1>2, <1>3, <2>2, <2>3, <3>1 DEF Approved
  <2>4. CASE ~ (action = "unreject" /\ x = d)
    <3>1. entry[x].status \in {"PENDING", "APPROVED"}
      BY <1>1, <1>2, <1>3, <2>4 DEF RestInv, VouchersTypeOK, Rules!ActionIsValidForStatus
    <3>2. Approved(l) /\ x \in Blockers(l)
      BY <2>1, <3>1 DEF RestInv, DrawnOnStayApproved, Blockers
    <3> QED
      BY <1>4, <2>2, <3>2
  <2> QED
    BY <2>3, <2>4
<1> QED
  BY <1>5, <1>6

LEMMA DeleteRests ==
  ASSUME RestInv, NEW d \in Documents, Delete(d)
  PROVE  (ApprovedRestOnApproved /\ DrawnOnStayApproved)'
<1>1. /\ entry[d].status \in {"PENDING", "REJECTED"}
      /\ entry' = [entry EXCEPT ![d] = NoEntry]
      /\ documents' = [documents EXCEPT ![d].stable = @ + 1]
  BY DEF Delete
<1>2. \A x \in Documents : /\ documents'[x].entity = documents[x].entity
                           /\ x # d => entry'[x] = entry[x]
  BY <1>1 DEF RestInv, VouchersTypeOK
<1>3. entry'[d].status = "ABSENT"
  BY <1>1 DEF NoEntry, RestInv, VouchersTypeOK
<1>4. \A l \in Documents : Approved(l) => Approved(l)'
  BY <1>1, <1>2 DEF Approved
<1>5. \A x \in Documents : entry[x].lines \subseteq Documents
  BY DEF RestInv, VouchersTypeOK
<1>6. ApprovedRestOnApproved'
  <2> SUFFICES ASSUME NEW x \in Documents, Approved(x)'
               PROVE  SourcesStand(documents[x].entity, entry[x].parent, entry[x].lines,
                                   "approve")'
    BY DEF ApprovedRestOnApproved
  <2>1. x # d
    BY <1>3 DEF Approved
  <2>2. SourcesStand(documents[x].entity, entry[x].parent, entry[x].lines, "approve")
    BY <1>2, <2>1 DEF Approved, RestInv, ApprovedRestOnApproved
  <2> QED
    BY <1>2, <1>4, <1>5, <2>1, <2>2 DEF SourcesStand
<1>7. DrawnOnStayApproved'
  <2> SUFFICES ASSUME NEW x \in Documents,
                      documents'[x].entity \in LinesCheckedAt("unreject"),
                      entry'[x].status \in {"PENDING", "APPROVED"},
                      NEW l \in entry'[x].lines
               PROVE  Approved(l)'
    BY DEF DrawnOnStayApproved
  <2>1. x # d
    BY <1>3
  <2>2. Approved(l) /\ l \in Documents
    BY <1>2, <1>5, <2>1 DEF RestInv, DrawnOnStayApproved
  <2> QED
    BY <1>4, <2>2
<1> QED
  BY <1>6, <1>7

LEMMA VouchersRest ==
  ASSUME RestInv, [VouchersNext]_voucherVars
  PROVE  RestInv'
<1>1. VouchersTypeOK'
  BY VouchersTyped DEF RestInv
<1>2. CASE UNCHANGED voucherVars
  BY <1>1, <1>2 DEF voucherVars, RestInv, ApprovedRestOnApproved, DrawnOnStayApproved,
                    Approved, SourcesStand
<1>3. CASE VouchersNext
  BY <1>1, <1>3, SubmitRests, ReviewRests, DeleteRests DEF VouchersNext, RestInv
<1> QED
  BY <1>2, <1>3

(* An approved document rests on approved ones, and what a purchase return  *)
(* or an invoice in progress draws from stays approved, whoever submits,    *)
(* reviews, reverses and deletes: a user or the workflow.                   *)
THEOREM DocumentsRestOnApproved == Spec => [](ApprovedRestOnApproved /\ DrawnOnStayApproved)
<1>1. Init => RestInv /\ TypeOK /\ ActInv
  <2>1. VouchersInit => ApprovedRestOnApproved /\ DrawnOnStayApproved
    BY DEF VouchersInit, NoEntry, ApprovedRestOnApproved, DrawnOnStayApproved, Approved
  <2> QED
    BY <2>1, Typed DEF Init, RestInv, TypeOK
<1>2. TypeOK /\ ActInv /\ [Next]_vars => TypeOK' /\ ActInv'
  BY TypeStep
<1>3. RestInv /\ TypeOK /\ ActInv /\ [Next]_vars => RestInv'
  BY VoucherStep, VouchersRest
<1>4. RestInv => ApprovedRestOnApproved /\ DrawnOnStayApproved
  BY DEF RestInv
<1> QED
  BY <1>1, <1>2, <1>3, <1>4, PTL DEF Spec

(* vou.md: what a purchase return or an invoice in progress draws from      *)
(* cannot be reversed (downstreamBlockers).                                 *)
THEOREM SourcesStayApproved == Spec => []DrawnOnStayApproved
  BY DocumentsRestOnApproved, PTL

-------------------------------------------------------------------------------
(* One delivery for an outbound, one signoff for a delivery: a submission   *)
(* looks at every live document, and nothing else changes a parent.         *)
LEMMA VouchersSole ==
  ASSUME VouchersTypeOK, OneSoleChild, [VouchersNext]_voucherVars
  PROVE  OneSoleChild'
<1>1. CASE UNCHANGED voucherVars
  BY <1>1 DEF voucherVars, OneSoleChild, Live
<1>2. ASSUME NEW d \in Documents, NEW e \in Entities,
             NEW p \in Documents \cup {NoDocument}, NEW ls \in SUBSET Documents,
             NEW trusted \in BOOLEAN, Submit(d, e, p, ls, trusted)
      PROVE  OneSoleChild'
  <2>1. /\ documents' = [documents EXCEPT ![d].entity = e]
        /\ entry' = [entry EXCEPT ![d] = [status |-> "PENDING", revision |-> 1,
                                         parent |-> p, lines |-> ls]]
        /\ OnlyChild(d, e, p)
    BY <1>2 DEF Submit, NewDetail
  <2>2. /\ \A x \in Documents \ {d} : documents'[x] = documents[x] /\ entry'[x] = entry[x]
        /\ documents'[d].entity = e /\ entry'[d].parent = p
    BY <2>1 DEF VouchersTypeOK
  <2> SUFFICES ASSUME NEW x \in Documents, NEW y \in Documents, Live(x)', Live(y)',
                      documents'[x].entity = documents'[y].entity,
                      documents'[x].entity \in Sole,
                      entry'[x].parent = entry'[y].parent
               PROVE  x = y
    BY DEF OneSoleChild
  <2>3. CASE x # d /\ y # d
    BY <2>2, <2>3 DEF OneSoleChild, Live
  <2>4. CASE x = d /\ y # d
    BY <2>1, <2>2, <2>4 DEF OnlyChild, Live
  <2>5. CASE x # d /\ y = d
    BY <2>1, <2>2, <2>5 DEF OnlyChild, Live
  <2> QED
    BY <2>3, <2>4, <2>5
<1>3. ASSUME NEW d \in Documents, NEW action \in Rules!ApprovalAction, Review(d, action)
      PROVE  OneSoleChild'
  <2>1. \A x \in Documents : entry'[x].parent = entry[x].parent /\ (Live(x)' => Live(x))
    BY <1>3 DEF Review, Live, VouchersTypeOK, Rules!ActionIsValidForStatus
  <2> QED
    BY <1>3, <2>1 DEF Review, OneSoleChild
<1>4. ASSUME NEW d \in Documents, Delete(d)
      PROVE  OneSoleChild'
  <2>1. \A x \in Documents : /\ documents'[x].entity = documents[x].entity
                             /\ Live(x)' => entry'[x] = entry[x] /\ Live(x)
    BY <1>4 DEF Delete, NoEntry, Live, VouchersTypeOK
  <2> QED
    BY <2>1 DEF OneSoleChild
<1> QED
  BY <1>1, <1>2, <1>3, <1>4 DEF VouchersNext

(* sale-fulfillment.ts 183-197, for every number of documents.              *)
THEOREM SoleChildren == Spec => []OneSoleChild
<1>1. Init => OneSoleChild /\ TypeOK /\ ActInv
  <2>1. VouchersInit => OneSoleChild
    BY DEF VouchersInit, NoEntry, OneSoleChild, Live
  <2> QED
    BY <2>1, Typed DEF Init
<1>2. TypeOK /\ ActInv /\ [Next]_vars => TypeOK' /\ ActInv'
  BY TypeStep
<1>3. OneSoleChild /\ TypeOK /\ ActInv /\ [Next]_vars => OneSoleChild'
  BY VoucherStep, VouchersSole DEF TypeOK
<1> QED
  BY <1>1, <1>2, <1>3, PTL DEF Spec

-------------------------------------------------------------------------------
(* Request keys.  A position that has made a child keeps the key of its     *)
(* latest one for good, so from then on createChild looks the key up.       *)
RequestInv ==
  /\ RequestBuildsOnce
  /\ \A c \in created : result[c.root][c.source][c.key].request # NoRequest

(* No step takes the request key out of a position.                         *)
LEMMA RequestsStay ==
  ASSUME TypeOK, ActInv, [Next]_vars,
         NEW x \in Documents, NEW n \in Documents, NEW k \in Keys,
         result[x][n][k].request # NoRequest
  PROVE  result'[x][n][k].request # NoRequest
<1>1. CASE UNCHANGED result
  BY <1>1
<1>2. ASSUME NEW d \in Documents, Reverse(d)
      PROVE  result'[x][n][k].request # NoRequest
  <2>1. CASE UNCHANGED result
    BY <2>1
  <2>2. CASE result' = [result EXCEPT ![d] = [m \in Documents |-> [j \in Keys |->
                         [result[d][m][j] EXCEPT !.active = FALSE]]]]
    <3>1. result'[x][n][k] = IF x = d THEN [result[x][n][k] EXCEPT !.active = FALSE]
                                      ELSE result[x][n][k]
      BY <2>2 DEF TypeOK
    <3>2. result[x][n][k] \in ResultRow
      BY DEF TypeOK
    <3> QED
      BY <3>1, <3>2 DEF ResultRow
  <2> QED
    BY <1>2, <2>1, <2>2 DEF Reverse
<1>3. ASSUME NEW r \in Documents, CreateChild(r)
      PROVE  result'[x][n][k].request # NoRequest
  <2>1. /\ act[r].node \in Documents /\ act[r].key \in Keys
        /\ act[r].request \in RequestKeys
    BY <1>3 DEF CreateChild, ActInv
  <2>2. PICK d \in Documents : result' = [result EXCEPT ![r][act[r].node][act[r].key] =
          [request |-> act[r].request, target |-> d, active |-> TRUE]]
    BY <1>3 DEF CreateChild
  <2> QED
    BY <2>1, <2>2 DEF TypeOK
<1>4. ASSUME NEW r \in Documents, CancelChild(r)
      PROVE  result'[x][n][k].request # NoRequest
  <2>1. result'[x][n][k] =
          IF result[x][n][k].target = act[r].node
          THEN [result[x][n][k] EXCEPT !.active = FALSE, !.target = NoDocument]
          ELSE result[x][n][k]
    BY <1>4 DEF CancelChild
  <2>2. result[x][n][k] \in ResultRow
    BY DEF TypeOK
  <2> QED
    BY <2>1, <2>2 DEF ResultRow
<1>5. ASSUME NEW d \in Documents, NEW action, Effects(d, action)
      PROVE  result'[x][n][k].request # NoRequest
  BY <1>1, <1>2, <1>5 DEF Effects
<1>6. CASE ReviewVoucher
  BY <1>5, <1>6 DEF ReviewVoucher
<1>7. ASSUME NEW r \in Documents, ReviewChild(r)
      PROVE  result'[x][n][k].request # NoRequest
  <2>1. act[r].node \in Documents /\ Effects(act[r].node, act[r].kind)
    BY <1>7 DEF ReviewChild, ActInv, NodeReview
  <2> QED
    BY <1>5, <2>1
<1>8. CASE UNCHANGED vars \/ SubmitVoucher \/ DeleteVoucher
  BY <1>1, <1>8 DEF vars, SubmitVoucher, DeleteVoucher, processVars
<1>9. ASSUME NEW r \in Documents, BeginCreate(r) \/ BeginReview(r) \/ GiveUp(r)
      PROVE  result'[x][n][k].request # NoRequest
  BY <1>1, <1>9 DEF BeginCreate, BeginReview, GiveUp
<1> QED
  BY <1>3, <1>4, <1>6, <1>7, <1>8, <1>9 DEF Next

LEMMA RequestStep ==
  ASSUME TypeOK, ActInv, RequestInv, [Next]_vars
  PROVE  RequestInv'
<1>0. \A c \in created : c.root \in Documents /\ c.source \in Documents /\ c.key \in Keys
  BY DEF TypeOK
<1>1. \A c \in created : result'[c.root][c.source][c.key].request # NoRequest
  BY <1>0, RequestsStay DEF RequestInv
<1>2. CASE UNCHANGED created
  BY <1>1, <1>2 DEF RequestInv, RequestBuildsOnce
<1>3. ASSUME NEW r \in Documents, CreateChild(r)
      PROVE  RequestInv'
  <2>1. /\ act[r].node \in Documents /\ act[r].key \in Keys
        /\ act[r].request \in RequestKeys
        /\ KeyFree(r, act[r].node, act[r].key, act[r].request)
    BY <1>3 DEF CreateChild, ActInv
  <2>2. PICK d \in Documents :
          /\ result' = [result EXCEPT ![r][act[r].node][act[r].key] =
                          [request |-> act[r].request, target |-> d, active |-> TRUE]]
          /\ created' = created \cup {[root |-> r, source |-> act[r].node, key |-> act[r].key,
                                       request |-> act[r].request, child |-> d]}
    BY <1>3 DEF CreateChild
  <2>3. result'[r][act[r].node][act[r].key].request # NoRequest
    BY <2>1, <2>2 DEF TypeOK
  <2>4. \A c \in created : ~ /\ c.root = r /\ c.source = act[r].node
                             /\ c.key = act[r].key /\ c.request = act[r].request
    BY <2>1 DEF KeyFree, RequestInv
  <2>5. RequestBuildsOnce'
    BY <2>2, <2>4 DEF RequestInv, RequestBuildsOnce
  <2>6. ASSUME NEW c \in created'
        PROVE  result'[c.root][c.source][c.key].request # NoRequest
    <3>1. CASE c \in created
      BY <1>1, <3>1
    <3>2. CASE c \notin created
      <4>1. c.root = r /\ c.source = act[r].node /\ c.key = act[r].key
        BY <2>2, <3>2
      <4> QED
        BY <2>3, <4>1
    <3> QED
      BY <3>1, <3>2
  <2> QED
    BY <2>5, <2>6 DEF RequestInv
<1>4. CASE ~ \E r \in Documents : CreateChild(r)
  <2>1. UNCHANGED created
    BY <1>4 DEF Next, vars, SubmitVoucher, ReviewVoucher, DeleteVoucher, processVars,
                BeginCreate, BeginReview, ReviewChild, CancelChild, GiveUp
  <2> QED
    BY <1>2, <2>1
<1> QED
  BY <1>3, <1>4

(* wfl.md 4: at one position a request key makes one child at most, also    *)
(* after the child has been cancelled and the position built anew.          *)
THEOREM RequestsBuildOnce == Spec => []RequestBuildsOnce
<1>1. Init => RequestInv /\ TypeOK /\ ActInv
  BY Typed DEF Init, RequestInv, RequestBuildsOnce
<1>2. TypeOK /\ ActInv /\ [Next]_vars => TypeOK' /\ ActInv'
  BY TypeStep
<1>3. RequestInv /\ TypeOK /\ ActInv /\ [Next]_vars => RequestInv'
  BY RequestStep
<1>4. RequestInv => RequestBuildsOnce
  BY DEF RequestInv
<1> QED
  BY <1>1, <1>2, <1>3, <1>4, PTL DEF Spec

-------------------------------------------------------------------------------
(* Positions.  OneChildPerPosition is not inductive: a new child must not be *)
(* held already (Known), the cancellation of a child must not switch off a   *)
(* position of another process (OneProcess), and a creation half way must    *)
(* find its position free and its root approved when it goes on (Underway),  *)
(* which is where the reversal's waiting is needed.                          *)

Quiet ==
  \A r \in Documents : ~ Started(r) =>
    /\ act[r] = NoAct
    /\ \A d \in Documents : ~ Held(r, d)
    /\ \A n \in Documents, k \in Keys : ~ result[r][n][k].active

RootNode ==
  \A r, d \in Documents : Held(r, d) /\ node[r][d].parent = NoDocument => d = r

Known ==
  \A r, d \in Documents : Held(r, d) => documents[d].entity # "none"

OneProcess ==
  \A r, x, c \in Documents : HeldChild(r, c) /\ HeldChild(x, c) => r = x

Positions ==
  \A r, n \in Documents, k \in Keys :
    Children(r, n, k) = IF result[r][n][k].active THEN {result[r][n][k].target} ELSE {}

Underway ==
  \A r \in Documents :
    /\ act[r].kind = "create" =>
         /\ Held(r, act[r].node) /\ Approved(r)
         /\ ~ result[r][act[r].node][act[r].key].active
    /\ act[r].kind \in NodeReview => HeldChild(r, act[r].node)

InstanceInv ==
  Quiet /\ RootNode /\ Known /\ OneProcess /\ Positions /\ Underway /\ OpenRootHoldsNothing

(* What a step of the vouchers does to the facts the processes rest on.     *)
LEMMA VoucherKnown ==
  ASSUME VouchersTypeOK, [VouchersNext]_voucherVars, NEW d \in Documents,
         documents[d].entity # "none"
  PROVE  documents'[d].entity # "none"
<1>1. CASE UNCHANGED voucherVars
  BY <1>1 DEF voucherVars
<1>2. ASSUME NEW x \in Documents, NEW e \in Entities,
             NEW p \in Documents \cup {NoDocument}, NEW ls \in SUBSET Documents,
             NEW trusted \in BOOLEAN, Submit(x, e, p, ls, trusted)
      PROVE  documents'[d].entity # "none"
  BY <1>2 DEF Submit, VouchersTypeOK
<1>3. ASSUME NEW x \in Documents, NEW action \in Rules!ApprovalAction, Review(x, action)
      PROVE  documents'[d].entity # "none"
  BY <1>3 DEF Review
<1>4. ASSUME NEW x \in Documents, Delete(x)
      PROVE  documents'[d].entity # "none"
  BY <1>4 DEF Delete, VouchersTypeOK
<1> QED
  BY <1>1, <1>2, <1>3, <1>4 DEF VouchersNext

(* Only an unapproval takes an approval away.                               *)
LEMMA ApprovalStays ==
  ASSUME VouchersTypeOK, NEW x \in Documents, Approved(x),
         \/ UNCHANGED voucherVars
         \/ \E d \in Documents, e \in Entities, p \in Documents \cup {NoDocument},
               ls \in SUBSET Documents, trusted \in BOOLEAN : Submit(d, e, p, ls, trusted)
         \/ \E d \in Documents, action \in Rules!ApprovalAction :
               Review(d, action) /\ ~ (d = x /\ action = "unapprove")
         \/ \E d \in Documents : Delete(d)
  PROVE  Approved(x)'
<1>1. CASE UNCHANGED voucherVars
  BY <1>1 DEF voucherVars, Approved
<1>2. ASSUME NEW d \in Documents, NEW e \in Entities,
             NEW p \in Documents \cup {NoDocument}, NEW ls \in SUBSET Documents,
             NEW trusted \in BOOLEAN, Submit(d, e, p, ls, trusted)
      PROVE  Approved(x)'
  BY <1>2 DEF Submit, Live, Approved, VouchersTypeOK
<1>3. ASSUME NEW d \in Documents, NEW action \in Rules!ApprovalAction, Review(d, action),
             ~ (d = x /\ action = "unapprove")
      PROVE  Approved(x)'
  BY <1>3 DEF Review, Approved, VouchersTypeOK, Rules!ActionIsValidForStatus
<1>4. ASSUME NEW d \in Documents, Delete(d)
      PROVE  Approved(x)'
  BY <1>4 DEF Delete, Approved, VouchersTypeOK
<1> QED
  BY <1>1, <1>2, <1>3, <1>4

(* A step that leaves the process tables alone, and takes no approval away, *)
(* keeps the invariant; it may end actions under way.                       *)
LEMMA AsideKeeps ==
  ASSUME InstanceInv, VouchersTypeOK, [VouchersNext]_voucherVars,
         UNCHANGED <<instance, node, result>>,
         \A x \in Documents : act'[x] = act[x] \/ act'[x] = NoAct,
         \A x \in Documents : Approved(x) => Approved(x)'
  PROVE  InstanceInv'
<1>1. Quiet' /\ RootNode' /\ OneProcess' /\ Positions'
  BY DEF InstanceInv, Quiet, RootNode, OneProcess, Positions, Started, Held, HeldChild,
         Children
<1>2. Known'
  BY VoucherKnown DEF InstanceInv, Known, Held
<1>3. Underway'
  BY DEF InstanceInv, Underway, Held, HeldChild, NoAct, NodeReview
<1>4. OpenRootHoldsNothing'
  BY DEF InstanceInv, OpenRootHoldsNothing, Started, Held, HeldChild
<1> QED
  BY <1>1, <1>2, <1>3, <1>4 DEF InstanceInv

(* The review of a document with what it does to the processes, alone or as *)
(* the end of a node action.                                                *)
LEMMA EffectsKeep ==
  ASSUME TypeOK, InstanceInv, NEW d \in Documents, NEW action \in Rules!ApprovalAction,
         Review(d, action), Effects(d, action),
         \A x \in Documents : act'[x] = act[x] \/ act'[x] = NoAct
  PROVE  InstanceInv'
<1>1. UNCHANGED documents
  BY DEF Review
<1>2. ASSUME NEW x \in Documents, Approved(x), ~ (x = d /\ action = "unapprove")
      PROVE  Approved(x)'
  BY <1>2, ApprovalStays DEF TypeOK
<1>3. CASE UNCHANGED <<instance, node, result>> /\ (action = "unapprove" => ~ Started(d))
  <2>1. Quiet' /\ RootNode' /\ OneProcess' /\ Positions' /\ Known'
    BY <1>1, <1>3 DEF InstanceInv, Quiet, RootNode, OneProcess, Positions, Started, Held,
                      HeldChild, Children, Known
  <2>2. ASSUME NEW r \in Documents, act'[r].kind # "none"
        PROVE  act'[r] = act[r] /\ Started(r)
    BY <2>2 DEF InstanceInv, Quiet, NoAct
  <2>3. Underway'
    BY <1>2, <1>3, <2>2 DEF InstanceInv, Underway, Held, HeldChild, NodeReview
  <2>4. OpenRootHoldsNothing'
    BY <1>2, <1>3 DEF InstanceInv, OpenRootHoldsNothing, Started, Held, HeldChild
  <2> QED
    BY <2>1, <2>3, <2>4 DEF InstanceInv
<1>4. CASE action = "unapprove" /\ Started(d)
  <2>1. /\ UNCHANGED <<instance, node>>
        /\ act[d] = NoAct
        /\ \A c \in Documents : ~ HeldChild(d, c)
        /\ result' = [result EXCEPT ![d] = [n \in Documents |-> [k \in Keys |->
                       [result[d][n][k] EXCEPT !.active = FALSE]]]]
    BY <1>4 DEF Effects, Reverse
  <2>2. /\ \A x \in Documents \ {d} : result'[x] = result[x]
        /\ \A n \in Documents, k \in Keys : result'[d][n][k] = [result[d][n][k] EXCEPT !.active = FALSE]
    BY <2>1 DEF TypeOK
  <2>3. ASSUME NEW n \in Documents, NEW k \in Keys
        PROVE  ~ result'[d][n][k].active
    <3>1. result[d][n][k] \in ResultRow
      BY DEF TypeOK
    <3>2. [result[d][n][k] EXCEPT !.active = FALSE].active = FALSE
      BY <3>1 DEF ResultRow
    <3> QED
      BY <2>2, <3>2
  <2>4. RootNode' /\ OneProcess' /\ Known'
    BY <1>1, <2>1 DEF InstanceInv, RootNode, OneProcess, Held, HeldChild, Known
  <2>5. Quiet'
    BY <2>1, <2>2, <2>3 DEF InstanceInv, Quiet, Started, Held
  <2>6. Positions'
    <3> SUFFICES ASSUME NEW r \in Documents, NEW n \in Documents, NEW k \in Keys
                 PROVE  Children(r, n, k)' = IF result'[r][n][k].active
                                             THEN {result'[r][n][k].target} ELSE {}
      BY DEF Positions
    <3>1. Children(r, n, k)' = Children(r, n, k)
      BY <2>1 DEF Children, Held
    <3>2. CASE r = d
      <4>1. Children(r, n, k) = {}
        BY <2>1, <3>2 DEF Children, HeldChild
      <4> QED
        BY <2>3, <3>1, <3>2, <4>1
    <3>3. CASE r # d
      BY <2>2, <3>1, <3>3 DEF InstanceInv, Positions
    <3> QED
      BY <3>2, <3>3
  <2>7. Underway'
    <3> SUFFICES ASSUME NEW r \in Documents
                 PROVE  /\ act'[r].kind = "create" =>
                             /\ Held(r, act[r].node)' /\ Approved(r)'
                             /\ ~ result'[r][act'[r].node][act'[r].key].active
                        /\ act'[r].kind \in NodeReview => HeldChild(r, act[r].node)'
      BY DEF Underway
    <3>1. CASE r = d
      BY <2>1, <3>1 DEF NoAct, NodeReview
    <3>2. CASE r # d
      BY <1>2, <2>1, <2>2, <3>2 DEF InstanceInv, Underway, Held, HeldChild, NoAct, NodeReview
    <3> QED
      BY <3>1, <3>2
  <2>8. OpenRootHoldsNothing'
    BY <1>2, <2>1 DEF InstanceInv, OpenRootHoldsNothing, Started, Held, HeldChild
  <2> QED
    BY <2>4, <2>5, <2>6, <2>7, <2>8 DEF InstanceInv
<1>5. CASE action = "approve" /\ ~ Started(d) /\ ~ UNCHANGED <<instance, node>>
  <2>1. UNCHANGED result
    BY <1>5 DEF Effects
  <2>2. PICK g \in Definitions :
          /\ g.entity[g.root] = documents[d].entity
          /\ instance' = [instance EXCEPT ![d] = g]
          /\ node' = [node EXCEPT ![d][d] = [key |-> g.root, parent |-> NoDocument,
                                            holds |-> TRUE]]
    BY <1>5 DEF Effects, Start
  <2>3. /\ \A x \in Documents \ {d} : instance'[x] = instance[x] /\ node'[x] = node[x]
        /\ \A c \in Documents \ {d} : node'[d][c] = node[d][c]
        /\ instance'[d] = g
        /\ node'[d][d].parent = NoDocument
    BY <2>2 DEF TypeOK
  <2>4. Started(d)' /\ documents[d].entity # "none"
    BY <2>2, <2>3 DEF Started
  <2>5. /\ act[d] = NoAct
        /\ \A c \in Documents : ~ Held(d, c)
        /\ \A n \in Documents, k \in Keys : ~ result[d][n][k].active
    BY <1>5 DEF InstanceInv, Quiet
  <2>6. \A r, c \in Documents : /\ HeldChild(r, c)' <=> HeldChild(r, c)
                                /\ HeldChild(r, c) => node'[r][c] = node[r][c]
    BY <2>3, <2>5 DEF HeldChild, Held
  <2>7. Quiet'
    BY <2>1, <2>3, <2>4 DEF InstanceInv, Quiet, Started, Held
  <2>8. RootNode' /\ Known' /\ OneProcess'
    BY <1>1, <2>3, <2>4, <2>6 DEF InstanceInv, RootNode, Known, OneProcess, Held
  <2>9. Positions'
    <3>1. ASSUME NEW r \in Documents, NEW n \in Documents, NEW k \in Keys
          PROVE  Children(r, n, k)' = Children(r, n, k)
      <4>1. \A c \in Documents : (Held(r, c) /\ node[r][c].parent = n)
                                => HeldChild(r, c)
        BY DEF HeldChild
      <4>2. \A c \in Documents : (Held(r, c)' /\ node'[r][c].parent = n)
                                => HeldChild(r, c)'
        BY DEF HeldChild
      <4>3. \A c \in Documents : c \in Children(r, n, k)' <=> c \in Children(r, n, k)
        BY <2>6, <4>1, <4>2 DEF Children, Held
      <4> QED
        BY <4>3 DEF Children
    <3> QED
      BY <2>1, <3>1 DEF InstanceInv, Positions
  <2>10. Underway'
    <3> SUFFICES ASSUME NEW r \in Documents
                 PROVE  /\ act'[r].kind = "create" =>
                             /\ Held(r, act[r].node)' /\ Approved(r)'
                             /\ ~ result'[r][act'[r].node][act'[r].key].active
                        /\ act'[r].kind \in NodeReview => HeldChild(r, act[r].node)'
      BY DEF Underway
    <3>1. CASE r = d
      BY <2>5, <3>1 DEF NoAct, NodeReview
    <3>2. CASE r # d
      BY <1>2, <1>5, <2>1, <2>3, <3>2 DEF InstanceInv, Underway, Held, HeldChild, NoAct,
                                          NodeReview
    <3> QED
      BY <3>1, <3>2
  <2>11. OpenRootHoldsNothing'
    <3> SUFFICES ASSUME NEW r \in Documents, Started(r)', ~ Approved(r)', NEW c \in Documents
                 PROVE  ~ HeldChild(r, c)
      BY <2>6 DEF OpenRootHoldsNothing
    <3>1. CASE r = d
      BY <2>5, <3>1 DEF HeldChild
    <3>2. CASE r # d
      BY <1>2, <2>3, <3>2 DEF InstanceInv, OpenRootHoldsNothing, Started
    <3> QED
      BY <3>1, <3>2
  <2> QED
    BY <2>7, <2>8, <2>9, <2>10, <2>11 DEF InstanceInv
<1> QED
  BY <1>3, <1>4, <1>5 DEF Effects, Start, Reverse

LEMMA BeginKeeps ==
  ASSUME TypeOK, InstanceInv, NEW r \in Documents, BeginCreate(r) \/ BeginReview(r)
  PROVE  InstanceInv'
<1>1. UNCHANGED <<documents, entry, instance, node, result>> /\ Idle(r)
  BY DEF BeginCreate, BeginReview
<1>2. \A x \in Documents \ {r} : act'[x] = act[x]
  BY DEF BeginCreate, BeginReview, TypeOK
<1>3. /\ RootNode' /\ Known' /\ OneProcess' /\ Positions' /\ OpenRootHoldsNothing'
      /\ Quiet'
  BY <1>1, <1>2 DEF InstanceInv, RootNode, Known, OneProcess, Positions, Quiet, Idle,
                    OpenRootHoldsNothing, Started, Held, HeldChild, Children, Approved
<1>4. CASE BeginCreate(r)
  <2>1. PICK n \in Documents, k \in Keys, q \in RequestKeys :
          /\ Held(r, n) /\ Approved(n)
          /\ ~ result[r][n][k].active
          /\ act' = [act EXCEPT ![r] = [NoAct EXCEPT !.kind = "create", !.node = n,
                                                    !.key = k, !.request = q]]
    BY <1>4 DEF BeginCreate
  <2>2. Approved(r)
    BY <1>1, <2>1 DEF InstanceInv, RootNode, OpenRootHoldsNothing, HeldChild, Idle
  <2>3. act'[r].kind = "create" /\ act'[r].node = n /\ act'[r].key = k
    BY <2>1 DEF TypeOK, NoAct
  <2>4. Underway'
    BY <1>1, <1>2, <2>1, <2>2, <2>3 DEF InstanceInv, Underway, Held, HeldChild, Approved,
                                        NodeReview
  <2> QED
    BY <1>3, <2>4 DEF InstanceInv
<1>5. CASE BeginReview(r)
  <2>1. PICK c \in Documents, kind \in NodeReview :
          /\ HeldChild(r, c)
          /\ act' = [act EXCEPT ![r] = [NoAct EXCEPT !.kind = kind, !.node = c,
                                                    !.stable = documents[c].stable,
                                                    !.revision = entry[c].revision]]
    BY <1>5 DEF BeginReview
  <2>2. act'[r].kind \in NodeReview /\ act'[r].node = c
    BY <2>1 DEF TypeOK, NoAct
  <2>3. Underway'
    BY <1>1, <1>2, <2>1, <2>2 DEF InstanceInv, Underway, Held, HeldChild, Approved,
                                  NodeReview
  <2> QED
    BY <1>3, <2>3 DEF InstanceInv
<1> QED
  BY <1>4, <1>5

LEMMA CreateKeeps ==
  ASSUME TypeOK, ActInv, InstanceInv, [VouchersNext]_voucherVars,
         NEW r \in Documents, CreateChild(r)
  PROVE  InstanceInv'
<1> DEFINE n == act[r].node
           k == act[r].key
<1>1. /\ n \in Documents /\ k \in Keys /\ act[r].kind = "create"
      /\ Held(r, n) /\ Approved(r) /\ ~ result[r][n][k].active /\ Started(r)
  BY DEF CreateChild, ActInv, InstanceInv, Underway, Quiet, NoAct
<1>2. PICK d \in Documents :
        /\ documents[d].entity = "none"
        /\ Submit(d, instance[r].entity[k], n, {}, TRUE)
        /\ node' = [node EXCEPT ![r][d] = [key |-> k, parent |-> n, holds |-> TRUE]]
        /\ result' = [result EXCEPT ![r][n][k] = [request |-> act[r].request, target |-> d,
                                                 active |-> TRUE]]
        /\ act' = [act EXCEPT ![r] = NoAct]
        /\ UNCHANGED instance
  BY DEF CreateChild, Done
<1>3. \A x \in Documents : ~ Held(x, d)
  BY <1>2 DEF InstanceInv, Known
<1>4. /\ ~ Live(d)
      /\ documents' = [documents EXCEPT ![d].entity = instance[r].entity[k]]
      /\ instance[r].entity[k] \in Entities
  <2>1. instance[r] \in Definitions
    BY <1>1 DEF Started, TypeOK
  <2> QED
    BY <1>1, <1>2, <2>1 DEF Submit
<1>5. \A x \in Documents : Approved(x) => Approved(x)'
  <2>1. n \in Documents \cup {NoDocument} /\ {} \in SUBSET Documents
    BY <1>1
  <2> QED
    BY <1>2, <1>4, <2>1, ApprovalStays DEF TypeOK
<1>6. /\ \A x, c \in Documents : ~ (x = r /\ c = d) => node'[x][c] = node[x][c]
      /\ node'[r][d].key = k /\ node'[r][d].parent = n /\ node'[r][d].holds
  BY <1>2 DEF TypeOK
<1>7. /\ \A x, m \in Documents, j \in Keys :
            ~ (x = r /\ m = n /\ j = k) => result'[x][m][j] = result[x][m][j]
      /\ result'[r][n][k].active /\ result'[r][n][k].target = d
  BY <1>1, <1>2 DEF TypeOK
<1>8. act'[r] = NoAct /\ \A x \in Documents \ {r} : act'[x] = act[x]
  BY <1>2 DEF TypeOK
<1>9. Known'
  <2>1. documents'[d].entity # "none"
    BY <1>4 DEF TypeOK, VouchersTypeOK
  <2>2. \A x, c \in Documents : Held(x, c)' => c = d \/ Held(x, c)
    BY <1>6 DEF Held
  <2> QED
    BY <2>1, <2>2, VoucherKnown DEF InstanceInv, Known, TypeOK
<1>10. Quiet'
  <2> SUFFICES ASSUME NEW x \in Documents, ~ Started(x)'
               PROVE  /\ act'[x] = NoAct
                      /\ \A c \in Documents : ~ Held(x, c)'
                      /\ \A m \in Documents, j \in Keys : ~ result'[x][m][j].active
    BY DEF Quiet
  <2>1. ~ Started(x) /\ x # r
    BY <1>1, <1>2 DEF Started
  <2>2. node'[x] = node[x] /\ result'[x] = result[x] /\ act'[x] = act[x]
    BY <1>2, <1>8, <2>1 DEF TypeOK
  <2> QED
    BY <2>1, <2>2 DEF InstanceInv, Quiet, Held
<1>11. \A x, c \in Documents : HeldChild(x, c)' <=> HeldChild(x, c) \/ (x = r /\ c = d)
  BY <1>1, <1>3, <1>6 DEF HeldChild, Held
<1>12. RootNode' /\ OneProcess'
  <2>1. RootNode'
    BY <1>1, <1>6 DEF InstanceInv, RootNode, Held
  <2>2. OneProcess'
    BY <1>3, <1>11 DEF InstanceInv, OneProcess, HeldChild
  <2> QED
    BY <2>1, <2>2
<1>13. Positions'
  <2> SUFFICES ASSUME NEW x \in Documents, NEW m \in Documents, NEW j \in Keys
               PROVE  Children(x, m, j)' = IF result'[x][m][j].active
                                           THEN {result'[x][m][j].target} ELSE {}
    BY DEF Positions
  <2>1. Children(x, m, j) = IF result[x][m][j].active THEN {result[x][m][j].target} ELSE {}
    BY DEF InstanceInv, Positions
  <2>2. CASE x = r /\ m = n /\ j = k
    <3>1. Children(x, m, j) = {}
      BY <1>1, <2>1, <2>2
    <3>2. Children(x, m, j)' = {d}
      BY <1>6, <2>2, <3>1 DEF Children, Held
    <3> QED
      BY <1>7, <2>2, <3>2
  <2>3. CASE ~ (x = r /\ m = n /\ j = k)
    <3>1. Children(x, m, j)' = Children(x, m, j)
      BY <1>3, <1>6, <2>3 DEF Children, Held
    <3>2. result'[x][m][j] = result[x][m][j]
      BY <1>7, <2>3
    <3> QED
      BY <2>1, <3>1, <3>2
  <2> QED
    BY <2>2, <2>3
<1>14. Underway'
  <2> SUFFICES ASSUME NEW x \in Documents, x # r
               PROVE  /\ act'[x].kind = "create" =>
                           /\ Held(x, act[x].node)' /\ Approved(x)'
                           /\ ~ result'[x][act'[x].node][act'[x].key].active
                      /\ act'[x].kind \in NodeReview => HeldChild(x, act[x].node)'
    BY <1>8 DEF Underway, NoAct, NodeReview
  <2>1. node'[x] = node[x] /\ result'[x] = result[x] /\ act'[x] = act[x]
    BY <1>2, <1>8 DEF TypeOK
  <2> QED
    BY <1>5, <2>1 DEF InstanceInv, Underway, Held, HeldChild
<1>15. OpenRootHoldsNothing'
  BY <1>1, <1>2, <1>5, <1>11 DEF InstanceInv, OpenRootHoldsNothing, Started
<1> QED
  BY <1>9, <1>10, <1>12, <1>13, <1>14, <1>15 DEF InstanceInv

LEMMA CancelKeeps ==
  ASSUME TypeOK, ActInv, InstanceInv, [VouchersNext]_voucherVars,
         NEW r \in Documents, CancelChild(r)
  PROVE  InstanceInv'
<1> DEFINE c == act[r].node
<1>1. /\ c \in Documents /\ act[r].kind = "cancel"
      /\ HeldChild(r, c) /\ Delete(c) /\ Started(r)
  <2>1. act[r].kind = "cancel" /\ Delete(c)
    BY DEF CancelChild
  <2>2. c \in Documents /\ HeldChild(r, c)
    BY <2>1 DEF ActInv, InstanceInv, Underway, NodeReview
  <2>3. Started(r)
    BY <2>1 DEF InstanceInv, Quiet, NoAct
  <2> QED
    BY <2>1, <2>2, <2>3
<1>2. /\ act' = [act EXCEPT ![r] = NoAct]
      /\ UNCHANGED instance
      /\ node' = [node EXCEPT ![r][c].holds = FALSE]
      /\ result' = [x \in Documents |-> [n \in Documents |-> [k \in Keys |->
                     IF result[x][n][k].target = c
                     THEN [result[x][n][k] EXCEPT !.active = FALSE, !.target = NoDocument]
                     ELSE result[x][n][k]]]]
  BY DEF CancelChild, Done
<1>3. \A x \in Documents : Approved(x) => Approved(x)'
  BY <1>1, ApprovalStays DEF TypeOK
<1>4. /\ act'[r] = NoAct
      /\ \A x \in Documents \ {r} : act'[x] = act[x] /\ node'[x] = node[x]
      /\ \A d \in Documents \ {c} : node'[r][d] = node[r][d]
  BY <1>1, <1>2 DEF TypeOK
<1>5. /\ ~ node'[r][c].holds
      /\ node'[r][c].parent = node[r][c].parent
      /\ node'[r][c].key = node[r][c].key
  <2>1. c \in Documents
    BY <1>1
  <2>2. node[r] \in [Documents -> NodeRow] /\ node[r][c] \in NodeRow
    BY <2>1 DEF TypeOK
  <2>3. node'[r][c] = [node[r][c] EXCEPT !.holds = FALSE]
    BY <1>2, <2>1, <2>2 DEF TypeOK
  <2> QED
    BY <2>2, <2>3 DEF NodeRow
<1>6. /\ \A x, d \in Documents : node'[x][d].parent = node[x][d].parent
                               /\ node'[x][d].key = node[x][d].key
      /\ \A x, d \in Documents : Held(x, d)' <=> Held(x, d) /\ ~ (x = r /\ d = c)
  <2> SUFFICES ASSUME NEW x \in Documents, NEW d \in Documents
               PROVE  /\ node'[x][d].parent = node[x][d].parent
                      /\ node'[x][d].key = node[x][d].key
                      /\ Held(x, d)' <=> Held(x, d) /\ ~ (x = r /\ d = c)
    OBVIOUS
  <2>1. CASE x = r /\ d = c
    BY <1>5, <2>1 DEF Held
  <2>2. CASE ~ (x = r /\ d = c)
    BY <1>4, <2>2 DEF Held
  <2> QED
    BY <2>1, <2>2
<1>7. ASSUME NEW x \in Documents, NEW n \in Documents, NEW k \in Keys
      PROVE  IF result[x][n][k].target = c THEN ~ result'[x][n][k].active
                                           ELSE result'[x][n][k] = result[x][n][k]
  <2>1. result'[x][n][k] =
          IF result[x][n][k].target = c
          THEN [result[x][n][k] EXCEPT !.active = FALSE, !.target = NoDocument]
          ELSE result[x][n][k]
    BY <1>2
  <2>2. result[x][n][k] \in ResultRow
    BY DEF TypeOK
  <2>3. [result[x][n][k] EXCEPT !.active = FALSE, !.target = NoDocument].active = FALSE
    BY <2>2 DEF ResultRow
  <2> QED
    BY <2>1, <2>3
<1>8. RootNode' /\ OneProcess'
  BY <1>6 DEF InstanceInv, RootNode, OneProcess, HeldChild
<1>9. Known'
  BY <1>6, VoucherKnown DEF InstanceInv, Known, TypeOK
<1>10. Quiet'
  <2> SUFFICES ASSUME NEW x \in Documents, ~ Started(x)'
               PROVE  /\ act'[x] = NoAct
                      /\ \A d \in Documents : ~ Held(x, d)'
                      /\ \A n \in Documents, k \in Keys : ~ result'[x][n][k].active
    BY DEF Quiet
  <2>1. ~ Started(x) /\ x # r
    BY <1>1, <1>2 DEF Started
  <2>2. \A n \in Documents, k \in Keys : ~ result'[x][n][k].active
    <3>1. \A n \in Documents, k \in Keys : ~ result[x][n][k].active
      BY <2>1 DEF InstanceInv, Quiet
    <3> QED
      BY <1>7, <3>1
  <2> QED
    BY <1>4, <1>6, <2>1, <2>2 DEF InstanceInv, Quiet
<1>11. Positions'
  <2> SUFFICES ASSUME NEW x \in Documents, NEW n \in Documents, NEW k \in Keys
               PROVE  Children(x, n, k)' = IF result'[x][n][k].active
                                           THEN {result'[x][n][k].target} ELSE {}
    BY DEF Positions
  <2>1. Children(x, n, k) = IF result[x][n][k].active THEN {result[x][n][k].target} ELSE {}
    BY DEF InstanceInv, Positions
  <2>2. Children(x, n, k)' = IF x = r THEN Children(x, n, k) \ {c} ELSE Children(x, n, k)
    BY <1>6 DEF Children
  <2>3. CASE result[x][n][k].target = c /\ result[x][n][k].active
    <3>1. Children(x, n, k) = {c}
      BY <2>1, <2>3
    <3>2. HeldChild(x, c)
      BY <3>1 DEF Children, HeldChild
    <3>3. x = r
      BY <1>1, <3>2 DEF InstanceInv, OneProcess
    <3>4. ~ result'[x][n][k].active
      BY <1>7, <2>3
    <3> QED
      BY <2>2, <3>1, <3>3, <3>4
  <2>4. CASE ~ result[x][n][k].active
    <3>1. ~ result'[x][n][k].active
      BY <1>7, <2>4
    <3> QED
      BY <2>1, <2>2, <2>4, <3>1
  <2>5. CASE result[x][n][k].target # c /\ result[x][n][k].active
    <3>1. result'[x][n][k] = result[x][n][k]
      BY <1>7, <2>5
    <3> QED
      BY <2>1, <2>2, <2>5, <3>1
  <2> QED
    BY <2>3, <2>4, <2>5
<1>12. Underway'
  <2> SUFFICES ASSUME NEW x \in Documents, x # r
               PROVE  /\ act'[x].kind = "create" =>
                           /\ Held(x, act[x].node)' /\ Approved(x)'
                           /\ ~ result'[x][act'[x].node][act'[x].key].active
                      /\ act'[x].kind \in NodeReview => HeldChild(x, act[x].node)'
    BY <1>4 DEF Underway, NoAct, NodeReview
  <2>1. node'[x] = node[x] /\ act'[x] = act[x]
    BY <1>4
  <2>2. ASSUME act[x].kind = "create"
        PROVE  ~ result'[x][act[x].node][act[x].key].active
    <3>1. act[x].node \in Documents /\ act[x].key \in Keys
      BY <2>2 DEF ActInv
    <3>2. ~ result[x][act[x].node][act[x].key].active
      BY <2>2 DEF InstanceInv, Underway
    <3> QED
      BY <1>7, <3>1, <3>2
  <2> QED
    BY <1>3, <2>1, <2>2 DEF InstanceInv, Underway, Held, HeldChild
<1>13. OpenRootHoldsNothing'
  <2> SUFFICES ASSUME NEW x \in Documents, Started(x)', ~ Approved(x)', NEW d \in Documents
               PROVE  ~ HeldChild(x, d)'
    BY DEF OpenRootHoldsNothing
  <2>1. ~ HeldChild(x, d)
    BY <1>2, <1>3 DEF InstanceInv, OpenRootHoldsNothing, Started
  <2> QED
    BY <1>6, <2>1 DEF HeldChild
<1> QED
  BY <1>8, <1>9, <1>10, <1>11, <1>12, <1>13 DEF InstanceInv

LEMMA InstanceStep ==
  ASSUME TypeOK, ActInv, InstanceInv, [Next]_vars
  PROVE  InstanceInv'
<1>0. [VouchersNext]_voucherVars /\ VouchersTypeOK
  BY VoucherStep DEF TypeOK
<1>1. CASE UNCHANGED vars
  <2>1. \A x \in Documents : Approved(x) => Approved(x)'
    BY <1>1 DEF vars, Approved
  <2> QED
    BY <1>0, <1>1, <2>1, AsideKeeps DEF vars
<1>2. CASE SubmitVoucher \/ DeleteVoucher
  <2>1. UNCHANGED <<instance, node, result, act>>
    BY <1>2 DEF SubmitVoucher, DeleteVoucher, processVars
  <2>2. \A x \in Documents : Approved(x) => Approved(x)'
    BY <1>0, <1>2, ApprovalStays DEF SubmitVoucher, DeleteVoucher
  <2> QED
    BY <1>0, <2>1, <2>2, AsideKeeps
<1>3. CASE ReviewVoucher
  <2>1. PICK d \in Documents, action \in Rules!ApprovalAction :
          Review(d, action) /\ Effects(d, action) /\ UNCHANGED act
    BY <1>3 DEF ReviewVoucher
  <2> QED
    BY <2>1, EffectsKeep
<1>4. ASSUME NEW r \in Documents, BeginCreate(r) \/ BeginReview(r)
      PROVE  InstanceInv'
  BY <1>4, BeginKeeps
<1>5. ASSUME NEW r \in Documents, CreateChild(r)
      PROVE  InstanceInv'
  BY <1>0, <1>5, CreateKeeps
<1>6. ASSUME NEW r \in Documents, ReviewChild(r)
      PROVE  InstanceInv'
  <2>1. /\ act[r].node \in Documents /\ act[r].kind \in Rules!ApprovalAction
        /\ Review(act[r].node, act[r].kind) /\ Effects(act[r].node, act[r].kind)
    BY <1>6 DEF ReviewChild, ActInv, NodeReview, Rules!ApprovalAction
  <2>2. \A x \in Documents : act'[x] = act[x] \/ act'[x] = NoAct
    BY <1>6 DEF ReviewChild, Done, TypeOK
  <2> QED
    BY <2>1, <2>2, EffectsKeep
<1>7. ASSUME NEW r \in Documents, CancelChild(r)
      PROVE  InstanceInv'
  BY <1>0, <1>7, CancelKeeps
<1>8. ASSUME NEW r \in Documents, GiveUp(r)
      PROVE  InstanceInv'
  <2>1. /\ UNCHANGED <<documents, entry, instance, node, result>>
        /\ \A x \in Documents : act'[x] = act[x] \/ act'[x] = NoAct
    BY <1>8 DEF GiveUp, Done, TypeOK
  <2>2. \A x \in Documents : Approved(x) => Approved(x)'
    BY <2>1 DEF Approved
  <2> QED
    BY <1>0, <2>1, <2>2, AsideKeeps
<1> QED
  BY <1>1, <1>2, <1>3, <1>4, <1>5, <1>6, <1>7, <1>8 DEF Next

(* The tables of results and of nodes agree at every position, and a root   *)
(* that is not approved holds no children, whatever else the users and the  *)
(* other processes do.                                                      *)
THEOREM PositionsHoldOneChild == Spec => [](OneChildPerPosition /\ OpenRootHoldsNothing)
<1>1. Init => InstanceInv /\ TypeOK /\ ActInv
  <2>1. Init => InstanceInv
    BY DEF Init, InstanceInv, Quiet, RootNode, Known, OneProcess, Positions, Underway,
           OpenRootHoldsNothing, Started, Held, HeldChild, Children, NoNode, NoResult, NoAct,
           NodeReview
  <2> QED
    BY <2>1, Typed
<1>2. TypeOK /\ ActInv /\ [Next]_vars => TypeOK' /\ ActInv'
  BY TypeStep
<1>3. InstanceInv /\ TypeOK /\ ActInv /\ [Next]_vars => InstanceInv'
  BY InstanceStep
<1>4. InstanceInv => OneChildPerPosition /\ OpenRootHoldsNothing
  BY DEF InstanceInv, Positions, OneChildPerPosition
<1> QED
  BY <1>1, <1>2, <1>3, <1>4, PTL DEF Spec

(* wfl.md: the reversal of a root leaves nothing of its process behind, and *)
(* nothing is added to a process whose root is open (Reverse).              *)
THEOREM OpenRootsHoldNothing == Spec => []OpenRootHoldsNothing
  BY PositionsHoldOneChild, PTL

===============================================================================
