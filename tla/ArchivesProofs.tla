---------------------------- MODULE ArchivesProofs ----------------------------
(***************************************************************************)
(* Proofs about the archives for any subjects, ids, keys and reviewers, in   *)
(* three parts.                                                              *)
(*                                                                           *)
(* Archives: the inductive invariant is TypeOK, HeadersMatchEntries,         *)
(* OneOpenVersion and VersionsNumbered together; numbers can only be reused  *)
(* safely because the open version is always the highest one.                *)
(*                                                                           *)
(* ArchivesRefinement: every step of the archives is a step of               *)
(* FormalVersions or changes nothing its readers see.                        *)
(*                                                                           *)
(* ArchiveTransactions: every commit is a whole operation of Archives, so    *)
(* all that is proved of Archives holds of the transactions, and the locks   *)
(* are never waited for in a circle.  Each check that a transaction has made *)
(* stays true until it commits (the "Stands" below): whoever could make it   *)
(* false needs a lock that the transaction holds.                            *)
(***************************************************************************)
EXTENDS ArchiveTransactions, ArchivesRefinement, FiniteSums

USE ApprovalAssumption, ArchivesAssumption

(* nextMetadata and create: a decided transition turns a row into a row; a   *)
(* new entry is a row, and so is the absence of one.                         *)
LEMMA EntriesSound ==
  /\ AbsentEntry \in Row /\ AbsentEntry \notin Entry /\ AbsentEntry.status = "ABSENT"
  /\ \A actor \in Users : NewEntry(actor) \in Entry /\ NewEntry(actor).status = "PENDING"
  /\ \A e \in Row, action \in ApprovalAction, actor \in Users : \A revision, reason :
       DecideApproval(e, action, actor, revision, reason) => NextEntry(e, action, actor) \in Entry
<1>1. /\ AbsentEntry \in Row /\ AbsentEntry \notin Entry /\ AbsentEntry.status = "ABSENT"
      /\ \A actor \in Users : NewEntry(actor) \in Entry /\ NewEntry(actor).status = "PENDING"
  BY DEF AbsentEntry, NewEntry, Row, Entry, ApprovalStatus
<1>2. ASSUME NEW e \in Row, NEW action \in ApprovalAction, NEW actor \in Users,
             NEW revision, NEW reason, DecideApproval(e, action, actor, revision, reason)
      PROVE  NextEntry(e, action, actor) \in Entry
  <2>1. e \in Entry
    BY <1>2 DEF DecideApproval, ActionIsValidForStatus, Row, AbsentEntry
  <2>2. e.revision + 1 \in Nat \ {0}
    BY <2>1 DEF Entry
  <2> QED
    BY <2>1, <2>2 DEF NextEntry, TargetStatus, Entry, ApprovalStatus, ApprovalAction
<1> QED
  BY <1>1, <1>2

(* Every request a client can send is a well-formed request.                *)
LEMMA InsertTyped ==
  ASSUME TypeOK, NEW k \in IdempotencyKeys, NEW r \in Request,
         NEW n \in Nat \ {0}, NEW actor \in Users, InsertVersion(k, r, n, actor)
  PROVE  /\ entry' \in [SubmissionIds -> Row]
         /\ header' \in [SubmissionIds -> Header \cup {NoHeader}]
         /\ response' \in [IdempotencyKeys -> Request \cup {NoResponse}]
<1>1. NewEntry(actor) \in Row
  BY EntriesSound DEF Row
<1>2. [subject |-> r.subject, versionNo |-> n, key |-> r.key,
       material |-> r.material, materialOf |-> r.materialOf] \in Header
  BY DEF Request, Header
<1>3. QED
  BY <1>1, <1>2 DEF TypeOK, InsertVersion

(* A reviewed row is a well-formed row; nothing else changes.               *)
LEMMA WriteTyped ==
  ASSUME TypeOK, NEW i \in SubmissionIds, NEW action \in ApprovalAction,
         NEW actor \in Users, NEW revision, NEW reason,
         DecideApproval(entry[i], action, actor, revision, reason),
         Write(i, action, actor)
  PROVE  TypeOK'
<1>1. entry[i] \in Row
  BY DEF TypeOK
<1>2. NextEntry(entry[i], action, actor) \in Row
  BY <1>1, EntriesSound DEF Row
<1>3. QED
  BY <1>2 DEF TypeOK, Write, subjectVars

(* The next version of a subject has a number, whatever the last one was.   *)
LEMMA NextNumberTyped ==
  ASSUME TypeOK, NEW i \in SubmissionIds
  PROVE  header[i].versionNo \in Nat /\ header[i].versionNo + 1 \in Nat \ {0}
BY DEF TypeOK, Header, NoHeader

(* What Submit sends is a request.                                          *)
LEMMA SubmitIsRequest ==
  ASSUME TypeOK, Submit
  PROVE  \E k \in IdempotencyKeys, r \in Request, u \in Users :
           SubmitNew(k, r, u) \/ SubmitChange(k, r, u)
<1>1. PICK k \in IdempotencyKeys, s \in Subjects, i \in SubmissionIds,
           key \in BusinessKeys \cup {NoKey},
           m \in (IF FormulaPins THEN SubmissionIds ELSE {}) \cup {NoSubmission},
           u \in Users :
        \/ SubmitNew(k, Requested("submit-new", s, i, key, m, NoSubmission, 0), u)
        \/ \E x \in SubmissionIds, xr \in 1..MaxRevision :
             SubmitChange(k, Requested("submit-change", s, i, key, m, x, xr), u)
  BY DEF Submit
<1>2. (IF m = NoSubmission THEN NoSubject ELSE header[m].subject)
        \in Subjects \cup {NoSubject}
  BY DEF TypeOK, Header, NoHeader
<1>3. ASSUME NEW action \in SubmitAction, NEW x \in SubmissionIds \cup {NoSubmission},
             NEW xr \in Nat
      PROVE  Requested(action, s, i, key, m, x, xr) \in Request
  BY <1>2 DEF Requested, Request
<1>4. QED
  BY <1>1, <1>3 DEF SubmitAction

(* The initial state is typed.                                              *)
LEMMA InitTyped == Init => TypeOK
<1> SUFFICES ASSUME Init PROVE TypeOK
  OBVIOUS
<1>1. QED
  BY EntriesSound DEF Init, TypeOK

(* Every step keeps the types.                                              *)
LEMMA NextTyped == TypeOK /\ [Next]_vars => TypeOK'
<1> SUFFICES ASSUME TypeOK, [Next]_vars PROVE TypeOK'
  OBVIOUS
<1>1. ASSUME NEW k \in IdempotencyKeys, NEW r \in Request, NEW u \in Users,
             SubmitNew(k, r, u)
      PROVE  TypeOK'
  <2>1. r.subject \in Subjects
    BY DEF Request
  <2>2. /\ entry' \in [SubmissionIds -> Row]
        /\ header' \in [SubmissionIds -> Header \cup {NoHeader}]
        /\ response' \in [IdempotencyKeys -> Request \cup {NoResponse}]
    BY <1>1, InsertTyped DEF SubmitNew
  <2>3. /\ code' \in [Subjects -> Nat] /\ nextCode' \in Nat \ {0}
        /\ enabled' \in [Subjects -> BOOLEAN]
        /\ objectRevision' \in [Subjects -> Nat]
    BY <1>1, <2>1 DEF SubmitNew, TypeOK, CreateSubject
  <2>4. QED
    BY <2>2, <2>3 DEF TypeOK
<1>2. ASSUME NEW k \in IdempotencyKeys, NEW r \in Request, NEW u \in Users,
             SubmitChange(k, r, u)
      PROVE  TypeOK'
  <2>1. header[r.expectedId].versionNo + 1 \in Nat \ {0}
    BY <1>2, NextNumberTyped DEF SubmitChange, NextVersion
  <2>2. /\ entry' \in [SubmissionIds -> Row]
        /\ header' \in [SubmissionIds -> Header \cup {NoHeader}]
        /\ response' \in [IdempotencyKeys -> Request \cup {NoResponse}]
    BY <1>2, <2>1, InsertTyped DEF SubmitChange
  <2>3. QED
    BY <1>2, <2>2 DEF SubmitChange, TypeOK, subjectVars
<1>3. ASSUME NEW i \in SubmissionIds, NEW u \in Users, NEW revision,
             NEW reason,
             \/ Approve(i, u, revision)
             \/ Reject(i, u, revision, reason)
             \/ Unreject(i, u, revision)
             \/ Unapprove(i, u, revision, reason)
      PROVE  TypeOK'
  BY <1>3, WriteTyped DEF Approve, Reject, Unreject, Unapprove, ApprovalAction
<1>4. ASSUME NEW i \in SubmissionIds, NEW u \in Users, NEW revision,
             Delete(i, u, revision)
      PROVE  TypeOK'
  BY <1>4, EntriesSound DEF Delete, TypeOK, subjectVars, RemoveVersion
<1>5. ASSUME NEW s \in Subjects, NEW value \in BOOLEAN, NEW revision,
             SetEnabled(s, value, revision)
      PROVE  TypeOK'
  BY <1>5 DEF SetEnabled, TypeOK, WriteEnablement
<1>6. CASE UNCHANGED vars
  BY <1>6 DEF vars, TypeOK
<1>7. QED
  BY <1>1, <1>2, <1>3, <1>4, <1>5, <1>6, SubmitIsRequest DEF Next, Review

(* Types hold in every reachable state.                                     *)
THEOREM ArchivesTypeCorrect == Spec => []TypeOK
BY InitTyped, NextTyped, PTL DEF Spec
-------------------------------------------------------------------------------
VersionInv == HeadersMatchEntries /\ OneOpenVersion /\ VersionsNumbered

(* What a header and a status say of each other in a typed, matched state.  *)
LEMMA RowFacts ==
  ASSUME TypeOK, HeadersMatchEntries, NEW i \in SubmissionIds
  PROVE  /\ header[i].subject \in Subjects \cup {NoSubject}
         /\ header[i].versionNo \in Nat
         /\ Present(entry[i]) <=> header[i].subject \in Subjects
         /\ header[i].subject \in Subjects => header[i].versionNo # 0
         /\ Present(entry[i]) <=> IsApproved(i) \/ Open(i)
         /\ ~(IsApproved(i) /\ Open(i))
<1>1. header[i] \in Header \cup {NoHeader} /\ entry[i] \in Row
  BY DEF TypeOK
<1>2. Present(entry[i]) <=> header[i] # NoHeader
  BY DEF HeadersMatchEntries
<1>3. Present(entry[i]) <=> IsApproved(i) \/ Open(i)
  BY <1>1 DEF Present, IsApproved, Open, IsOpen, Row, Entry, AbsentEntry,
     ApprovalStatus
<1>4. ~(IsApproved(i) /\ Open(i))
  BY DEF IsApproved, Open, IsOpen
<1>5. QED
  BY <1>1, <1>2, <1>3, <1>4 DEF Header, NoHeader

(* A new open version above all the approved versions of its subject.       *)
LEMMA InsertKeeps ==
  ASSUME TypeOK, VersionInv, NEW k \in IdempotencyKeys, NEW r \in Request,
         NEW n \in Nat \ {0}, NEW u \in Users, InsertVersion(k, r, n, u),
         \A j \in Versions(r.subject) : IsApproved(j) /\ header[j].versionNo < n,
         n > 1 => \E j \in Versions(r.subject) : header[j].versionNo = n - 1,
         code'[r.subject] # 0,
         \A s \in Subjects : code[s] # 0 => code'[s] # 0
  PROVE  VersionInv'
<1> DEFINE new == r.submission
<1>1. /\ new \in SubmissionIds /\ r.subject \in Subjects
      /\ entry \in [SubmissionIds -> Row]
      /\ header \in [SubmissionIds -> Header \cup {NoHeader}]
  BY DEF Request, TypeOK
<1>2. HeadersMatchEntries /\ OneOpenVersion /\ VersionsNumbered
  BY DEF VersionInv
<1>3. /\ ~Present(entry[new])
      /\ header[new].subject = NoSubject /\ ~IsApproved(new) /\ ~Open(new)
  BY <1>1, <1>2, RowFacts DEF InsertVersion, AbsentEntry, Present
<1>4. /\ header'[new].subject = r.subject /\ header'[new].versionNo = n
      /\ header'[new] # NoHeader
      /\ Present(entry'[new]) /\ ~IsApproved(new)' /\ Open(new)'
  BY <1>1 DEF InsertVersion, NewEntry, NoHeader, Present, IsApproved, Open, IsOpen
<1>5. \A j \in SubmissionIds : j # new => header'[j] = header[j] /\ entry'[j] = entry[j]
  BY <1>1 DEF InsertVersion
<1>6. \A j \in SubmissionIds : j # new =>
         /\ IsApproved(j)' <=> IsApproved(j)
         /\ Open(j)' <=> Open(j)
  BY <1>5 DEF IsApproved, Open
<1>7. \A j \in SubmissionIds : j # new /\ header'[j].subject = r.subject =>
         IsApproved(j) /\ ~Open(j) /\ header'[j].versionNo < n
  BY <1>1, <1>2, <1>5, RowFacts DEF Versions
<1>8. HeadersMatchEntries'
  <2>1. \A j \in SubmissionIds : j # new /\ Present(entry[j]) =>
           code'[header[j].subject] # 0
    BY <1>2, RowFacts DEF HeadersMatchEntries
  <2>2. QED
    BY <1>2, <1>4, <1>5, <2>1 DEF HeadersMatchEntries
<1>9. OneOpenVersion'
  BY <1>2, <1>4, <1>5, <1>6, <1>7 DEF OneOpenVersion
<1>10. \A j \in SubmissionIds : \A l \in SubmissionIds :
          Present(entry'[j]) /\ l # j /\ header'[l].subject = header'[j].subject
            => header'[l].versionNo # header'[j].versionNo
  <2>1. \A l \in SubmissionIds : l # new /\ header'[l].subject = r.subject =>
           header'[l].versionNo # n
    BY <1>1, <1>2, <1>5, <1>7, RowFacts
  <2>2. QED
    BY <1>2, <1>4, <1>5, <2>1 DEF VersionsNumbered
<1>11. \A j \in SubmissionIds : Present(entry'[j]) /\ header'[j].versionNo > 1 =>
          \E l \in SubmissionIds : /\ header'[l].subject = header'[j].subject
                                   /\ IsApproved(l)'
                                   /\ header'[l].versionNo = header'[j].versionNo - 1
  <2>1. CASE n > 1
    <3>1. PICK l \in Versions(r.subject) : header[l].versionNo = n - 1
      BY <2>1
    <3>2. l # new /\ l \in SubmissionIds /\ IsApproved(l)'
      BY <1>1, <1>3, <1>6 DEF Versions
    <3>3. QED
      BY <1>2, <1>3, <1>4, <1>5, <1>6, <3>1, <3>2 DEF VersionsNumbered, Versions
  <2>2. CASE ~(n > 1)
    BY <1>2, <1>3, <1>4, <1>5, <1>6, <2>2 DEF VersionsNumbered
  <2>3. QED
    BY <2>1, <2>2
<1>12. QED
  BY <1>8, <1>9, <1>10, <1>11 DEF VersionInv, VersionsNumbered

(* A review that leaves the row open, or closes it.                         *)
LEMMA ReviewKeeps ==
  ASSUME TypeOK, VersionInv, NEW i \in SubmissionIds,
         Open(i), Present(entry'[i]),
         entry' = [entry EXCEPT ![i] = entry'[i]], UNCHANGED <<code, header>>
  PROVE  VersionInv'
<1>1. HeadersMatchEntries /\ OneOpenVersion /\ VersionsNumbered
  BY DEF VersionInv
<1>2. \A j \in SubmissionIds : j # i => entry'[j] = entry[j]
  BY DEF TypeOK
<1>3. ~IsApproved(i) /\ Present(entry[i])
  BY <1>1, RowFacts
<1>4. \A j \in SubmissionIds :
        /\ Present(entry'[j]) <=> Present(entry[j])
        /\ IsApproved(j) => IsApproved(j)'
        /\ Open(j)' => Open(j)
  BY <1>2, <1>3 DEF IsApproved, Open
<1>5. QED
  BY <1>1, <1>4 DEF VersionInv, HeadersMatchEntries, OneOpenVersion,
     VersionsNumbered

(* Going back to PENDING is only safe for the latest approved version when  *)
(* nothing is open beside it.                                               *)
LEMMA UnapproveKeeps ==
  ASSUME TypeOK, VersionInv, NEW i \in SubmissionIds,
         LatestApproved(header[i].subject, i), NoOpenVersion(header[i].subject),
         Open(i)', entry' = [entry EXCEPT ![i] = entry'[i]],
         UNCHANGED <<code, header>>
  PROVE  VersionInv'
<1>1. HeadersMatchEntries /\ OneOpenVersion /\ VersionsNumbered
  BY DEF VersionInv
<1>2. \A j \in SubmissionIds : j # i => entry'[j] = entry[j]
  BY DEF TypeOK
<1>3. IsApproved(i) /\ Present(entry[i]) /\ Present(entry'[i]) /\ ~IsApproved(i)'
  BY <1>1, RowFacts DEF LatestApproved, Present, IsApproved, Open, IsOpen
<1>4. \A j \in SubmissionIds :
        /\ Present(entry'[j]) <=> Present(entry[j])
        /\ j # i => (IsApproved(j)' <=> IsApproved(j)) /\ (Open(j)' <=> Open(j))
  BY <1>2, <1>3 DEF IsApproved, Open
<1>5. \A j \in SubmissionIds : j # i /\ header[j].subject = header[i].subject =>
        ~Open(j) /\ header[j].versionNo < header[i].versionNo
  <2>1. SUFFICES ASSUME NEW j \in SubmissionIds, j # i,
                        header[j].subject = header[i].subject
                 PROVE  ~Open(j) /\ header[j].versionNo < header[i].versionNo
    OBVIOUS
  <2>2. Present(entry[j]) /\ ~Open(j)
    BY <1>1, <1>3, <2>1, RowFacts DEF NoOpenVersion, Versions
  <2>3. IsApproved(j) /\ header[j].versionNo <= header[i].versionNo
    BY <1>1, <2>1, <2>2, RowFacts DEF LatestApproved, Versions
  <2>4. header[j].versionNo # header[i].versionNo
    BY <1>1, <1>3, <2>1 DEF VersionsNumbered
  <2>5. QED
    BY <1>1, <2>2, <2>3, <2>4, RowFacts
<1>6. OneOpenVersion'
  BY <1>1, <1>4, <1>5 DEF OneOpenVersion
<1>7. ASSUME NEW j \in SubmissionIds, Present(entry'[j]), header[j].versionNo > 1
      PROVE  \E l \in SubmissionIds : /\ header[l].subject = header[j].subject
                                      /\ IsApproved(l)'
                                      /\ header[l].versionNo = header[j].versionNo - 1
  <2>1. PICK l \in SubmissionIds : /\ header[l].subject = header[j].subject
                                   /\ IsApproved(l)
                                   /\ header[l].versionNo = header[j].versionNo - 1
    BY <1>1, <1>4, <1>7 DEF VersionsNumbered
  <2>2. l # i
    <3>1. SUFFICES ASSUME l = i PROVE FALSE
      OBVIOUS
    <3>2. header[j].versionNo \in Nat /\ header[i].versionNo \in Nat
      BY <1>1, RowFacts
    <3>3. j # i /\ header[j].subject = header[i].subject
      BY <2>1, <3>1, <3>2
    <3>4. header[j].versionNo < header[i].versionNo
      BY <1>5, <3>3
    <3>5. QED
      BY <2>1, <3>1, <3>2, <3>4
  <2>3. QED
    BY <1>4, <2>1, <2>2
<1>8. VersionsNumbered'
  BY <1>1, <1>4, <1>7 DEF VersionsNumbered
<1>9. HeadersMatchEntries'
  BY <1>1, <1>4 DEF HeadersMatchEntries
<1>10. QED
  BY <1>6, <1>8, <1>9 DEF VersionInv

(* An open version is nobody's predecessor, so it can go.                   *)
LEMMA DeleteKeeps ==
  ASSUME TypeOK, VersionInv, NEW i \in SubmissionIds, Open(i),
         entry' = [entry EXCEPT ![i] = AbsentEntry],
         header' = [header EXCEPT ![i] = NoHeader], UNCHANGED code
  PROVE  VersionInv'
<1>1. HeadersMatchEntries /\ OneOpenVersion /\ VersionsNumbered
  BY DEF VersionInv
<1>2. \A j \in SubmissionIds : j # i => entry'[j] = entry[j] /\ header'[j] = header[j]
  BY DEF TypeOK
<1>3. /\ ~IsApproved(i)
      /\ ~Present(entry'[i]) /\ ~Open(i)' /\ header'[i] = NoHeader
  BY <1>1, RowFacts DEF TypeOK, AbsentEntry, Present, Open, IsOpen
<1>4. \A j \in SubmissionIds : j # i =>
        (IsApproved(j)' <=> IsApproved(j)) /\ (Open(j)' <=> Open(j))
  BY <1>2 DEF IsApproved, Open
<1>5. \A j \in SubmissionIds : Present(entry'[j]) =>
        j # i /\ Present(entry[j]) /\ header[j].subject # NoSubject
  BY <1>1, <1>2, <1>3, RowFacts
<1>6. HeadersMatchEntries'
  BY <1>1, <1>2, <1>3 DEF HeadersMatchEntries
<1>7. OneOpenVersion'
  <2>1. \A j \in SubmissionIds : Open(j)' => Present(entry'[j])
    BY DEF Open, IsOpen, Present
  <2>2. header'[i].subject = NoSubject
    BY <1>3 DEF NoHeader
  <2>3. QED
    BY <1>1, <1>2, <1>3, <1>4, <1>5, <2>1, <2>2 DEF OneOpenVersion
<1>8. VersionsNumbered'
  <2>1. header'[i].subject = NoSubject
    BY <1>3 DEF NoHeader
  <2>2. QED
    BY <1>1, <1>2, <1>3, <1>4, <1>5, <2>1 DEF VersionsNumbered
<1>9. QED
  BY <1>6, <1>7, <1>8 DEF VersionInv

(* The version invariant holds in the initial state.                        *)
LEMMA InitVersions == Init => VersionInv
<1> SUFFICES ASSUME Init PROVE VersionInv
  OBVIOUS
<1>1. \A i \in SubmissionIds : /\ ~Present(entry[i]) /\ ~Open(i)
                               /\ header[i] = NoHeader
  BY DEF Init, AbsentEntry, Present, Open, IsOpen
<1>2. QED
  BY <1>1 DEF VersionInv, HeadersMatchEntries, OneOpenVersion, VersionsNumbered

(* A reviewed row is not absent, and open unless it was approved.           *)
LEMMA Reviewed ==
  ASSUME TypeOK, NEW i \in SubmissionIds, NEW action \in ApprovalAction,
         NEW u \in Users, NEW revision, NEW reason,
         DecideApproval(entry[i], action, u, revision, reason),
         Write(i, action, u)
  PROVE  /\ entry' = [entry EXCEPT ![i] = entry'[i]]
         /\ Present(entry'[i])
         /\ action # "unapprove" => Open(i)
         /\ action # "approve" => Open(i)'
         /\ IsApproved(i)' <=> action = "approve"
<1>1. entry'[i] = NextEntry(entry[i], action, u)
  BY DEF Write, TypeOK
<1>2. entry'[i].status = TargetStatus(action)
  BY <1>1 DEF NextEntry
<1>3. action # "unapprove" => Open(i)
  BY DEF DecideApproval, ActionIsValidForStatus, Open, IsOpen, ApprovalAction
<1>4. /\ TargetStatus("approve") = "APPROVED"
      /\ TargetStatus("reject") = "REJECTED"
      /\ TargetStatus("unreject") = "PENDING"
      /\ TargetStatus("unapprove") = "PENDING"
  BY DEF TargetStatus
<1>5. QED
  BY <1>1, <1>2, <1>3, <1>4 DEF Write, ApprovalAction, Present, Open, IsOpen, IsApproved

(* Every step keeps the version invariant.                                  *)
LEMMA NextVersions == TypeOK /\ VersionInv /\ [Next]_vars => VersionInv'
<1> SUFFICES ASSUME TypeOK, VersionInv, [Next]_vars PROVE VersionInv'
  OBVIOUS
<1>0. HeadersMatchEntries /\ OneOpenVersion /\ VersionsNumbered
  BY DEF VersionInv
<1>1. ASSUME NEW k \in IdempotencyKeys, NEW r \in Request, NEW u \in Users,
             SubmitNew(k, r, u)
      PROVE  VersionInv'
  <2>1. r.subject \in Subjects
    BY DEF Request
  <2>2. code'[r.subject] = nextCode /\ nextCode # 0
    BY <1>1, <2>1 DEF SubmitNew, TypeOK, CreateSubject
  <2>3. \A s \in Subjects : code[s] # 0 => code'[s] # 0
    BY <1>1, <2>1, <2>2 DEF SubmitNew, TypeOK, CreateSubject
  <2>4. InsertVersion(k, r, 1, u) /\ Versions(r.subject) = {}
    BY <1>1 DEF SubmitNew, FirstVersion
  <2>5. QED
    BY <2>2, <2>3, <2>4, InsertKeeps
<1>2. ASSUME NEW k \in IdempotencyKeys, NEW r \in Request, NEW u \in Users,
             SubmitChange(k, r, u)
      PROVE  VersionInv'
  <2> DEFINE x == r.expectedId
             n == header[r.expectedId].versionNo + 1
  <2>1. /\ r.subject \in Subjects /\ x \in SubmissionIds
        /\ LatestApproved(r.subject, x) /\ NoOpenVersion(r.subject)
        /\ InsertVersion(k, r, n, u) /\ UNCHANGED code /\ code[r.subject] # 0
    BY <1>2 DEF SubmitChange, Request, subjectVars, NextVersion
  <2>2. header[x].versionNo \in Nat /\ n \in Nat \ {0}
    BY <2>1, NextNumberTyped
  <2>3. \A j \in Versions(r.subject) : IsApproved(j) /\ header[j].versionNo < n
    <3>1. SUFFICES ASSUME NEW j \in Versions(r.subject)
                   PROVE  IsApproved(j) /\ header[j].versionNo < n
      OBVIOUS
    <3>2. /\ j \in SubmissionIds /\ header[j].subject \in Subjects
          /\ header[j].versionNo \in Nat
      BY <1>0, <2>1, RowFacts DEF Versions
    <3>3. IsApproved(j)
      BY <1>0, <2>1, <3>2, RowFacts DEF NoOpenVersion
    <3>4. header[j].versionNo <= header[x].versionNo
      BY <2>1, <3>3 DEF LatestApproved
    <3>5. QED
      BY <2>2, <3>2, <3>3, <3>4
  <2>4. \E j \in Versions(r.subject) : header[j].versionNo = n - 1
    BY <2>1, <2>2 DEF LatestApproved
  <2>5. QED
    BY <2>1, <2>2, <2>3, <2>4, InsertKeeps
<1>3. ASSUME NEW i \in SubmissionIds, NEW u \in Users, NEW revision,
             Approve(i, u, revision)
      PROVE  VersionInv'
  BY <1>3, Reviewed, ReviewKeeps DEF Approve, ApprovalAction, Write, subjectVars
<1>4. ASSUME NEW i \in SubmissionIds, NEW u \in Users, NEW revision, NEW reason,
             Reject(i, u, revision, reason)
      PROVE  VersionInv'
  BY <1>4, Reviewed, ReviewKeeps DEF Reject, ApprovalAction, Write, subjectVars
<1>5. ASSUME NEW i \in SubmissionIds, NEW u \in Users, NEW revision,
             Unreject(i, u, revision)
      PROVE  VersionInv'
  BY <1>5, Reviewed, ReviewKeeps DEF Unreject, ApprovalAction, Write, subjectVars
<1>6. ASSUME NEW i \in SubmissionIds, NEW u \in Users, NEW revision, NEW reason,
             Unapprove(i, u, revision, reason)
      PROVE  VersionInv'
  BY <1>6, Reviewed, UnapproveKeeps
     DEF Unapprove, UnapproveAllowed, ApprovalAction, Write, subjectVars
<1>7. ASSUME NEW i \in SubmissionIds, NEW u \in Users, NEW revision,
             Delete(i, u, revision)
      PROVE  VersionInv'
  BY <1>7, DeleteKeeps DEF Delete, DeleteAllowed, Open, subjectVars, RemoveVersion
<1>8. ASSUME NEW s \in Subjects, NEW value \in BOOLEAN, NEW revision,
             SetEnabled(s, value, revision)
      PROVE  VersionInv'
  BY <1>0, <1>8 DEF SetEnabled, VersionInv, HeadersMatchEntries, OneOpenVersion,
     VersionsNumbered, Open, IsApproved, WriteEnablement
<1>9. CASE UNCHANGED vars
  BY <1>0, <1>9 DEF vars, VersionInv, HeadersMatchEntries, OneOpenVersion,
     VersionsNumbered, Open, IsApproved
<1>10. QED
  BY <1>1, <1>2, <1>3, <1>4, <1>5, <1>6, <1>7, <1>8, <1>9, SubmitIsRequest
     DEF Next, Review

(* The invariant that the theorems below draw from.                         *)
LEMMA VersionsInvariant == Spec => [](TypeOK /\ VersionInv)
BY InitTyped, NextTyped, InitVersions, NextVersions, PTL DEF Spec

(* approval.md 6 for every archive: the versions of a subject are numbered  *)
(* 1, 2, 3 ... without a gap or a repetition, over deletions, unapprovals   *)
(* and resubmissions in any order.                                          *)
THEOREM NumbersWithoutGaps == Spec => []VersionsNumbered
BY VersionsInvariant, PTL DEF VersionInv

(* At most one version of a subject is open, and it is the highest one.     *)
THEOREM AtMostOneOpenVersion == Spec => []OneOpenVersion
BY VersionsInvariant, PTL DEF VersionInv

(* A header exists exactly as long as its entry, on an existing subject.    *)
THEOREM NoHeaderWithoutEntry == Spec => []HeadersMatchEntries
BY VersionsInvariant, PTL DEF VersionInv
-------------------------------------------------------------------------------
(* If the rows that begin to reserve a key in a step all belong to subject  *)
(* s and were checked against the other subjects, the keys stay unique.     *)
LEMMA KeysStayUnique ==
  ASSUME TypeOK, VersionInv, BusinessKeysUnique, NEW s,
         \A i \in SubmissionIds : Reserves(i)' =>
           \/ Reserves(i) /\ header'[i] = header[i]
           \/ header'[i].subject = s /\ ~DuplicateBusinessKey(s, header'[i].key)
  PROVE  BusinessKeysUnique'
<1>1. \A i \in SubmissionIds : Reserves(i) => header[i].subject # NoSubject
  BY RowFacts DEF VersionInv, Reserves, LatestApproved
<1>2. ASSUME NEW i \in SubmissionIds, NEW j \in SubmissionIds,
             header'[i].subject = s, ~DuplicateBusinessKey(s, header'[i].key),
             Reserves(j), header'[j] = header[j],
             header'[i].key # NoKey, header'[i].key = header'[j].key
      PROVE  header'[i].subject = header'[j].subject
  BY <1>1, <1>2 DEF DuplicateBusinessKey
<1>3. SUFFICES ASSUME NEW i \in SubmissionIds, NEW j \in SubmissionIds,
                      Reserves(i)', Reserves(j)',
                      header'[i].key # NoKey, header'[i].key = header'[j].key
               PROVE  header'[i].subject = header'[j].subject
  BY DEF BusinessKeysUnique
<1>4. CASE Reserves(i) /\ header'[i] = header[i] /\ Reserves(j) /\ header'[j] = header[j]
  BY <1>3, <1>4 DEF BusinessKeysUnique
<1>5. QED
  BY <1>2, <1>3, <1>4

(* A version that a submit creates is the only one that begins to reserve.  *)
LEMMA InsertReserves ==
  ASSUME TypeOK, VersionInv, NEW k, NEW r \in Request, NEW n \in Nat, NEW u,
         InsertVersion(k, r, n, u)
  PROVE  /\ header'[r.submission].subject = r.subject /\ header'[r.submission].key = r.key
         /\ \A j \in SubmissionIds : j # r.submission /\ Reserves(j)' =>
              Reserves(j) /\ header'[j] = header[j]
<1> DEFINE new == r.submission
<1>1. /\ new \in SubmissionIds /\ ~IsApproved(new) /\ ~IsApproved(new)'
      /\ header'[new].subject = r.subject /\ header'[new].key = r.key
  BY DEF InsertVersion, NewEntry, AbsentEntry, IsApproved, TypeOK, Request
<1>2. \A j \in SubmissionIds : j # new =>
        /\ header'[j] = header[j]
        /\ IsApproved(j)' <=> IsApproved(j)
        /\ Open(j)' <=> Open(j)
  BY DEF InsertVersion, IsApproved, Open, TypeOK
<1>3. ASSUME NEW j \in SubmissionIds, NEW x, LatestApproved(x, j)'
      PROVE  LatestApproved(x, j)
  BY <1>1, <1>2, <1>3 DEF LatestApproved, Versions
<1>4. QED
  BY <1>1, <1>2, <1>3 DEF Reserves

(* A review of an open version lets nothing begin to reserve: an approval   *)
(* only replaces its predecessor.                                           *)
LEMMA ReviewReserves ==
  ASSUME TypeOK, VersionInv, NEW i \in SubmissionIds, Open(i),
         entry' = [entry EXCEPT ![i] = entry'[i]], UNCHANGED header
  PROVE  \A j \in SubmissionIds : Reserves(j)' => Reserves(j)
<1>1. ~IsApproved(i)
  BY RowFacts DEF VersionInv
<1>2. \A j \in SubmissionIds : /\ IsApproved(j) => IsApproved(j)'
                               /\ j # i => /\ Open(j)' <=> Open(j)
                                           /\ IsApproved(j)' <=> IsApproved(j)
  BY <1>1 DEF IsApproved, Open, TypeOK
<1>3. ASSUME NEW j \in SubmissionIds, j # i, NEW x, LatestApproved(x, j)'
      PROVE  LatestApproved(x, j)
  BY <1>2, <1>3 DEF LatestApproved, Versions
<1>4. \A j \in SubmissionIds : j # i /\ Reserves(j)' => Reserves(j)
  BY <1>2, <1>3 DEF Reserves
<1>5. Reserves(i)' => Reserves(i)
  BY DEF Reserves
<1>6. QED
  BY <1>4, <1>5

(* An unapproval brings the version before it back, and no other.           *)
LEMMA UnapproveReserves ==
  ASSUME TypeOK, VersionInv, NEW i \in SubmissionIds,
         LatestApproved(header[i].subject, i), ~IsApproved(i)',
         entry' = [entry EXCEPT ![i] = entry'[i]], UNCHANGED header
  PROVE  \A j \in SubmissionIds : Reserves(j)' =>
           Reserves(j) \/ (KeyScope = "latest" /\ Previous(i, j))
<1> DEFINE s == header[i].subject
<1>1. \A j \in SubmissionIds : j # i => /\ Open(j)' <=> Open(j)
                                        /\ IsApproved(j)' <=> IsApproved(j)
  BY DEF IsApproved, Open, TypeOK
<1>2. LatestApproved(s, i) /\ IsApproved(i)
  BY DEF LatestApproved
<1>3. ASSUME NEW j \in SubmissionIds, LatestApproved(header[j].subject, j)'
      PROVE  LatestApproved(header[j].subject, j) \/ Previous(i, j)
  <2>1. j # i /\ IsApproved(j)
    BY <1>1, <1>3 DEF LatestApproved
  <2>2. CASE header[j].subject = s
    BY <1>1, <1>3, <2>1, <2>2 DEF Previous, LatestApproved, Versions
  <2>3. CASE header[j].subject # s
    BY <1>1, <1>3, <2>1, <2>3 DEF LatestApproved, Versions
  <2>4. QED
    BY <2>2, <2>3
<1>4. Reserves(i)' => Reserves(i)
  BY <1>2 DEF Reserves
<1>5. \A j \in SubmissionIds : j # i /\ KeyScope = "ever" /\ Reserves(j)' => Reserves(j)
  BY <1>1 DEF Reserves
<1>6. \A j \in SubmissionIds : j # i /\ KeyScope = "latest" /\ Reserves(j)' =>
        Reserves(j) \/ Previous(i, j)
  BY <1>1, <1>3 DEF Reserves
<1>7. \A j \in SubmissionIds : Reserves(j)' => KeyScope \in {"ever", "latest"}
  BY DEF Reserves
<1>8. QED
  BY <1>4, <1>5, <1>6, <1>7

(* A deleted version was open, so no other one becomes the latest.          *)
LEMMA DeleteReserves ==
  ASSUME TypeOK, VersionInv, NEW i \in SubmissionIds, Open(i),
         entry' = [entry EXCEPT ![i] = AbsentEntry],
         header' = [header EXCEPT ![i] = NoHeader]
  PROVE  \A j \in SubmissionIds : Reserves(j)' => Reserves(j) /\ header'[j] = header[j]
<1>1. ~IsApproved(i) /\ ~IsApproved(i)' /\ ~Open(i)'
  BY RowFacts DEF VersionInv, IsApproved, Open, IsOpen, AbsentEntry, TypeOK
<1>2. \A j \in SubmissionIds : j # i => /\ header'[j] = header[j]
                                        /\ Open(j)' <=> Open(j)
                                        /\ IsApproved(j)' <=> IsApproved(j)
  BY DEF IsApproved, Open, TypeOK
<1>3. ASSUME NEW j \in SubmissionIds, NEW x, LatestApproved(x, j)'
      PROVE  LatestApproved(x, j)
  BY <1>1, <1>2, <1>3 DEF LatestApproved, Versions
<1>4. \A j \in SubmissionIds : Reserves(j)' => j # i /\ Reserves(j)
  BY <1>1, <1>2, <1>3 DEF Reserves, LatestApproved
<1>5. QED
  BY <1>2, <1>4

(* Every step keeps the business keys unique.                               *)
LEMMA NextKeys ==
  TypeOK /\ VersionInv /\ BusinessKeysUnique /\ [Next]_vars => BusinessKeysUnique'
<1> SUFFICES ASSUME TypeOK, VersionInv, BusinessKeysUnique, [Next]_vars
             PROVE  BusinessKeysUnique'
  OBVIOUS
<1>1. ASSUME NEW k \in IdempotencyKeys, NEW r \in Request, NEW u \in Users,
             SubmitNew(k, r, u)
      PROVE  BusinessKeysUnique'
  BY <1>1, InsertReserves, KeysStayUnique DEF SubmitNew, SubmitAllowed
<1>2. ASSUME NEW k \in IdempotencyKeys, NEW r \in Request, NEW u \in Users,
             SubmitChange(k, r, u)
      PROVE  BusinessKeysUnique'
  <2>1. header[r.expectedId].versionNo + 1 \in Nat \ {0}
    BY <1>2, NextNumberTyped DEF SubmitChange, NextVersion
  <2>2. QED
    BY <1>2, <2>1, InsertReserves, KeysStayUnique DEF SubmitChange, SubmitAllowed
<1>3. ASSUME NEW i \in SubmissionIds, NEW u \in Users, NEW revision, NEW reason,
             \/ Approve(i, u, revision)
             \/ Reject(i, u, revision, reason)
             \/ Unreject(i, u, revision)
      PROVE  BusinessKeysUnique'
  <2>1. /\ entry' = [entry EXCEPT ![i] = entry'[i]] /\ UNCHANGED header /\ Open(i)
    BY <1>3, Reviewed DEF Approve, Reject, Unreject, ApprovalAction, Write
  <2>2. QED
    BY <2>1, ReviewReserves, KeysStayUnique
<1>4. ASSUME NEW i \in SubmissionIds, NEW u \in Users, NEW revision, NEW reason,
             Unapprove(i, u, revision, reason)
      PROVE  BusinessKeysUnique'
  <2>1. /\ entry' = [entry EXCEPT ![i] = entry'[i]] /\ UNCHANGED header /\ ~IsApproved(i)'
        /\ LatestApproved(header[i].subject, i) /\ PreviousKeyFree(i)
    BY <1>4, Reviewed DEF Unapprove, UnapproveAllowed, ApprovalAction, Write
  <2>2. \A j \in SubmissionIds : Previous(i, j) => header[j].subject = header[i].subject
    BY DEF Previous, Versions
  <2>3. QED
    BY <2>1, <2>2, UnapproveReserves, KeysStayUnique DEF PreviousKeyFree
<1>5. ASSUME NEW i \in SubmissionIds, NEW u \in Users, NEW revision,
             Delete(i, u, revision)
      PROVE  BusinessKeysUnique'
  BY <1>5, DeleteReserves, KeysStayUnique DEF Delete, DeleteAllowed, Open, RemoveVersion
<1>6. CASE UNCHANGED <<entry, header>>
  BY <1>6 DEF BusinessKeysUnique, Reserves, LatestApproved, Versions, Open, IsApproved
<1>7. QED
  BY <1>1, <1>2, <1>3, <1>4, <1>5, <1>6, SubmitIsRequest
     DEF Next, Review, SetEnabled, vars, WriteEnablement

(* bob.md 3.3 and 9: in every reachable state no two subjects share a bar   *)
(* code or legal identifier that their formal or open versions reserve.     *)
THEOREM BusinessKeysNeverShared == Spec => []BusinessKeysUnique
<1>1. Init => BusinessKeysUnique
  BY DEF Init, BusinessKeysUnique, Reserves, Open, IsOpen, IsApproved,
     LatestApproved, AbsentEntry
<1>2. QED
  BY <1>1, VersionsInvariant, NextKeys, PTL DEF Spec
-------------------------------------------------------------------------------
(* Every step keeps approved formulas pinned.                               *)
LEMMA NextFormula ==
  TypeOK /\ VersionInv /\ ApprovedFormulaPinned /\ [Next]_vars
    => ApprovedFormulaPinned'
<1> SUFFICES ASSUME TypeOK, VersionInv, ApprovedFormulaPinned, [Next]_vars
             PROVE  ApprovedFormulaPinned'
  OBVIOUS
<1>0. ASSUME NEW i \in SubmissionIds, header[i].material # NoSubmission,
             IsApproved(i)
      PROVE  /\ header[i].material \in SubmissionIds
             /\ IsApproved(header[i].material)
             /\ header[header[i].material].subject = header[i].materialOf
             /\ header[i].materialOf # header[i].subject
  BY <1>0 DEF ApprovedFormulaPinned, TypeOK, Header, NoHeader
<1>1. ASSUME NEW k \in IdempotencyKeys, NEW r \in Request, NEW n, NEW u \in Users,
             InsertVersion(k, r, n, u)
      PROVE  ApprovedFormulaPinned'
  <2> DEFINE new == r.submission
  <2>1. new \in SubmissionIds /\ ~IsApproved(new) /\ ~IsApproved(new)'
    BY <1>1 DEF InsertVersion, NewEntry, AbsentEntry, IsApproved, TypeOK, Request
  <2>2. \A j \in SubmissionIds : j # new =>
          header'[j] = header[j] /\ (IsApproved(j)' <=> IsApproved(j))
    BY <1>1 DEF InsertVersion, IsApproved, TypeOK
  <2>3. QED
    BY <1>0, <2>1, <2>2 DEF ApprovedFormulaPinned
<1>2. ASSUME NEW i \in SubmissionIds, NEW u \in Users, NEW revision,
             Approve(i, u, revision)
      PROVE  ApprovedFormulaPinned'
  <2> DEFINE m == header[i].material
  <2>1. /\ Open(i) /\ ~IsApproved(i) /\ IsApproved(i)'
        /\ entry' = [entry EXCEPT ![i] = entry'[i]] /\ header' = header
    BY <1>2, Reviewed, RowFacts DEF Approve, ApprovalAction, Write, VersionInv
  <2>2. \A j \in SubmissionIds : IsApproved(j) => IsApproved(j)'
    BY <2>1 DEF IsApproved, TypeOK
  <2>3. \A j \in SubmissionIds : j # i /\ IsApproved(j)' => IsApproved(j)
    BY <2>1 DEF IsApproved, TypeOK
  <2>4. m # NoSubmission =>
          /\ m \in SubmissionIds /\ IsApproved(m)
          /\ header[m].subject = header[i].materialOf
          /\ header[i].materialOf # header[i].subject
    BY <1>2 DEF Approve, StillSubmittable, MaterialStillAvailable,
       MaterialAvailable, LatestApproved, Versions
  <2>5. QED
    BY <1>0, <2>1, <2>2, <2>3, <2>4 DEF ApprovedFormulaPinned
<1>3. ASSUME NEW i \in SubmissionIds, NEW u \in Users, NEW revision, NEW reason,
             Reject(i, u, revision, reason) \/ Unreject(i, u, revision)
      PROVE  ApprovedFormulaPinned'
  <2>1. /\ ~IsApproved(i) /\ ~IsApproved(i)'
        /\ entry' = [entry EXCEPT ![i] = entry'[i]] /\ header' = header
    BY <1>3, Reviewed, RowFacts DEF Reject, Unreject, ApprovalAction, Write, VersionInv
  <2>2. \A j \in SubmissionIds : IsApproved(j)' <=> IsApproved(j)
    BY <2>1 DEF IsApproved, TypeOK
  <2>3. QED
    BY <1>0, <2>1, <2>2 DEF ApprovedFormulaPinned
<1>4. ASSUME NEW i \in SubmissionIds, NEW u \in Users, NEW revision, NEW reason,
             Unapprove(i, u, revision, reason)
      PROVE  ApprovedFormulaPinned'
  <2>1. /\ ~IsApproved(i)' /\ header' = header
        /\ entry' = [entry EXCEPT ![i] = entry'[i]]
    BY <1>4, Reviewed DEF Unapprove, ApprovalAction, Write
  <2>2. \A j \in SubmissionIds : j # i => (IsApproved(j)' <=> IsApproved(j))
    BY <2>1 DEF IsApproved, TypeOK
  <2>3. \A j \in SubmissionIds : IsApproved(j) => header[j].material # i
    BY <1>4 DEF Unapprove, UnapproveAllowed, Unreferenced
  <2>4. QED
    BY <1>0, <2>1, <2>2, <2>3 DEF ApprovedFormulaPinned
<1>5. ASSUME NEW i \in SubmissionIds, NEW u \in Users, NEW revision,
             Delete(i, u, revision)
      PROVE  ApprovedFormulaPinned'
  <2>1. ~IsApproved(i) /\ ~IsApproved(i)'
    BY <1>5 DEF Delete, DeleteAllowed, IsOpen, IsApproved, AbsentEntry, TypeOK, RemoveVersion
  <2>2. \A j \in SubmissionIds : j # i =>
          header'[j] = header[j] /\ (IsApproved(j)' <=> IsApproved(j))
    BY <1>5 DEF Delete, IsApproved, TypeOK, RemoveVersion
  <2>3. QED
    BY <1>0, <2>1, <2>2 DEF ApprovedFormulaPinned
<1>6. CASE UNCHANGED <<entry, header>>
  BY <1>6 DEF ApprovedFormulaPinned, IsApproved
<1>7. QED
  BY <1>1, <1>2, <1>3, <1>4, <1>5, <1>6, SubmitIsRequest
     DEF Next, Review, SetEnabled, vars, SubmitNew, SubmitChange, WriteEnablement

(* bob.md 3.3: in every reachable state an approved formula names an        *)
(* approved version of another subject.                                     *)
THEOREM ApprovedFormulasStayPinned == Spec => []ApprovedFormulaPinned
<1>1. Init => ApprovedFormulaPinned
  BY DEF Init, ApprovedFormulaPinned, IsApproved, AbsentEntry
<1>2. QED
  BY <1>1, VersionsInvariant, NextFormula, PTL DEF Spec

(* A row appears only with a key that had no response, and a key that has    *)
(* one keeps it: only the two submits insert rows, and both look first.      *)
KeysSpentStep ==
  /\ \A k \in IdempotencyKeys : response[k] # NoResponse => response'[k] = response[k]
  /\ \A i \in SubmissionIds :
       ~Present(entry[i]) /\ Present(entry'[i]) =>
         \E k \in IdempotencyKeys : /\ response[k] = NoResponse
                                    /\ response'[k] # NoResponse
                                    /\ response'[k].submission = i

LEMMA KeysSpent == TypeOK /\ [Next]_vars => KeysSpentStep
<1> SUFFICES ASSUME TypeOK, [Next]_vars PROVE KeysSpentStep
  OBVIOUS
<1>1. ASSUME NEW k \in IdempotencyKeys, NEW r \in Request, NEW n, NEW u \in Users,
             SubmitAllowed(k, r, u), InsertVersion(k, r, n, u)
      PROVE  KeysSpentStep
  <2>1. /\ response[k] = NoResponse /\ r # NoResponse
        /\ response' = [response EXCEPT ![k] = r]
        /\ entry' = [entry EXCEPT ![r.submission] = NewEntry(u)]
    BY <1>1 DEF SubmitAllowed, InsertVersion, Request, NoResponse, SubmitAction
  <2>2. response'[k] = r /\ \A x \in IdempotencyKeys \ {k} : response'[x] = response[x]
    BY <2>1 DEF TypeOK
  <2>3. \A i \in SubmissionIds : ~Present(entry[i]) /\ Present(entry'[i]) => r.submission = i
    BY <2>1 DEF TypeOK
  <2> QED
    BY <2>1, <2>2, <2>3 DEF KeysSpentStep
<1>2. ASSUME NEW k \in IdempotencyKeys, NEW r \in Request, NEW u \in Users,
             SubmitNew(k, r, u) \/ SubmitChange(k, r, u)
      PROVE  KeysSpentStep
  BY <1>1, <1>2 DEF SubmitNew, SubmitChange
<1>3. CASE Submit
  BY <1>2, <1>3, SubmitIsRequest
<1>4. ASSUME response' = response,
             \A i \in SubmissionIds : Present(entry'[i]) => Present(entry[i])
      PROVE  KeysSpentStep
  BY <1>4 DEF KeysSpentStep
<1>5. ASSUME NEW i \in SubmissionIds, NEW u \in Users, NEW action, NEW revision, NEW reason,
             DecideApproval(entry[i], action, u, revision, reason), Write(i, action, u)
      PROVE  KeysSpentStep
  <2>1. Present(entry[i])
    BY <1>5 DEF DecideApproval, ActionIsValidForStatus, Present, AbsentEntry
  <2>2. response' = response /\ \A j \in SubmissionIds \ {i} : entry'[j] = entry[j]
    BY <1>5 DEF Write, TypeOK
  <2> QED
    BY <1>4, <2>1, <2>2
<1>6. CASE Review
  BY <1>5, <1>6 DEF Review, Approve, Reject, Unreject, Unapprove
<1>7. ASSUME NEW i \in SubmissionIds, NEW u \in Users, NEW revision, Delete(i, u, revision)
      PROVE  KeysSpentStep
  <2>1. /\ response' = response /\ ~Present(entry'[i])
        /\ \A j \in SubmissionIds \ {i} : entry'[j] = entry[j]
    BY <1>7, EntriesSound DEF Delete, RemoveVersion, TypeOK, Present
  <2> QED
    BY <1>4, <2>1
<1>8. ASSUME NEW s \in Subjects, NEW value \in BOOLEAN, NEW revision, SetEnabled(s, value, revision)
      PROVE  KeysSpentStep
  BY <1>4, <1>8 DEF SetEnabled, WriteEnablement
<1>9. CASE UNCHANGED vars
  BY <1>4, <1>9 DEF vars
<1> QED
  BY <1>3, <1>6, <1>7, <1>8, <1>9 DEF Next

(* bob.md 7.3: one idempotency key has one effect.  A row appears only       *)
(* together with a key used for the first time, and a key is never used      *)
(* again, also not after the version it created has been deleted.            *)
THEOREM KeysAreSpentOnce == Spec => KeysSpentOnce
<1>1. Spec => [][KeysSpentStep]_vars
  BY InitTyped, NextTyped, KeysSpent, PTL DEF Spec
<1> QED
  BY <1>1, PTL DEF KeysSpentStep, KeysSpentOnce

-------------------------------------------------------------------------------
(* The refinement of FormalVersions.                                        *)

(* A step in which no row of any subject starts or stops being approved or  *)
(* open, and none is renumbered, is a stutter.                              *)
LEMMA SameRows ==
  ASSUME NEW s \in Subjects,
         \A i \in SubmissionIds :
           /\ (i \in ApprovedVersions(s))' <=> i \in ApprovedVersions(s)
           /\ i \in ApprovedVersions(s) => header'[i] = header[i]
  PROVE  Numbered(ApprovedVersions(s))' = Numbered(ApprovedVersions(s))
<1>1. ApprovedVersions(s)' = ApprovedVersions(s)
  BY DEF ApprovedVersions, Versions
<1>2. QED
  BY <1>1 DEF Numbered, ApprovedVersions, Versions

(* The same for the open rows.                                              *)
LEMMA SameOpenRows ==
  ASSUME NEW s \in Subjects,
         \A i \in SubmissionIds :
           /\ (i \in OpenVersions(s))' <=> i \in OpenVersions(s)
           /\ i \in OpenVersions(s) => header'[i] = header[i]
  PROVE  Numbered(OpenVersions(s))' = Numbered(OpenVersions(s))
<1>1. OpenVersions(s)' = OpenVersions(s)
  BY DEF OpenVersions, Versions
<1>2. QED
  BY <1>1 DEF Numbered, OpenVersions, Versions

(* submit-new and submit-change propose a candidate with the next number.   *)
LEMMA InsertProposes ==
  ASSUME TypeOK, VersionInv, NEW k \in IdempotencyKeys, NEW r \in Request,
         NEW n \in Nat \ {0}, NEW u \in Users, InsertVersion(k, r, n, u),
         NoOpenVersion(r.subject),
         \/ n = 1 /\ Versions(r.subject) = {}
         \/ \E x \in SubmissionIds : /\ LatestApproved(r.subject, x)
                                     /\ n = header[x].versionNo + 1
  PROVE  Abstract!Next
<1> DEFINE s == r.subject
           new == r.submission
<1>1. /\ s \in Subjects /\ new \in SubmissionIds
      /\ ~IsApproved(new) /\ ~IsApproved(new)' /\ ~Open(new) /\ Open(new)'
      /\ header'[new].subject = s /\ header'[new].versionNo = n
  BY DEF InsertVersion, NewEntry, AbsentEntry, IsApproved, Open, IsOpen, TypeOK, Request
<1>2. \A i \in SubmissionIds : i # new =>
        /\ header'[i] = header[i]
        /\ IsApproved(i)' <=> IsApproved(i)
        /\ Open(i)' <=> Open(i)
  BY DEF InsertVersion, IsApproved, Open, TypeOK
<1>3. \A x \in Subjects :
        Numbered(ApprovedVersions(x))' = Numbered(ApprovedVersions(x))
  BY <1>1, <1>2, SameRows DEF ApprovedVersions, Versions
<1>4. \A x \in Subjects : x # s =>
        Numbered(OpenVersions(x))' = Numbered(OpenVersions(x))
  BY <1>1, <1>2, SameOpenRows DEF OpenVersions, Versions
<1>5. OpenVersions(s) = {} /\ OpenVersions(s)' = {new}
  BY <1>1, <1>2 DEF OpenVersions, Versions, NoOpenVersion
<1>6. Numbered(OpenVersions(s)) = {} /\ Numbered(OpenVersions(s))' = {<<n, new>>}
  BY <1>1, <1>5 DEF Numbered
<1>7. n \in Abstract!Numbers(s) /\ Abstract!NextNumber(s, n)
  <2>1. CASE n = 1 /\ Versions(s) = {}
    <3>1. Numbered(ApprovedVersions(s)) = {}
      BY <2>1 DEF Numbered, ApprovedVersions
    <3>2. QED
      BY <1>1, <2>1, <3>1 DEF Abstract!Numbers, Abstract!NextNumber, formalRows
  <2>2. ASSUME NEW x \in SubmissionIds, LatestApproved(s, x),
               n = header[x].versionNo + 1
        PROVE  n \in Abstract!Numbers(s) /\ Abstract!NextNumber(s, n)
    <3> DEFINE p == <<header[x].versionNo, x>>
    <3>1. x \in ApprovedVersions(s)
      BY <2>2 DEF LatestApproved, ApprovedVersions
    <3>2. p \in Numbered(ApprovedVersions(s))
      BY <3>1 DEF Numbered
    <3>3. \A q \in Numbered(ApprovedVersions(s)) : q[1] <= p[1]
      BY <2>2 DEF Numbered, ApprovedVersions, LatestApproved
    <3>4. p \in formalRows[s] /\ Abstract!Top(s, p) /\ n = p[1] + 1
      BY <1>1, <2>2, <3>2, <3>3 DEF Abstract!Top, formalRows
    <3>5. QED
      BY <3>4 DEF Abstract!Numbers, Abstract!NextNumber
  <2>3. QED
    BY <2>1, <2>2
<1>8. candidateRows[s] = {} /\ formalRows' = formalRows
  BY <1>1, <1>3, <1>6 DEF candidateRows, formalRows
<1>9. candidateRows' = [candidateRows EXCEPT ![s] = {<<n, new>>}]
  BY <1>1, <1>4, <1>6 DEF candidateRows
<1>10. Abstract!Propose(s, new)
  BY <1>7, <1>8, <1>9 DEF Abstract!Propose
<1>11. QED
  BY <1>1, <1>10 DEF Abstract!Next

(* Approval adopts the candidate.                                           *)
LEMMA ApproveAdopts ==
  ASSUME TypeOK, VersionInv, NEW i \in SubmissionIds, Open(i), IsApproved(i)',
         entry' = [entry EXCEPT ![i] = entry'[i]], header' = header
  PROVE  Abstract!Next
<1> DEFINE s == header[i].subject
           p == <<header[i].versionNo, i>>
<1>1. /\ s \in Subjects /\ ~IsApproved(i) /\ ~Open(i)'
  BY RowFacts DEF VersionInv, Open, IsOpen, IsApproved
<1>2. \A j \in SubmissionIds : j # i =>
        /\ IsApproved(j)' <=> IsApproved(j)
        /\ Open(j)' <=> Open(j)
  BY DEF IsApproved, Open, TypeOK
<1>3. \A x \in Subjects : x # s =>
        /\ Numbered(ApprovedVersions(x))' = Numbered(ApprovedVersions(x))
        /\ Numbered(OpenVersions(x))' = Numbered(OpenVersions(x))
  BY <1>1, <1>2, SameRows, SameOpenRows DEF ApprovedVersions, OpenVersions, Versions
<1>4. OpenVersions(s) = {i} /\ OpenVersions(s)' = {}
  BY <1>1, <1>2 DEF OpenVersions, Versions, VersionInv, OneOpenVersion
<1>5. ApprovedVersions(s)' = ApprovedVersions(s) \cup {i}
  BY <1>1, <1>2 DEF ApprovedVersions, Versions
<1>6. /\ Numbered(OpenVersions(s)) = {p} /\ Numbered(OpenVersions(s))' = {}
      /\ Numbered(ApprovedVersions(s))' = Numbered(ApprovedVersions(s)) \cup {p}
  BY <1>4, <1>5 DEF Numbered
<1>7. /\ candidateRows[s] = {p}
      /\ formalRows' = [formalRows EXCEPT ![s] = @ \cup candidateRows[s]]
      /\ candidateRows' = [candidateRows EXCEPT ![s] = {}]
  BY <1>1, <1>3, <1>6 DEF candidateRows, formalRows
<1>8. Abstract!Adopt(s)
  BY <1>7 DEF Abstract!Adopt
<1>9. QED
  BY <1>1, <1>8 DEF Abstract!Next

(* Reject and unreject leave the candidate what it is.                      *)
LEMMA ReviewStutters ==
  ASSUME TypeOK, VersionInv, NEW i \in SubmissionIds, Open(i), Open(i)',
         entry' = [entry EXCEPT ![i] = entry'[i]], header' = header
  PROVE  UNCHANGED Abstract!vars
<1>1. \A j \in SubmissionIds : /\ IsApproved(j)' <=> IsApproved(j)
                               /\ Open(j)' <=> Open(j)
  BY DEF IsApproved, Open, IsOpen, TypeOK
<1>2. \A x \in Subjects :
        /\ Numbered(ApprovedVersions(x))' = Numbered(ApprovedVersions(x))
        /\ Numbered(OpenVersions(x))' = Numbered(OpenVersions(x))
  BY <1>1, SameRows, SameOpenRows DEF ApprovedVersions, OpenVersions, Versions
<1>3. QED
  BY <1>2 DEF Abstract!vars, formalRows, candidateRows

(* Unapproval falls back to the version before.                             *)
LEMMA UnapproveFallsBack ==
  ASSUME TypeOK, VersionInv, NEW i \in SubmissionIds, Open(i)',
         LatestApproved(header[i].subject, i), NoOpenVersion(header[i].subject),
         entry' = [entry EXCEPT ![i] = entry'[i]], header' = header
  PROVE  Abstract!Next
<1> DEFINE s == header[i].subject
           p == <<header[i].versionNo, i>>
<1>1. s \in Subjects /\ IsApproved(i) /\ ~IsApproved(i)'
  BY RowFacts DEF VersionInv, LatestApproved, Open, IsOpen, IsApproved
<1>2. \A j \in SubmissionIds : j # i =>
        /\ IsApproved(j)' <=> IsApproved(j)
        /\ Open(j)' <=> Open(j)
  BY DEF IsApproved, Open, TypeOK
<1>3. \A x \in Subjects : x # s =>
        /\ Numbered(ApprovedVersions(x))' = Numbered(ApprovedVersions(x))
        /\ Numbered(OpenVersions(x))' = Numbered(OpenVersions(x))
  BY <1>1, <1>2, SameRows, SameOpenRows DEF ApprovedVersions, OpenVersions, Versions
<1>4. OpenVersions(s) = {} /\ OpenVersions(s)' = {i}
  BY <1>1, <1>2 DEF OpenVersions, Versions, NoOpenVersion
<1>5. i \in ApprovedVersions(s) /\ ApprovedVersions(s)' = ApprovedVersions(s) \ {i}
  BY <1>1, <1>2 DEF ApprovedVersions, Versions
<1>6. /\ Numbered(OpenVersions(s)) = {} /\ Numbered(OpenVersions(s))' = {p}
      /\ Numbered(ApprovedVersions(s))' = Numbered(ApprovedVersions(s)) \ {p}
      /\ p \in Numbered(ApprovedVersions(s))
  BY <1>4, <1>5 DEF Numbered
<1>7. \A q \in Numbered(ApprovedVersions(s)) : q[1] <= p[1]
  BY DEF Numbered, ApprovedVersions, LatestApproved
<1>8. /\ candidateRows[s] = {} /\ p \in formalRows[s] /\ Abstract!Top(s, p)
      /\ formalRows' = [formalRows EXCEPT ![s] = @ \ {p}]
      /\ candidateRows' = [candidateRows EXCEPT ![s] = {p}]
  BY <1>1, <1>3, <1>6, <1>7 DEF candidateRows, formalRows, Abstract!Top
<1>9. Abstract!FallBack(s)
  BY <1>8 DEF Abstract!FallBack
<1>10. QED
  BY <1>1, <1>9 DEF Abstract!Next

(* Deletion withdraws the candidate.                                        *)
LEMMA DeleteWithdraws ==
  ASSUME TypeOK, VersionInv, NEW i \in SubmissionIds, Open(i),
         entry' = [entry EXCEPT ![i] = AbsentEntry],
         header' = [header EXCEPT ![i] = NoHeader]
  PROVE  Abstract!Next
<1> SUFFICES ASSUME NEW s \in Subjects, s = header[i].subject
             PROVE  Abstract!Next
  BY RowFacts DEF VersionInv
<1>0. header'[i].subject = NoSubject
  BY DEF NoHeader, TypeOK
<1>1. /\ s = header[i].subject /\ ~IsApproved(i) /\ ~IsApproved(i)' /\ ~Open(i)'
  BY RowFacts DEF VersionInv, Open, IsOpen, IsApproved, AbsentEntry, TypeOK
<1>2. \A j \in SubmissionIds : j # i =>
        /\ header'[j] = header[j]
        /\ IsApproved(j)' <=> IsApproved(j)
        /\ Open(j)' <=> Open(j)
  BY DEF IsApproved, Open, TypeOK
<1>3. \A x \in Subjects :
        Numbered(ApprovedVersions(x))' = Numbered(ApprovedVersions(x))
  BY <1>0, <1>1, <1>2, SameRows DEF ApprovedVersions, Versions
<1>4. ASSUME NEW x \in Subjects, x # s
      PROVE  Numbered(OpenVersions(x))' = Numbered(OpenVersions(x))
  <2>1. \A j \in SubmissionIds : (j \in OpenVersions(x))' <=> j \in OpenVersions(x)
    BY <1>0, <1>1, <1>2, <1>4 DEF OpenVersions, Versions
  <2>2. \A j \in SubmissionIds : j \in OpenVersions(x) => header'[j] = header[j]
    BY <1>2, <1>4 DEF OpenVersions, Versions
  <2>3. QED
    BY <2>1, <2>2, SameOpenRows
<1>5. OpenVersions(s) = {i} /\ OpenVersions(s)' = {}
  <2>1. \A j \in SubmissionIds : j \in OpenVersions(s) <=> j = i
    BY <1>1 DEF OpenVersions, Versions, VersionInv, OneOpenVersion
  <2>2. \A j \in SubmissionIds : ~(j \in OpenVersions(s))'
    BY <1>1, <1>2, <2>1 DEF OpenVersions, Versions
  <2>3. OpenVersions(s) \subseteq SubmissionIds /\ OpenVersions(s)' \subseteq SubmissionIds
    BY DEF OpenVersions, Versions
  <2>4. QED
    BY <2>1, <2>2, <2>3
<1>6. Numbered(OpenVersions(s)) # {} /\ Numbered(OpenVersions(s))' = {}
  <2>1. <<header[i].versionNo, i>> \in Numbered(OpenVersions(s))
    BY <1>5 DEF Numbered
  <2>2. Numbered(OpenVersions(s))' = {}
    BY <1>5 DEF Numbered
  <2> QED
    BY <2>1, <2>2
<1>7. /\ candidateRows[s] # {} /\ formalRows' = formalRows
      /\ candidateRows' = [candidateRows EXCEPT ![s] = {}]
  BY <1>1, <1>3, <1>4, <1>6 DEF candidateRows, formalRows
<1>8. Abstract!Withdraw(s)
  BY <1>7 DEF Abstract!Withdraw
<1>9. QED
  BY <1>1, <1>8 DEF Abstract!Next

(* Before the first submit there is neither a formal version nor a candidate. *)
LEMMA InitRefines == Init => Abstract!Init
<1> SUFFICES ASSUME Init PROVE Abstract!Init
  OBVIOUS
<1>1. \A i \in SubmissionIds : ~IsApproved(i) /\ ~Open(i)
  BY DEF Init, AbsentEntry, IsApproved, Open, IsOpen
<1>2. \A s \in Subjects : ApprovedVersions(s) = {} /\ OpenVersions(s) = {}
  BY <1>1 DEF ApprovedVersions, OpenVersions, Versions
<1>3. \A s \in Subjects : /\ Numbered(ApprovedVersions(s)) = {}
                          /\ Numbered(OpenVersions(s)) = {}
  BY <1>2 DEF Numbered
<1>4. QED
  BY <1>3 DEF Abstract!Init, formalRows, candidateRows

(* Every step of the archives is a step of FormalVersions or a stutter.     *)
LEMMA NextRefines ==
  TypeOK /\ VersionInv /\ [Next]_vars => [Abstract!Next]_(Abstract!vars)
<1> SUFFICES ASSUME TypeOK, VersionInv, [Next]_vars
             PROVE  Abstract!Next \/ UNCHANGED Abstract!vars
  OBVIOUS
<1>1. ASSUME NEW k \in IdempotencyKeys, NEW r \in Request, NEW u \in Users,
             SubmitNew(k, r, u)
      PROVE  Abstract!Next
  <2>1. NoOpenVersion(r.subject) /\ Versions(r.subject) = {} /\ 1 \in Nat \ {0}
    BY <1>1 DEF SubmitNew, NoOpenVersion, FirstVersion
  <2>2. QED
    BY <1>1, <2>1, InsertProposes DEF SubmitNew
<1>2. ASSUME NEW k \in IdempotencyKeys, NEW r \in Request, NEW u \in Users,
             SubmitChange(k, r, u)
      PROVE  Abstract!Next
  <2>1. header[r.expectedId].versionNo + 1 \in Nat \ {0}
    BY <1>2, NextNumberTyped DEF SubmitChange, NextVersion
  <2>2. QED
    BY <1>2, <2>1, InsertProposes DEF SubmitChange, NextVersion
<1>3. ASSUME NEW i \in SubmissionIds, NEW u \in Users, NEW revision,
             Approve(i, u, revision)
      PROVE  Abstract!Next
  BY <1>3, Reviewed, ApproveAdopts DEF Approve, ApprovalAction, Write
<1>4. ASSUME NEW i \in SubmissionIds, NEW u \in Users, NEW revision, NEW reason,
             Reject(i, u, revision, reason) \/ Unreject(i, u, revision)
      PROVE  UNCHANGED Abstract!vars
  BY <1>4, Reviewed, ReviewStutters DEF Reject, Unreject, ApprovalAction, Write
<1>5. ASSUME NEW i \in SubmissionIds, NEW u \in Users, NEW revision, NEW reason,
             Unapprove(i, u, revision, reason)
      PROVE  Abstract!Next
  BY <1>5, Reviewed, UnapproveFallsBack
     DEF Unapprove, UnapproveAllowed, ApprovalAction, Write
<1>6. ASSUME NEW i \in SubmissionIds, NEW u \in Users, NEW revision,
             Delete(i, u, revision)
      PROVE  Abstract!Next
  BY <1>6, DeleteWithdraws DEF Delete, DeleteAllowed, Open, RemoveVersion
<1>7. CASE UNCHANGED <<entry, header>>
  BY <1>7 DEF Abstract!vars, formalRows, candidateRows, Numbered,
     ApprovedVersions, OpenVersions, Versions, IsApproved, Open
<1>8. QED
  BY <1>1, <1>2, <1>3, <1>4, <1>5, <1>6, <1>7, SubmitIsRequest
     DEF Next, Review, SetEnabled, vars, WriteEnablement

(* The archives implement FormalVersions: whatever is submitted, reviewed,  *)
(* deleted, enabled or disabled, a reader sees the candidate proposed,      *)
(* withdrawn or adopted, or the current version falling back by one.        *)
THEOREM ArchivesImplementFormalVersions == Spec => ImplementsFormalVersions
<1>1. Init => Abstract!Init
  BY InitRefines
<1>2. TypeOK /\ VersionInv /\ [Next]_vars => [Abstract!Next]_(Abstract!vars)
  BY NextRefines
<1>3. QED
  BY <1>1, <1>2, VersionsInvariant, PTL DEF Spec, ImplementsFormalVersions, Abstract!Spec

-------------------------------------------------------------------------------
(* The transactions.                                                        *)

-------------------------------------------------------------------------------
(* The inductive invariant.                                                 *)
Stages    == {"idle", "subject", "rows", "history", "material", "duplicates",
              "references", "commit"}
InSubject == Stages \ {"idle", "subject"}                  \* the subject is locked
Decided   == {"material", "duplicates", "references", "commit"}  \* the versions are read

Locks == ({"idempotency"} \X IdempotencyKeys) \cup ({"subject", "row"} \X Subjects)
           \cup ({"key"} \X BusinessKeys)

SubmitJob == [action : SubmitAction, idempotencyKey : IdempotencyKeys, request : Request,
              subject : Subjects, actor : Users, number : Nat \ {0}]
ReviewJob == [action : ApprovalAction \cup {"delete"}, submission : SubmissionIds,
              subject : Subjects, actor : Users, revision : Nat, reason : Reason]
EnableJob == [action : {"set-enabled"}, subject : Subjects, value : BOOLEAN, revision : Nat]

Holds(t, lock) == <<t, lock>> \in locks
Reviews(t)     == job[t].action \in ApprovalAction \cup {"delete"}

TxTypeOK ==
  /\ stage \in [Txs -> Stages]
  /\ rows \in [Txs -> SUBSET Subjects]
  /\ locks \subseteq Txs \X Locks
  /\ DOMAIN job = Txs
  /\ \A t \in Txs : /\ stage[t] = "idle" => rows[t] = {}
                    /\ stage[t] # "idle" => job[t] \in SubmitJob \cup ReviewJob \cup EnableJob

LocksExclusive ==
  \A t, u \in Txs : \A lock \in Locks : Holds(t, lock) /\ Holds(u, lock) => t = u

(* Which request may be where.                                              *)
Purposeful(t) ==
  /\ stage[t] = "subject"    => Submits(t)
  /\ stage[t] = "history"    => Submits(t) \/ job[t].action \in {"approve", "unapprove"}
  /\ stage[t] = "material"   => Submits(t) \/ job[t].action = "approve"
  /\ stage[t] = "duplicates" => Submits(t) \/ job[t].action \in {"approve", "unapprove"}
  /\ stage[t] = "references" => job[t].action = "unapprove"
  /\ stage[t] = "rows"       => job[t].action # "delete"

(* What a request is about: itself well formed, and what it names is there. *)
JobStands(t) ==
  stage[t] # "idle" =>
    /\ Submits(t) =>
       LET r == job[t].request IN
         /\ r.action = job[t].action /\ r.subject = job[t].subject
         /\ HasPermission(job[t].actor, r.action)
         /\ r.material = NoSubmission => r.materialOf = NoSubject
         /\ r.materialOf \in Subjects => code[r.materialOf] # 0
    /\ Reviews(t) => /\ Present(entry[job[t].submission])
                     /\ header[job[t].submission].subject = job[t].subject
    /\ ~ Submits(t) => code[job[t].subject] # 0

(* The locks that go with it.                                               *)
MaterialOf(t) ==
  IF Submits(t) THEN job[t].request.materialOf
  ELSE IF Reviews(t) THEN header[job[t].submission].materialOf ELSE NoSubject

RowsOf(t) == {x \in Subjects : x = MaterialOf(t) \/ (~ Submits(t) /\ x = job[t].subject)}

SubjectHeld(t) == stage[t] \in InSubject => Holds(t, <<"subject", job[t].subject>>)

RowsHeld(t) ==
  stage[t] \in InSubject /\ job[t].action # "delete" /\ FormulaPins =>
    \A x \in RowsOf(t) : Holds(t, <<"row", x>>) \/ (stage[t] = "rows" /\ x \in rows[t])

(* Each lock is taken in its turn.                                          *)
LocksInOrder(t) ==
  \A lock \in Locks : Holds(t, lock) =>
    /\ stage[t] # "idle"
    /\ lock[1] = "subject" => stage[t] \in InSubject
    /\ lock[1] = "row"     => /\ stage[t] \in InSubject
                             /\ \A x \in rows[t] : Id[lock[2]] < Id[x]
    /\ lock[1] = "key"     => stage[t] \in {"references", "commit"}

(* What it has checked.                                                     *)
HistoryStands(t) ==
  stage[t] \in Decided =>
    /\ job[t].action = "submit-new"    => FirstVersion(job[t].request)
    /\ job[t].action = "submit-change" =>
         /\ NextVersion(job[t].request)
         /\ job[t].number = header[job[t].request.expectedId].versionNo + 1
    /\ job[t].action = "approve"       => StillNext(job[t].submission)
    /\ job[t].action = "unapprove"     => /\ LatestApproved(job[t].subject, job[t].submission)
                                          /\ NoOpenVersion(job[t].subject)

MaterialStands(t) ==
  stage[t] \in {"duplicates", "commit"} =>
    /\ Submits(t) => MaterialAvailable(job[t].subject, job[t].request.materialOf,
                                       job[t].request.material)
    /\ job[t].action = "approve" => MaterialStillAvailable(job[t].submission)

StakedKeys(t) == KeyAtStake(t) \cap (IF KeyScope = "none" THEN {} ELSE BusinessKeys)

KeysStand(t) ==
  stage[t] \in {"references", "commit"}
    /\ (Submits(t) \/ job[t].action \in {"approve", "unapprove"}) =>
      \A key \in StakedKeys(t) : /\ Holds(t, <<"key", key>>)
                                 /\ ~ DuplicateBusinessKey(job[t].subject, key)

ReferencesStand(t) ==
  stage[t] = "commit" /\ job[t].action = "unapprove" => Unreferenced(job[t].submission)

Stands(t) ==
  /\ Purposeful(t) /\ JobStands(t) /\ SubjectHeld(t) /\ RowsHeld(t) /\ LocksInOrder(t)
  /\ HistoryStands(t) /\ MaterialStands(t) /\ KeysStand(t) /\ ReferencesStand(t)

MaterialsKnown ==
  \A i \in SubmissionIds : header[i].materialOf \in Subjects => code[header[i].materialOf] # 0

RevisionsBounded == \A i \in SubmissionIds : entry[i].revision <= MaxRevision

ArchivesInv == TypeOK /\ VersionInv /\ MaterialsKnown /\ RevisionsBounded

TxInv == ArchivesInv /\ TxTypeOK /\ LocksExclusive /\ \A t \in Txs : Stands(t)
-------------------------------------------------------------------------------
(* What Submit sends names a material that has a code.                      *)
LEMMA SubmitNamesKnown ==
  ASSUME TypeOK, VersionInv, Submit
  PROVE  \E k \in IdempotencyKeys, r \in Request, u \in Users :
           /\ r.materialOf \in Subjects => code[r.materialOf] # 0
           /\ SubmitNew(k, r, u) \/ SubmitChange(k, r, u)
<1>1. PICK k \in IdempotencyKeys, s \in Subjects, i \in SubmissionIds,
           key \in BusinessKeys \cup {NoKey},
           m \in (IF FormulaPins THEN SubmissionIds ELSE {}) \cup {NoSubmission},
           u \in Users :
        \/ SubmitNew(k, Requested("submit-new", s, i, key, m, NoSubmission, 0), u)
        \/ \E x \in SubmissionIds, xr \in 1..MaxRevision :
             SubmitChange(k, Requested("submit-change", s, i, key, m, x, xr), u)
  BY DEF Submit
<1> DEFINE of == IF m = NoSubmission THEN NoSubject ELSE header[m].subject
<1>2. of \in Subjects \cup {NoSubject} /\ (of \in Subjects => code[of] # 0)
  <2>1. m # NoSubmission => m \in SubmissionIds
    OBVIOUS
  <2>2. QED
    BY <2>1, RowFacts DEF VersionInv, HeadersMatchEntries
<1>3. ASSUME NEW action \in SubmitAction, NEW x \in SubmissionIds \cup {NoSubmission},
             NEW xr \in Nat
      PROVE  LET r == Requested(action, s, i, key, m, x, xr)
             IN  r \in Request /\ r.materialOf = of
  BY <1>2 DEF Requested, Request
<1>4. QED
  BY <1>1, <1>2, <1>3 DEF SubmitAction

LEMMA InitArchives == Init => ArchivesInv
<1> SUFFICES ASSUME Init PROVE ArchivesInv
  OBVIOUS
<1>1. MaterialsKnown /\ RevisionsBounded
  BY DEF Init, MaterialsKnown, RevisionsBounded, NoHeader, AbsentEntry
<1>2. QED
  BY <1>1, InitTyped, InitVersions DEF ArchivesInv

(* Materials stay known, and revisions within their bound.                  *)
LEMMA NextArchives == ArchivesInv /\ [Next]_vars => ArchivesInv'
<1> SUFFICES ASSUME ArchivesInv, [Next]_vars PROVE ArchivesInv'
  OBVIOUS
<1> USE DEF ArchivesInv
<1>1. TypeOK' /\ VersionInv'
  BY NextTyped, NextVersions
<1>2. ASSUME NEW k \in IdempotencyKeys, NEW r \in Request, NEW n \in Nat, NEW u \in Users,
             InsertVersion(k, r, n, u), r.materialOf \in Subjects => code[r.materialOf] # 0,
             \A s \in Subjects : code[s] # 0 => code'[s] # 0
      PROVE  MaterialsKnown' /\ RevisionsBounded'
  <2>1. r.submission \in SubmissionIds
    BY DEF Request
  <2>2. \A i \in SubmissionIds : i # r.submission => header'[i] = header[i] /\ entry'[i] = entry[i]
    BY <1>2 DEF InsertVersion, TypeOK
  <2>3. /\ header'[r.submission].materialOf = r.materialOf
        /\ entry'[r.submission].revision = 1
    BY <1>2, <2>1 DEF InsertVersion, TypeOK, NewEntry
  <2>4. QED
    BY <1>2, <2>1, <2>2, <2>3 DEF MaterialsKnown, RevisionsBounded
<1>3. ASSUME NEW k \in IdempotencyKeys, NEW r \in Request, NEW u \in Users,
             r.materialOf \in Subjects => code[r.materialOf] # 0, SubmitNew(k, r, u)
      PROVE  MaterialsKnown' /\ RevisionsBounded'
  <2>1. \A s \in Subjects : code[s] # 0 => code'[s] # 0
    BY <1>3 DEF SubmitNew, CreateSubject, TypeOK
  <2>2. QED
    BY <1>2, <1>3, <2>1 DEF SubmitNew
<1>4. ASSUME NEW k \in IdempotencyKeys, NEW r \in Request, NEW u \in Users,
             r.materialOf \in Subjects => code[r.materialOf] # 0, SubmitChange(k, r, u)
      PROVE  MaterialsKnown' /\ RevisionsBounded'
  <2>1. header[r.expectedId].versionNo + 1 \in Nat
    BY <1>4, NextNumberTyped DEF SubmitChange, NextVersion
  <2>2. QED
    BY <1>2, <1>4, <2>1 DEF SubmitChange, subjectVars
<1>5. ASSUME NEW i \in SubmissionIds, NEW action, NEW u, Write(i, action, u)
      PROVE  MaterialsKnown' /\ RevisionsBounded'
  <2>1. entry[i].revision \in Nat /\ entry'[i].revision = entry[i].revision + 1
    BY <1>5 DEF Write, NextEntry, TypeOK, Row, Entry, AbsentEntry
  <2>2. \A j \in SubmissionIds : j # i => entry'[j] = entry[j]
    BY <1>5 DEF Write, TypeOK
  <2>3. entry'[i].revision <= MaxRevision
    BY <1>5, <2>1 DEF Write
  <2>4. QED
    BY <1>5, <2>2, <2>3 DEF Write, subjectVars, MaterialsKnown, RevisionsBounded
<1>6. ASSUME NEW i \in SubmissionIds, RemoveVersion(i)
      PROVE  MaterialsKnown' /\ RevisionsBounded'
  <2>1. \A j \in SubmissionIds : \/ j # i /\ entry'[j] = entry[j] /\ header'[j] = header[j]
                                 \/ entry'[j] = AbsentEntry /\ header'[j] = NoHeader
    BY <1>6 DEF RemoveVersion, TypeOK
  <2>2. QED
    BY <1>6, <2>1 DEF RemoveVersion, subjectVars, MaterialsKnown, RevisionsBounded,
       AbsentEntry, NoHeader
<1>7. CASE UNCHANGED <<code, entry, header>>
  BY <1>1, <1>7 DEF MaterialsKnown, RevisionsBounded
<1>8. QED
  BY <1>1, <1>3, <1>4, <1>5, <1>6, <1>7, SubmitNamesKnown
     DEF Next, Review, Approve, Reject, Unreject, Unapprove, Delete, SetEnabled,
         WriteEnablement, vars
-------------------------------------------------------------------------------
(* A step of t that writes nothing: every other transaction keeps what it   *)
(* has.                                                                     *)
Rests(u) ==
  /\ job'[u] = job[u] /\ stage'[u] = stage[u] /\ rows'[u] = rows[u]
  /\ \A lock \in Locks : Holds(u, lock)' <=> Holds(u, lock)

Alone(t) == \A u \in Txs \ {t} : Rests(u)

LEMMA RestingKeeps ==
  ASSUME TxInv, NEW u \in Txs, Rests(u), UNCHANGED vars
  PROVE  Stands(u)'
<1>1. /\ job'[u] = job[u] /\ stage'[u] = stage[u] /\ rows'[u] = rows[u]
      /\ \A lock \in Locks : Holds(u, lock)' <=> Holds(u, lock)
  BY DEF Rests
<1>2. Stands(u)
  BY DEF TxInv
<1>3. stage[u] # "idle" => job[u].subject \in Subjects
  BY DEF TxInv, TxTypeOK, SubmitJob, ReviewJob, EnableJob
<1>4. Purposeful(u)'
  BY <1>1, <1>2 DEF Stands, Purposeful, Submits
<1>5. JobStands(u)'
  BY <1>1, <1>2 DEF Stands, JobStands, Submits, Reviews, vars
<1>6. SubjectHeld(u)'
  <2>1. stage[u] \in InSubject => <<"subject", job[u].subject>> \in Locks
    BY <1>3 DEF Locks, InSubject, Stages
  <2>2. QED
    BY <1>1, <1>2, <2>1 DEF Stands, SubjectHeld
<1>7. RowsHeld(u)'
  <2>1. \A x \in Subjects : <<"row", x>> \in Locks
    BY DEF Locks
  <2>2. RowsOf(u)' = RowsOf(u) /\ RowsOf(u) \subseteq Subjects
    BY <1>1 DEF RowsOf, MaterialOf, Submits, Reviews, vars
  <2>3. QED
    BY <1>1, <1>2, <2>1, <2>2 DEF Stands, RowsHeld
<1>8. LocksInOrder(u)'
  BY <1>1, <1>2 DEF Stands, LocksInOrder
<1>9. HistoryStands(u)'
  BY <1>1, <1>2 DEF Stands, HistoryStands, vars, FirstVersion, NextVersion, StillNext,
     LatestApproved, NoOpenVersion, Versions, Open, IsApproved
<1>10. MaterialStands(u)'
  BY <1>1, <1>2 DEF Stands, MaterialStands, vars, Submits, MaterialAvailable,
     MaterialStillAvailable, LatestApproved, Versions, IsApproved
<1>11. KeysStand(u)'
  <2>1. StakedKeys(u)' = StakedKeys(u)
    BY <1>1 DEF StakedKeys, KeyAtStake, Submits, Previous, Versions, IsApproved, vars
  <2>2. \A key : DuplicateBusinessKey(job[u].subject, key)' =>
                   DuplicateBusinessKey(job[u].subject, key)
    BY <1>1 DEF DuplicateBusinessKey, Reserves, LatestApproved, Versions, Open, IsApproved, vars
  <2>3. \A key \in StakedKeys(u) : <<"key", key>> \in Locks
    BY DEF StakedKeys, Locks
  <2>4. QED
    BY <1>1, <1>2, <2>1, <2>2, <2>3 DEF Stands, KeysStand, Submits
<1>12. ReferencesStand(u)'
  BY <1>1, <1>2 DEF Stands, ReferencesStand, Unreferenced, IsApproved, vars
<1>13. QED
  BY <1>4, <1>5, <1>6, <1>7, <1>8, <1>9, <1>10, <1>11, <1>12 DEF Stands

(* A step that writes nothing need only keep the order of the one that      *)
(* takes it.                                                                *)
LEMMA QuietStep ==
  ASSUME TxInv, NEW t \in Txs, Alone(t), UNCHANGED vars, TxTypeOK', LocksExclusive',
         Stands(t)'
  PROVE  TxInv'
<1>1. ArchivesInv'
  BY NextArchives DEF TxInv
<1>2. QED
  BY <1>1, RestingKeeps DEF TxInv, Alone

(* A lock is taken only if nobody else holds it, and given back.            *)
LEMMA TakeExclusive ==
  ASSUME TxInv, NEW t \in Txs, NEW lock \in Locks, Take(t, lock)
  PROVE  /\ LocksExclusive' /\ locks' \subseteq Txs \X Locks
         /\ \A l \in Locks : Holds(t, l)' <=> Holds(t, l) \/ l = lock
         /\ \A u \in Txs \ {t} : \A l \in Locks : Holds(u, l)' <=> Holds(u, l)
<1>1. locks' = locks \cup {<<t, lock>>} /\ \A u \in Txs : Holds(u, lock) => u = t
  BY DEF Take, Available, Holds
<1>2. QED
  BY <1>1 DEF TxInv, TxTypeOK, LocksExclusive, Holds

LEMMA FinishLocks ==
  ASSUME TxInv, NEW t \in Txs, Finish(t)
  PROVE  /\ LocksExclusive' /\ TxTypeOK' /\ Alone(t) /\ Stands(t)'
<1>1. \A u \in Txs : \A l \in Locks : Holds(u, l)' <=> Holds(u, l) /\ u # t
  BY DEF Finish, Holds
<1>2. stage'[t] = "idle" /\ job'[t] = NoJob /\ rows'[t] = {}
  BY DEF Finish, TxInv, TxTypeOK
<1>3. TxTypeOK'
  BY DEF Finish, TxInv, TxTypeOK, Stages
<1>4. LocksExclusive'
  BY <1>1 DEF TxInv, LocksExclusive
<1>5. Alone(t)
  BY <1>1 DEF Finish, TxInv, TxTypeOK, Alone, Rests
<1>6. Stands(t)'
  BY <1>1, <1>2 DEF Stands, Purposeful, JobStands, SubjectHeld, RowsHeld, LocksInOrder,
     HistoryStands, MaterialStands, KeysStand, ReferencesStand, InSubject, Decided
<1>7. QED
  BY <1>3, <1>4, <1>5, <1>6
-------------------------------------------------------------------------------
(* An idle transaction holds nothing.                                       *)
LEMMA IdleHoldsNothing ==
  ASSUME TxInv, NEW t \in Txs, stage[t] = "idle"
  PROVE  \A lock \in Locks : ~ Holds(t, lock)
BY DEF TxInv, Stands, LocksInOrder

LEMMA BeginSubmitKeeps ==
  ASSUME TxInv, NEW t \in Txs, NEW k \in IdempotencyKeys, NEW r \in Request, NEW u \in Users,
         BeginSubmit(t, k, r, u),
         r.material = NoSubmission => r.materialOf = NoSubject,
         r.materialOf \in Subjects => code[r.materialOf] # 0
  PROVE  TxInv'
<1> DEFINE lock == <<"idempotency", k>>
<1>1. lock \in Locks /\ Take(t, lock)
  BY DEF Locks, BeginSubmit
<1>2. /\ LocksExclusive' /\ locks' \subseteq Txs \X Locks
      /\ \A l \in Locks : Holds(t, l)' <=> Holds(t, l) \/ l = lock
      /\ \A v \in Txs \ {t} : \A l \in Locks : Holds(v, l)' <=> Holds(v, l)
  BY <1>1, TakeExclusive
<1>3. /\ DOMAIN job = Txs /\ stage \in [Txs -> Stages] /\ UNCHANGED <<vars, rows>>
      /\ stage' = [stage EXCEPT ![t] = "subject"]
      /\ job' = [job EXCEPT ![t] = job'[t]] /\ job'[t].action = r.action
      /\ job'[t] = [action |-> r.action, idempotencyKey |-> k, request |-> r,
                    subject |-> r.subject, actor |-> u, number |-> 1]
  BY DEF BeginSubmit, Goto, TxInv, TxTypeOK
<1>4. job'[t] \in SubmitJob
  BY <1>3 DEF SubmitJob, Request
<1>5. Alone(t)
  BY <1>2, <1>3 DEF Alone, Rests
<1>6. TxTypeOK'
  BY <1>2, <1>3, <1>4 DEF TxInv, TxTypeOK, Stages
<1>7. LocksInOrder(t)'
  BY <1>2, IdleHoldsNothing, <1>3 DEF LocksInOrder, BeginSubmit
<1>8. JobStands(t)'
  <2>1. Submits(t)' /\ ~ Reviews(t)'
    BY <1>3 DEF Submits, Reviews, Request, SubmitAction, ApprovalAction
  <2>2. HasPermission(u, r.action)
    BY DEF BeginSubmit
  <2>3. QED
    BY <1>3, <2>1, <2>2 DEF JobStands, vars
<1>9. Stands(t)'
  <2>1. stage'[t] = "subject" /\ Submits(t)'
    BY <1>3 DEF Submits, Request
  <2>2. QED
    BY <1>7, <1>8, <2>1 DEF Stands, Purposeful, SubjectHeld, RowsHeld, InSubject,
       HistoryStands, MaterialStands, KeysStand, ReferencesStand, Decided
<1>10. QED
  BY <1>2, <1>3, <1>5, <1>6, <1>9, QuietStep

LEMMA BeginReviewKeeps ==
  ASSUME TxInv, NEW t \in Txs, NEW action \in ApprovalAction \cup {"delete"},
         NEW i \in SubmissionIds, NEW u \in Users, NEW revision \in Nat, NEW reason \in Reason,
         BeginReview(t, action, i, u, revision, reason)
  PROVE  TxInv'
<1> DEFINE s == header[i].subject
           lock == <<"subject", s>>
<1>0. TypeOK /\ VersionInv /\ MaterialsKnown
  BY DEF TxInv, ArchivesInv
<1>1. /\ Present(entry[i]) /\ s \in Subjects /\ code[s] # 0 /\ Take(t, lock)
      /\ header[i].materialOf \in Subjects => code[header[i].materialOf] # 0
  BY <1>0, RowFacts DEF BeginReview, VersionInv, HeadersMatchEntries, MaterialsKnown
<1>2. lock \in Locks
  BY <1>1 DEF Locks
<1>3. /\ LocksExclusive' /\ locks' \subseteq Txs \X Locks
      /\ \A l \in Locks : Holds(t, l)' <=> Holds(t, l) \/ l = lock
      /\ \A v \in Txs \ {t} : \A l \in Locks : Holds(v, l)' <=> Holds(v, l)
  BY <1>1, <1>2, TakeExclusive
<1>4. /\ DOMAIN job = Txs /\ stage \in [Txs -> Stages] /\ rows \in [Txs -> SUBSET Subjects]
      /\ UNCHANGED vars
      /\ stage' = [stage EXCEPT ![t] = IF action = "delete" THEN "commit" ELSE "rows"]
      /\ rows' = [rows EXCEPT ![t] = IF action = "delete" THEN {}
                                     ELSE ProductRows(s, header[i].materialOf)]
      /\ job' = [job EXCEPT ![t] = job'[t]]
      /\ job'[t] = [action |-> action, submission |-> i, subject |-> s,
                    actor |-> u, revision |-> revision, reason |-> reason]
  BY DEF BeginReview, Goto, TxInv, TxTypeOK
<1>5. job'[t] \in ReviewJob
  BY <1>1, <1>4 DEF ReviewJob
<1>6. Alone(t)
  BY <1>3, <1>4 DEF Alone, Rests
<1>7. TxTypeOK'
  BY <1>3, <1>4, <1>5 DEF TxInv, TxTypeOK, Stages, ProductRows
<1>8. LocksInOrder(t)'
  BY <1>3, <1>4, IdleHoldsNothing DEF LocksInOrder, BeginReview, InSubject, Stages
<1>9. Reviews(t)' /\ ~ Submits(t)' /\ job'[t].action = action
  BY <1>4 DEF Reviews, Submits, SubmitAction, ApprovalAction
<1>10. JobStands(t)' /\ SubjectHeld(t)'
  BY <1>1, <1>2, <1>3, <1>4, <1>9 DEF JobStands, SubjectHeld, vars
<1>11. RowsHeld(t)'
  BY <1>1, <1>4, <1>9 DEF RowsHeld, RowsOf, MaterialOf, ProductRows, vars
<1>12. Purposeful(t)'
  BY <1>4, <1>9 DEF Purposeful
<1>13. Stands(t)'
  BY <1>4, <1>8, <1>9, <1>10, <1>11, <1>12 DEF Stands, HistoryStands, MaterialStands,
     KeysStand, ReferencesStand, Decided, ApprovalAction, SubmitAction
<1>14. QED
  BY <1>3, <1>4, <1>6, <1>7, <1>13, QuietStep

LEMMA BeginSetEnabledKeeps ==
  ASSUME TxInv, NEW t \in Txs, NEW s \in Subjects, NEW value \in BOOLEAN, NEW revision \in Nat,
         BeginSetEnabled(t, s, value, revision)
  PROVE  TxInv'
<1> DEFINE lock == <<"subject", s>>
<1>1. lock \in Locks /\ Take(t, lock) /\ code[s] # 0
  BY DEF Locks, BeginSetEnabled
<1>3. /\ LocksExclusive' /\ locks' \subseteq Txs \X Locks
      /\ \A l \in Locks : Holds(t, l)' <=> Holds(t, l) \/ l = lock
      /\ \A v \in Txs \ {t} : \A l \in Locks : Holds(v, l)' <=> Holds(v, l)
  BY <1>1, TakeExclusive
<1>4. /\ DOMAIN job = Txs /\ stage \in [Txs -> Stages] /\ rows \in [Txs -> SUBSET Subjects]
      /\ UNCHANGED vars
      /\ stage' = [stage EXCEPT ![t] = "rows"]
      /\ rows' = [rows EXCEPT ![t] = ProductRows(s, s)]
      /\ job' = [job EXCEPT ![t] = job'[t]]
      /\ job'[t] = [action |-> "set-enabled", subject |-> s,
                    value |-> value, revision |-> revision]
  BY DEF BeginSetEnabled, Goto, TxInv, TxTypeOK
<1>5. job'[t] \in EnableJob
  BY <1>4 DEF EnableJob
<1>6. Alone(t)
  BY <1>3, <1>4 DEF Alone, Rests
<1>7. TxTypeOK'
  BY <1>3, <1>4, <1>5 DEF TxInv, TxTypeOK, Stages, ProductRows
<1>8. LocksInOrder(t)'
  BY <1>3, <1>4, IdleHoldsNothing DEF LocksInOrder, BeginSetEnabled, InSubject, Stages
<1>9. ~ Reviews(t)' /\ ~ Submits(t)' /\ job'[t].action = "set-enabled"
  BY <1>4 DEF Reviews, Submits, SubmitAction, ApprovalAction
<1>10. JobStands(t)' /\ SubjectHeld(t)'
  BY <1>1, <1>3, <1>4, <1>9 DEF JobStands, SubjectHeld, vars
<1>11. RowsHeld(t)'
  BY <1>1, <1>4, <1>9 DEF RowsHeld, RowsOf, MaterialOf, ProductRows, vars
<1>12. QED
  <2>1. Stands(t)'
    BY <1>4, <1>8, <1>9, <1>10, <1>11 DEF Stands, Purposeful, HistoryStands, MaterialStands,
       KeysStand, ReferencesStand, Decided
  <2>2. QED
    BY <1>3, <1>4, <1>6, <1>7, <2>1, QuietStep

(* What a stage tells of a transaction that has begun.                      *)
LEMMA JobFacts ==
  ASSUME TxInv, NEW t \in Txs, stage[t] # "idle"
  PROVE  /\ job[t].subject \in Subjects
         /\ Submits(t) => /\ job[t] \in SubmitJob /\ ~ Reviews(t)
                          /\ job[t].request \in Request
                          /\ job[t].request.subject = job[t].subject
         /\ Reviews(t) => /\ job[t] \in ReviewJob /\ ~ Submits(t)
                          /\ job[t].submission \in SubmissionIds
                          /\ header[job[t].submission].subject = job[t].subject
         /\ Submits(t) \/ Reviews(t) \/ (job[t].action = "set-enabled" /\ job[t] \in EnableJob)
         /\ Stands(t)
         /\ TypeOK /\ VersionInv
<1>1. job[t] \in SubmitJob \cup ReviewJob \cup EnableJob /\ Stands(t) /\ JobStands(t)
  BY DEF TxInv, TxTypeOK, Stands
<1>2. TypeOK /\ VersionInv
  BY DEF TxInv, ArchivesInv
<1>3. CASE job[t] \in SubmitJob
  BY <1>1, <1>2, <1>3 DEF SubmitJob, Submits, Reviews, SubmitAction, ApprovalAction, JobStands
<1>4. CASE job[t] \in ReviewJob
  BY <1>1, <1>2, <1>4 DEF ReviewJob, Submits, Reviews, SubmitAction, ApprovalAction, JobStands
<1>5. CASE job[t] \in EnableJob
  BY <1>1, <1>2, <1>5 DEF EnableJob, Submits, Reviews, SubmitAction, ApprovalAction
<1>6. QED
  BY <1>1, <1>3, <1>4, <1>5

LEMMA LockSubjectKeeps ==
  ASSUME TxInv, NEW t \in Txs, LockSubject(t)
  PROVE  TxInv'
<1> DEFINE s == job[t].subject
           lock == <<"subject", s>>
<1>1. stage[t] = "subject" /\ Submits(t) /\ Take(t, lock)
  BY DEF LockSubject, TxInv, Stands, Purposeful
<1>2. s \in Subjects /\ lock \in Locks /\ Stands(t) /\ ~ Reviews(t)
  BY <1>1, JobFacts DEF Locks
<1>3. /\ LocksExclusive' /\ locks' \subseteq Txs \X Locks
      /\ \A l \in Locks : Holds(t, l)' <=> Holds(t, l) \/ l = lock
      /\ \A v \in Txs \ {t} : \A l \in Locks : Holds(v, l)' <=> Holds(v, l)
  BY <1>1, <1>2, TakeExclusive
<1>4. /\ stage \in [Txs -> Stages] /\ rows \in [Txs -> SUBSET Subjects]
      /\ UNCHANGED <<vars, job>>
      /\ stage' = [stage EXCEPT ![t] = "rows"]
      /\ rows' = [rows EXCEPT ![t] = ProductRows(s, job[t].request.materialOf)]
  BY DEF LockSubject, Goto, TxInv, TxTypeOK
<1>5. Alone(t)
  BY <1>3, <1>4 DEF Alone, Rests
<1>6. TxTypeOK'
  BY <1>1, <1>3, <1>4 DEF TxInv, TxTypeOK, Stages, ProductRows
<1>7. LocksInOrder(t)'
  <2>1. \A l \in Locks : Holds(t, l) => l[1] \notin {"subject", "row", "key"}
    BY <1>1, <1>2 DEF Stands, LocksInOrder, InSubject
  <2>2. QED
    BY <1>3, <1>4, <2>1 DEF LocksInOrder, InSubject, Stages
<1>8. JobStands(t)' /\ SubjectHeld(t)'
  BY <1>1, <1>2, <1>3, <1>4 DEF Stands, JobStands, SubjectHeld, vars, Submits, Reviews
<1>9. RowsHeld(t)'
  <2>1. job[t].request.materialOf \in Subjects => code[job[t].request.materialOf] # 0
    BY <1>1, <1>2 DEF Stands, JobStands
  <2>2. QED
    BY <1>1, <1>4, <2>1 DEF RowsHeld, RowsOf, MaterialOf, ProductRows, vars, Submits
<1>10. Stands(t)'
  <2>1. job'[t].action # "delete"
    BY <1>1, <1>4 DEF Submits, SubmitAction
  <2>2. QED
    BY <1>4, <1>7, <1>8, <1>9, <2>1 DEF Stands, Purposeful, HistoryStands, MaterialStands,
       KeysStand, ReferencesStand, Decided
<1>11. QED
  BY <1>3, <1>4, <1>5, <1>6, <1>10, QuietStep

(* The rows are locked by their ids.                                        *)
LEMMA NextRowIsLeast ==
  ASSUME TxInv, NEW t \in Txs, rows[t] # {}
  PROVE  /\ NextRow(t) \in rows[t] /\ NextRow(t) \in Subjects
         /\ \A x \in rows[t] : Id[NextRow(t)] <= Id[x]
<1> USE TransactionsAssumption
<1> DEFINE Below(x) == {y \in Subjects : Id[y] < Id[x]}
           C == {Below(x) : x \in rows[t]}
<1>1. rows[t] \subseteq Subjects
  BY DEF TxInv, TxTypeOK
<1>2. PICK B \in C : \A D \in C : D \subseteq B => D = B
  <2>1. C # {} /\ C \in SUBSET SUBSET Subjects
    <3>1. \A x \in rows[t] : Below(x) \in C
      OBVIOUS
    <3>2. \A B \in C : B \in SUBSET Subjects
      OBVIOUS
    <3> HIDE DEF C
    <3> QED BY <3>1, <3>2
  <2> HIDE DEF C
  <2> QED BY <2>1, MinimalSet
<1>3. PICK x \in rows[t] : B = Below(x)
  BY <1>2
<1>4. \A y \in rows[t] : Id[x] <= Id[y]
  <2>1. SUFFICES ASSUME NEW y \in rows[t], Id[y] < Id[x] PROVE FALSE
    BY <1>1
  <2>2. Below(y) \subseteq Below(x) /\ y \in Below(x) /\ y \notin Below(y)
    BY <1>1, <2>1
  <2>3. Below(y) \in C
    OBVIOUS
  <2> HIDE DEF C
  <2>4. Below(y) = Below(x)
    BY <1>2, <1>3, <2>2, <2>3
  <2> HIDE DEF Below
  <2>5. QED
    BY <2>2, <2>4
<1>5. QED
  BY <1>1, <1>4 DEF NextRow

LEMMA LockRowKeeps ==
  ASSUME TxInv, NEW t \in Txs, LockRow(t)
  PROVE  TxInv'
<1>1. /\ stage[t] = "rows" /\ UNCHANGED <<vars, job>>
      /\ stage \in [Txs -> Stages] /\ rows \in [Txs -> SUBSET Subjects]
      /\ TxTypeOK /\ LocksExclusive
  BY DEF LockRow, TxInv, TxTypeOK
<1>2. Stands(t) /\ job[t].action # "delete" /\ job[t].subject \in Subjects
  BY <1>1, JobFacts DEF Stands, Purposeful
<1>3. JobStands(t)' /\ (Submits(t)' <=> Submits(t)) /\ (Reviews(t)' <=> Reviews(t))
      /\ RowsOf(t)' = RowsOf(t) /\ RowsOf(t) \subseteq Subjects
      /\ (stage'[t] # "idle" => stage[t] # "idle")
  BY <1>1, <1>2 DEF Stands, JobStands, vars, Submits, Reviews, RowsOf, MaterialOf
<1>4. CASE rows[t] = {}
  <2> DEFINE to == IF job[t].action \in {"reject", "unreject", "set-enabled"}
                     THEN "commit" ELSE "history"
  <2>1. /\ UNCHANGED <<rows, locks>> /\ stage' = [stage EXCEPT ![t] = to]
        /\ stage'[t] = to
    BY <1>1, <1>4 DEF LockRow, Goto
  <2>2. Alone(t) /\ TxTypeOK' /\ LocksExclusive'
    BY <1>1, <2>1 DEF Alone, Rests, TxTypeOK, LocksExclusive, Holds, Stages
  <2>3. SubjectHeld(t)' /\ RowsHeld(t)' /\ LocksInOrder(t)'
    <3>1. SubjectHeld(t)' /\ LocksInOrder(t)'
      BY <1>1, <1>2, <2>1 DEF Stands, SubjectHeld, LocksInOrder, Holds, InSubject, Stages
    <3>2. RowsHeld(t)'
      BY <1>1, <1>2, <1>3, <1>4, <2>1 DEF Stands, RowsHeld, Holds, InSubject, Stages
    <3>3. QED
      BY <3>1, <3>2
  <2>4. Purposeful(t)'
    BY <1>1, <1>2, <1>3, <2>1, JobFacts DEF Purposeful, Submits, Reviews, ApprovalAction
  <2>5. HistoryStands(t)' /\ MaterialStands(t)' /\ KeysStand(t)' /\ ReferencesStand(t)'
    BY <1>1, <2>1 DEF HistoryStands, MaterialStands, KeysStand, ReferencesStand, Decided,
       Submits, SubmitAction
  <2>6. QED
    BY <1>1, <1>3, <2>2, <2>3, <2>4, <2>5, QuietStep DEF Stands
<1>5. CASE rows[t] # {}
  <2> DEFINE x == NextRow(t)
             lock == <<"row", x>>
  <2>1. /\ x \in rows[t] /\ x \in Subjects /\ \A y \in rows[t] : Id[x] <= Id[y]
        /\ lock \in Locks
    BY <1>5, NextRowIsLeast DEF Locks
  <2>2. Take(t, lock) /\ rows' = [rows EXCEPT ![t] = @ \ {x}] /\ UNCHANGED stage
    BY <1>5 DEF LockRow
  <2>3. /\ LocksExclusive' /\ locks' \subseteq Txs \X Locks
        /\ \A l \in Locks : Holds(t, l)' <=> Holds(t, l) \/ l = lock
        /\ \A v \in Txs \ {t} : \A l \in Locks : Holds(v, l)' <=> Holds(v, l)
    BY <2>1, <2>2, TakeExclusive
  <2>4. Alone(t) /\ TxTypeOK'
    <3>1. Alone(t)
      BY <1>1, <2>2, <2>3 DEF Alone, Rests
    <3>2. TxTypeOK'
      BY <1>1, <2>2, <2>3 DEF TxTypeOK
    <3>3. QED
      BY <3>1, <3>2
  <2>5. SubjectHeld(t)'
    <3>1. <<"subject", job[t].subject>> \in Locks
      BY <1>2 DEF Locks
    <3>2. QED
      BY <1>1, <1>2, <2>2, <2>3, <3>1 DEF Stands, SubjectHeld
  <2>6. RowsHeld(t)'
    <3>1. rows'[t] = rows[t] \ {x} /\ \A y \in Subjects : <<"row", y>> \in Locks
      BY <1>1, <2>2 DEF Locks
    <3>2. \A y \in Subjects : Holds(t, <<"row", y>>)' <=> Holds(t, <<"row", y>>) \/ y = x
      BY <2>3, <3>1
    <3>3. QED
      BY <1>1, <1>2, <1>3, <2>2, <3>1, <3>2 DEF Stands, RowsHeld, InSubject, Stages
  <2>7. LocksInOrder(t)'
    <3>1. rows'[t] = rows[t] \ {x} /\ rows[t] \subseteq Subjects
      BY <1>1, <2>2
    <3>2. \A y \in rows'[t] : Id[x] < Id[y]
      BY <2>1, <3>1, TransactionsAssumption
    <3>3. QED
      BY <1>1, <1>2, <2>1, <2>2, <2>3, <3>1, <3>2 DEF Stands, LocksInOrder, InSubject, Stages
  <2>8. Purposeful(t)' /\ HistoryStands(t)' /\ MaterialStands(t)' /\ KeysStand(t)'
        /\ ReferencesStand(t)'
    BY <1>1, <1>2, <2>2 DEF Purposeful, HistoryStands, MaterialStands, KeysStand,
       ReferencesStand, Decided
  <2>9. QED
    BY <1>1, <1>3, <2>3, <2>4, <2>5, <2>6, <2>7, <2>8, QuietStep DEF Stands
<1>6. QED
  BY <1>4, <1>5

(* A read moves on; at most the number of the new version is remembered.    *)
LEMMA ReadStep ==
  ASSUME TxInv, NEW t \in Txs, NEW to, UNCHANGED <<vars, rows, locks>>,
         stage' = [stage EXCEPT ![t] = to],
         \/ stage[t] \in {"history", "material"} /\ to \in {"material", "duplicates"}
         \/ stage[t] = "references" /\ to = "commit",
         \/ UNCHANGED job
         \/ \E n \in Nat \ {0} : Submits(t) /\ job' = [job EXCEPT ![t].number = n]
  PROVE  /\ Alone(t) /\ TxTypeOK' /\ LocksExclusive' /\ stage'[t] = to
         /\ JobStands(t)' /\ SubjectHeld(t)' /\ RowsHeld(t)' /\ LocksInOrder(t)'
         /\ Submits(t)' <=> Submits(t)
         /\ job'[t].action = job[t].action /\ job'[t].subject = job[t].subject
         /\ Submits(t) => job'[t].request = job[t].request
         /\ Reviews(t) => job'[t] = job[t]
<1>1. /\ stage \in [Txs -> Stages] /\ DOMAIN job = Txs /\ TxTypeOK /\ LocksExclusive
      /\ stage[t] # "idle" /\ stage[t] \in InSubject /\ stage[t] # "rows"
      /\ to \in InSubject /\ to # "rows" /\ to \in Stages
  BY DEF TxInv, TxTypeOK, InSubject, Stages
<1>2. stage'[t] = to /\ \A u \in Txs \ {t} : stage'[u] = stage[u] /\ job'[u] = job[u]
  BY <1>1
<1>3. /\ job'[t].action = job[t].action /\ job'[t].subject = job[t].subject
      /\ Submits(t) => /\ job'[t].request = job[t].request /\ job'[t].actor = job[t].actor
                       /\ job'[t] \in SubmitJob
      /\ ~ Submits(t) => job'[t] = job[t]
  <2>1. CASE UNCHANGED job
    BY <1>1, <2>1, JobFacts
  <2>2. CASE \E n \in Nat \ {0} : Submits(t) /\ job' = [job EXCEPT ![t].number = n]
    <3>1. PICK n \in Nat \ {0} : job' = [job EXCEPT ![t].number = n]
      BY <2>2
    <3>2. job[t] \in SubmitJob /\ job'[t] = [job[t] EXCEPT !.number = n]
      BY <1>1, <2>2, <3>1, JobFacts
    <3>3. QED
      BY <2>2, <3>2 DEF SubmitJob
  <2>3. QED
    BY <2>1, <2>2
<1>4. Stands(t) /\ (Reviews(t) => ~ Submits(t)) /\ job[t].subject \in Subjects
  BY <1>1, JobFacts
<1>5. (Submits(t)' <=> Submits(t)) /\ (Reviews(t)' <=> Reviews(t)) /\ RowsOf(t)' = RowsOf(t)
  BY <1>3, <1>4 DEF Submits, Reviews, RowsOf, MaterialOf, vars
<1>6. Alone(t) /\ LocksExclusive'
  BY <1>1, <1>2 DEF Alone, Rests, Holds, LocksExclusive
<1>7. TxTypeOK'
  <2>1. DOMAIN job' = Txs
    BY <1>1
  <2>2. job'[t] \in SubmitJob \cup ReviewJob \cup EnableJob
    BY <1>1, <1>3 DEF TxTypeOK
  <2>3. QED
    BY <1>1, <1>2, <2>1, <2>2 DEF TxTypeOK
<1>8. JobStands(t)'
  BY <1>1, <1>2, <1>3, <1>4, <1>5 DEF Stands, JobStands, vars
<1>9. SubjectHeld(t)' /\ LocksInOrder(t)'
  BY <1>1, <1>2, <1>3, <1>4 DEF Stands, SubjectHeld, LocksInOrder, Holds
<1>10. RowsHeld(t)'
  BY <1>1, <1>2, <1>3, <1>4, <1>5 DEF Stands, RowsHeld, Holds
<1>11. QED
  BY <1>2, <1>3, <1>4, <1>5, <1>6, <1>7, <1>8, <1>9, <1>10

LEMMA ReadHistoryKeeps ==
  ASSUME TxInv, NEW t \in Txs, ReadHistory(t)
  PROVE  TxInv'
<1> DEFINE to == IF job[t].action = "unapprove" THEN "duplicates" ELSE "material"
           s == job[t].subject
           x == job[t].request.expectedId
<1>1. /\ stage[t] = "history" /\ UNCHANGED <<vars, rows, locks>>
      /\ stage' = [stage EXCEPT ![t] = to]
  BY DEF ReadHistory, Goto
<1>2. CASE UNCHANGED job /\ job[t].action # "submit-change"
  <2>0. to \in {"material", "duplicates"}
    OBVIOUS
  <2>1. /\ Alone(t) /\ TxTypeOK' /\ LocksExclusive' /\ stage'[t] = to
        /\ JobStands(t)' /\ SubjectHeld(t)' /\ RowsHeld(t)' /\ LocksInOrder(t)'
    <3> HIDE DEF to
    <3> QED BY <1>1, <1>2, <2>0, ReadStep
  <2>2. HistoryStands(t)'
    BY <1>1, <1>2 DEF ReadHistory, HistoryStands, FirstVersion, StillNext, LatestApproved,
       NoOpenVersion, Versions, Open, IsApproved, vars
  <2>3. Stands(t) /\ Purposeful(t) /\ (Submits(t)' <=> Submits(t))
    BY <1>1, <1>2, JobFacts DEF Stands, Submits
  <2>4. Purposeful(t)' /\ MaterialStands(t)' /\ KeysStand(t)' /\ ReferencesStand(t)'
    <3>1. Purposeful(t)'
      BY <1>1, <1>2, <2>1, <2>3 DEF Purposeful, Submits, SubmitAction
    <3>2. MaterialStands(t)'
      BY <1>1, <1>2, <2>1 DEF MaterialStands, Submits, SubmitAction
    <3>3. QED
      BY <1>1, <2>1, <3>1, <3>2 DEF KeysStand, ReferencesStand
  <2>5. QED
    BY <1>1, <2>1, <2>2, <2>4, QuietStep DEF Stands
<1>3. CASE job[t].action = "submit-change"
  <2>1. /\ NextVersion(job[t].request) /\ Submits(t) /\ to = "material" /\ x \in SubmissionIds
        /\ job' = [job EXCEPT ![t].number = header[x].versionNo + 1]
    BY <1>3 DEF ReadHistory, Submits, SubmitAction, NextVersion
  <2>2. header[x].versionNo + 1 \in Nat \ {0} /\ DOMAIN job = Txs /\ job[t] \in SubmitJob
    BY <1>1, <2>1, JobFacts, NextNumberTyped DEF TxInv, TxTypeOK
  <2>3. /\ Alone(t) /\ TxTypeOK' /\ LocksExclusive' /\ stage'[t] = to
        /\ JobStands(t)' /\ SubjectHeld(t)' /\ RowsHeld(t)' /\ LocksInOrder(t)'
        /\ job'[t].request = job[t].request /\ job'[t].action = "submit-change"
        /\ Submits(t)'
    <3>1. \E n \in Nat \ {0} : Submits(t) /\ job' = [job EXCEPT ![t].number = n]
      BY <2>1, <2>2
    <3>2. stage' = [stage EXCEPT ![t] = "material"]
      BY <1>1, <2>1
    <3>3. QED
      BY <1>1, <1>3, <2>1, <3>1, <3>2, ReadStep
  <2>4. job'[t].number = header[x].versionNo + 1
    BY <2>1, <2>2 DEF SubmitJob
  <2>5. NextVersion(job[t].request)'
    <3>1. job[t].request' = job[t].request
      BY <2>3
    <3>2. QED
      BY <1>1, <2>1, <3>1 DEF NextVersion, LatestApproved, NoOpenVersion, Versions, Open,
         IsApproved, vars
  <2>6. HistoryStands(t)'
    BY <1>1, <2>3, <2>4, <2>5 DEF HistoryStands, vars
  <2>7. Purposeful(t)' /\ MaterialStands(t)' /\ KeysStand(t)' /\ ReferencesStand(t)'
    BY <1>3, <2>1, <2>3 DEF Purposeful, MaterialStands, KeysStand, ReferencesStand
  <2>8. QED
    BY <1>1, <2>3, <2>6, <2>7, QuietStep DEF Stands
<1>4. QED
  BY <1>2, <1>3 DEF ReadHistory

LEMMA ReadMaterialKeeps ==
  ASSUME TxInv, NEW t \in Txs, ReadMaterial(t)
  PROVE  TxInv'
<1>1. /\ stage[t] = "material" /\ UNCHANGED <<vars, job, rows, locks>>
      /\ stage' = [stage EXCEPT ![t] = "duplicates"]
  BY DEF ReadMaterial, Goto
<1>2. /\ Alone(t) /\ TxTypeOK' /\ LocksExclusive' /\ stage'[t] = "duplicates"
      /\ JobStands(t)' /\ SubjectHeld(t)' /\ RowsHeld(t)' /\ LocksInOrder(t)'
  BY <1>1, ReadStep
<1>3. Stands(t)
  BY <1>1, JobFacts
<1>4. HistoryStands(t)'
  BY <1>1, <1>3 DEF Stands, HistoryStands, Decided, vars, FirstVersion, NextVersion, StillNext,
     LatestApproved, NoOpenVersion, Versions, Open, IsApproved
<1>5. MaterialStands(t)'
  BY <1>1, <1>2 DEF ReadMaterial, MaterialStands, vars, Submits, SubmitAction,
     MaterialAvailable, MaterialStillAvailable, LatestApproved, Versions, IsApproved
<1>6. Purposeful(t)' /\ KeysStand(t)' /\ ReferencesStand(t)'
  BY <1>1, <1>2, <1>3 DEF Stands, Purposeful, KeysStand, ReferencesStand, Submits
<1>7. QED
  BY <1>1, <1>2, <1>4, <1>5, <1>6, QuietStep DEF Stands

LEMMA ReadReferencesKeeps ==
  ASSUME TxInv, NEW t \in Txs, ReadReferences(t)
  PROVE  TxInv'
<1>1. /\ stage[t] = "references" /\ UNCHANGED <<vars, job, rows, locks>>
      /\ stage' = [stage EXCEPT ![t] = "commit"] /\ Unreferenced(job[t].submission)
  BY DEF ReadReferences, Goto
<1>2. /\ Alone(t) /\ TxTypeOK' /\ LocksExclusive' /\ stage'[t] = "commit"
      /\ JobStands(t)' /\ SubjectHeld(t)' /\ RowsHeld(t)' /\ LocksInOrder(t)'
  BY <1>1, ReadStep
<1>3. Stands(t) /\ job[t].action = "unapprove"
  BY <1>1, JobFacts DEF Stands, Purposeful
<1>4. HistoryStands(t)'
  BY <1>1, <1>3 DEF Stands, HistoryStands, Decided, vars, FirstVersion, NextVersion, StillNext,
     LatestApproved, NoOpenVersion, Versions, Open, IsApproved
<1>5. Purposeful(t)' /\ MaterialStands(t)'
  BY <1>1, <1>2, <1>3 DEF Purposeful, MaterialStands, Submits, SubmitAction
<1>6. ReferencesStand(t)'
  BY <1>1 DEF ReferencesStand, Unreferenced, IsApproved, vars
<1>7. KeysStand(t)'
  <2>1. StakedKeys(t)' = StakedKeys(t)
    BY <1>1 DEF StakedKeys, KeyAtStake, Submits, Previous, Versions, IsApproved, vars
  <2>2. \A key : DuplicateBusinessKey(job[t].subject, key)' =>
                   DuplicateBusinessKey(job[t].subject, key)
    BY <1>1 DEF DuplicateBusinessKey, Reserves, LatestApproved, Versions, Open, IsApproved, vars
  <2>3. \A key : Holds(t, <<"key", key>>)' <=> Holds(t, <<"key", key>>)
    BY <1>1 DEF Holds
  <2>4. QED
    BY <1>1, <1>3, <2>1, <2>2, <2>3 DEF Stands, KeysStand, Submits
<1>8. QED
  BY <1>1, <1>2, <1>4, <1>5, <1>6, <1>7, QuietStep DEF Stands

(* At most one key is at stake: two versions are never the latest before i. *)
LEMMA OneKeyAtStake ==
  ASSUME TxInv, NEW t \in Txs, stage[t] # "idle", Submits(t) \/ Reviews(t),
         NEW a \in StakedKeys(t), NEW b \in StakedKeys(t)
  PROVE  a = b
<1>1. TypeOK /\ VersionInv
  BY DEF TxInv, ArchivesInv
<1>2. CASE Submits(t) \/ job[t].action = "approve"
  BY <1>2 DEF StakedKeys, KeyAtStake, Submits
<1>3. CASE ~ Submits(t) /\ job[t].action # "approve"
  <2> DEFINE i == job[t].submission
  <2>1. PICK p \in SubmissionIds : Previous(i, p) /\ a = header[p].key
    BY <1>3 DEF StakedKeys, KeyAtStake, Submits
  <2>2. PICK q \in SubmissionIds : Previous(i, q) /\ b = header[q].key
    BY <1>3 DEF StakedKeys, KeyAtStake, Submits
  <2>3. header[p].subject = header[q].subject /\ header[p].versionNo = header[q].versionNo
        /\ IsApproved(p)
    BY <1>1, <2>1, <2>2, RowFacts DEF VersionInv, Previous, Versions
  <2>4. p = q
    BY <1>1, <2>3, RowFacts DEF VersionInv, VersionsNumbered
  <2>5. QED
    BY <2>1, <2>2, <2>4
<1>4. QED
  BY <1>2, <1>3

LEMMA ReadDuplicatesKeeps ==
  ASSUME TxInv, NEW t \in Txs, ReadDuplicates(t)
  PROVE  TxInv'
<1> DEFINE to == IF job[t].action = "unapprove" THEN "references" ELSE "commit"
           keys == StakedKeys(t)
<1>1. /\ stage[t] = "duplicates" /\ UNCHANGED <<vars, job, rows>>
      /\ stage' = [stage EXCEPT ![t] = to]
      /\ IF keys = {} THEN UNCHANGED locks ELSE \E key \in keys : Take(t, <<"key", key>>)
      /\ \A key \in keys : ~ DuplicateBusinessKey(job[t].subject, key)
  BY DEF ReadDuplicates, Goto, StakedKeys
<1>2. /\ Stands(t) /\ job[t].subject \in Subjects /\ Purposeful(t)
      /\ stage \in [Txs -> Stages] /\ TxTypeOK /\ LocksExclusive
      /\ (Submits(t) \/ Reviews(t)) /\ (Submits(t) \/ job[t].action \in {"approve", "unapprove"})
  BY <1>1, JobFacts DEF Stands, Purposeful, TxInv, TxTypeOK, Reviews, ApprovalAction
<1>3. \A key \in keys : <<"key", key>> \in Locks
  BY DEF StakedKeys, Locks
<1>4. /\ LocksExclusive' /\ locks' \subseteq Txs \X Locks
      /\ \A l \in Locks : Holds(t, l)' <=> (Holds(t, l) \/ l \in {"key"} \X keys)
      /\ \A v \in Txs \ {t} : \A l \in Locks : Holds(v, l)' <=> Holds(v, l)
  <2>1. CASE keys = {}
    BY <1>1, <1>2, <2>1 DEF TxTypeOK, LocksExclusive, Holds
  <2>2. CASE keys # {}
    <3>1. PICK key \in keys : Take(t, <<"key", key>>)
      BY <1>1, <2>2
    <3>2. keys = {key}
      BY <1>1, <1>2, <3>1, OneKeyAtStake
    <3>3. \A l : l \in {"key"} \X keys <=> l = <<"key", key>>
      BY <3>2
    <3>4. QED
      BY <1>3, <3>1, <3>3, TakeExclusive
  <2>3. QED
    BY <2>1, <2>2
<1>5. stage'[t] = to /\ to \in {"references", "commit"} /\ \A u \in Txs \ {t} : stage'[u] = stage[u]
  BY <1>1, <1>2
<1>6. Alone(t) /\ TxTypeOK'
  BY <1>1, <1>2, <1>4, <1>5 DEF Alone, Rests, TxTypeOK, Stages
<1>7. Purposeful(t)' /\ JobStands(t)' /\ ReferencesStand(t)'
  <2>1. Purposeful(t)' /\ ReferencesStand(t)'
    BY <1>1, <1>5 DEF Purposeful, ReferencesStand
  <2>2. JobStands(t)'
    BY <1>1, <1>2, <1>5 DEF Stands, JobStands, Submits, Reviews, vars
  <2>3. QED
    BY <2>1, <2>2
<1>8. SubjectHeld(t)' /\ RowsHeld(t)'
  <2>1. <<"subject", job[t].subject>> \in Locks /\ \A x \in Subjects : <<"row", x>> \in Locks
    BY <1>2 DEF Locks
  <2>2. RowsOf(t)' = RowsOf(t) /\ RowsOf(t) \subseteq Subjects
    BY <1>1 DEF RowsOf, MaterialOf, Submits, Reviews, vars
  <2>3. SubjectHeld(t)'
    BY <1>1, <1>2, <1>4, <2>1 DEF Stands, SubjectHeld, InSubject, Stages
  <2>4. RowsHeld(t)'
    BY <1>1, <1>2, <1>4, <2>1, <2>2 DEF Stands, RowsHeld, InSubject, Stages
  <2>5. QED
    BY <2>3, <2>4
<1>9. LocksInOrder(t)'
  BY <1>1, <1>2, <1>4, <1>5 DEF Stands, LocksInOrder, InSubject, Stages
<1>10. HistoryStands(t)'
  BY <1>1, <1>2 DEF Stands, HistoryStands, Decided, vars, FirstVersion, NextVersion, StillNext,
     LatestApproved, NoOpenVersion, Versions, Open, IsApproved
<1>11. MaterialStands(t)'
  BY <1>1, <1>2 DEF Stands, MaterialStands, vars, Submits, SubmitAction,
     MaterialAvailable, MaterialStillAvailable, LatestApproved, Versions, IsApproved
<1>12. KeysStand(t)'
  <2>1. StakedKeys(t)' = keys
    BY <1>1 DEF StakedKeys, KeyAtStake, Submits, Previous, Versions, IsApproved, vars
  <2>2. \A key : DuplicateBusinessKey(job[t].subject, key)' =>
                   DuplicateBusinessKey(job[t].subject, key)
    BY <1>1 DEF DuplicateBusinessKey, Reserves, LatestApproved, Versions, Open, IsApproved, vars
  <2>3. \A key \in keys : Holds(t, <<"key", key>>)'
    BY <1>3, <1>4
  <2>4. QED
    BY <1>1, <2>1, <2>2, <2>3 DEF KeysStand
<1>13. QED
  BY <1>1, <1>4, <1>6, <1>7, <1>8, <1>9, <1>10, <1>11, <1>12, QuietStep DEF Stands
-------------------------------------------------------------------------------
(* When a transaction commits, everything that Archives asks for is true at *)
(* that moment.                                                             *)
LEMMA NoDuplicateAtCommit ==
  ASSUME TxInv, NEW t \in Txs, stage[t] = "commit", NEW key \in KeyAtStake(t),
         Submits(t) \/ job[t].action \in {"approve", "unapprove"},
         key \in BusinessKeys \cup {NoKey}
  PROVE  ~ DuplicateBusinessKey(job[t].subject, key)
<1>1. KeysStand(t)
  BY JobFacts DEF Stands
<1>2. CASE key \in StakedKeys(t)
  BY <1>1, <1>2 DEF KeysStand
<1>3. CASE key \notin StakedKeys(t)
  BY <1>3 DEF StakedKeys, DuplicateBusinessKey, Reserves
<1>4. QED
  BY <1>2, <1>3

LEMMA CommitExecutes ==
  ASSUME TxInv, NEW t \in Txs, Commit(t)
  PROVE  Executes(job[t])
<1> DEFINE j == job[t]
           r == j.request
           i == j.submission
<1>1. stage[t] = "commit" /\ Stands(t) /\ TypeOK /\ VersionInv
  BY JobFacts DEF Commit
<1>2. HistoryStands(t) /\ MaterialStands(t) /\ JobStands(t) /\ ReferencesStand(t)
  BY <1>1 DEF Stands
<1>3. CASE Submits(t)
  <2>1. r \in Request /\ r.subject = j.subject /\ r.action = j.action
        /\ HasPermission(j.actor, r.action) /\ j.action \in SubmitAction
    BY <1>1, <1>2, <1>3, JobFacts DEF JobStands, Submits
  <2>2. response[j.idempotencyKey] = NoResponse
    BY <1>3 DEF Commit, FitsIndexes, Submits, SubmitAction, ApprovalAction
  <2>3. MaterialAvailable(r.subject, r.materialOf, r.material)
    BY <1>1, <1>2, <1>3, <2>1 DEF MaterialStands
  <2>4. ~ DuplicateBusinessKey(r.subject, r.key)
    <3>1. r.key \in KeyAtStake(t) /\ r.key \in BusinessKeys \cup {NoKey}
      BY <1>3, <2>1 DEF KeyAtStake, Request
    <3>2. QED
      BY <1>1, <1>3, <2>1, <3>1, NoDuplicateAtCommit
  <2>5. SubmitAllowed(j.idempotencyKey, r, j.actor)
    BY <2>1, <2>2, <2>3, <2>4 DEF SubmitAllowed
  <2>6. CASE j.action = "submit-new"
    BY <1>1, <1>2, <2>1, <2>5, <2>6 DEF Commit, Executes, SubmitNew, HistoryStands, Decided,
       ApprovalAction
  <2>7. CASE j.action = "submit-change"
    BY <1>1, <1>2, <2>1, <2>5, <2>7 DEF Commit, Executes, SubmitChange, HistoryStands, Decided,
       ApprovalAction
  <2>8. QED
    BY <2>1, <2>6, <2>7 DEF SubmitAction
<1>4. CASE j.action \in ApprovalAction
  <2>1. /\ i \in SubmissionIds /\ header[i].subject = j.subject /\ header[i] \in Header \cup {NoHeader}
        /\ DecideApproval(entry[i], j.action, j.actor, j.revision, j.reason)
        /\ Write(i, j.action, j.actor)
    <3>1. Reviews(t)
      BY <1>4 DEF Reviews
    <3>2. DecideApproval(entry[i], j.action, j.actor, j.revision, j.reason)
          /\ Write(i, j.action, j.actor)
      BY <1>4 DEF Commit, ApprovalAction
    <3>3. QED
      BY <1>1, <3>1, <3>2, JobFacts DEF TypeOK
  <2>2. j.action \notin {"reject", "unapprove"} => j.reason = "absent"
    BY <2>1 DEF DecideApproval, ReasonFits
  <2>3. CASE j.action = "approve"
    <3>1. StillNext(i) /\ MaterialStillAvailable(i)
      BY <1>1, <1>2, <2>3 DEF HistoryStands, MaterialStands, Decided
    <3>2. header[i].key \in KeyAtStake(t) /\ header[i].key \in BusinessKeys \cup {NoKey}
      BY <2>1, <2>3 DEF KeyAtStake, Submits, SubmitAction, Header, NoHeader
    <3>3. ~ DuplicateBusinessKey(header[i].subject, header[i].key)
      BY <1>1, <2>1, <2>3, <3>2, NoDuplicateAtCommit
    <3>4. QED
      BY <2>1, <2>2, <2>3, <3>1, <3>3 DEF Executes, Approve, StillSubmittable
  <2>4. CASE j.action = "unapprove"
    <3>1. /\ LatestApproved(header[i].subject, i) /\ NoOpenVersion(header[i].subject)
          /\ Unreferenced(i)
      BY <1>1, <1>2, <2>1, <2>4 DEF HistoryStands, ReferencesStand, Decided
    <3>2. ASSUME NEW p \in SubmissionIds, KeyScope = "latest", Previous(i, p)
          PROVE  ~ DuplicateBusinessKey(header[i].subject, header[p].key)
      <4>1. header[p].key \in KeyAtStake(t)
        BY <2>4, <3>2 DEF KeyAtStake, Submits, SubmitAction
      <4>2. header[p].key \in BusinessKeys \cup {NoKey}
        BY <1>1 DEF TypeOK, Header, NoHeader
      <4>3. QED
        BY <1>1, <2>1, <2>4, <4>1, <4>2, NoDuplicateAtCommit
    <3>3. UnapproveAllowed(i)
      BY <3>1, <3>2 DEF UnapproveAllowed, PreviousKeyFree
    <3>4. QED
      BY <2>1, <2>4, <3>3 DEF Executes, Unapprove
  <2>5. CASE j.action \in {"reject", "unreject"}
    BY <2>1, <2>2, <2>5 DEF Executes, Reject, Unreject
  <2>6. QED
    BY <1>4, <2>3, <2>4, <2>5 DEF ApprovalAction
<1>5. CASE j.action \in {"delete", "set-enabled"}
  BY <1>5 DEF Commit, Executes, Delete, SetEnabled, ApprovalAction
<1>6. QED
  <2>1. Submits(t) \/ Reviews(t) \/ j.action = "set-enabled"
    BY <1>1, JobFacts
  <2>2. QED
    BY <1>3, <1>4, <1>5, <2>1 DEF Reviews

(* What a request asks for is a step of Archives.                           *)
LEMMA ExecutesIsNext ==
  ASSUME TxInv, NEW t \in Txs, stage[t] = "commit", Executes(job[t])
  PROVE  Next
<1> DEFINE j == job[t]
           r == j.request
           i == j.submission
<1>1. /\ Stands(t) /\ TypeOK /\ VersionInv /\ RevisionsBounded /\ HistoryStands(t)
      /\ MaterialStands(t) /\ JobStands(t)
      /\ job[t] \in SubmitJob \cup ReviewJob \cup EnableJob
  BY JobFacts DEF TxInv, ArchivesInv, TxTypeOK, Stands
<1>2. CASE Submits(t)
  <2>1. /\ r \in Request /\ r.subject = j.subject /\ r.action = j.action
        /\ j \in SubmitJob /\ j.idempotencyKey \in IdempotencyKeys /\ j.actor \in Users
        /\ j.action \in SubmitAction
    BY <1>1, <1>2, JobFacts DEF JobStands, SubmitJob
  <2>2. MaterialAvailable(r.subject, r.materialOf, r.material)
        /\ (r.material = NoSubmission => r.materialOf = NoSubject)
    BY <1>1, <1>2, <2>1 DEF MaterialStands, JobStands
  <2>3. /\ r.materialOf = IF r.material = NoSubmission THEN NoSubject
                          ELSE header[r.material].subject
        /\ r.material \in (IF FormulaPins THEN SubmissionIds ELSE {}) \cup {NoSubmission}
    BY <2>1, <2>2 DEF MaterialAvailable, LatestApproved, Versions, Request
  <2>4. r = [action |-> r.action, subject |-> r.subject, submission |-> r.submission,
             key |-> r.key, material |-> r.material, materialOf |-> r.materialOf,
             expectedId |-> r.expectedId, expectedRevision |-> r.expectedRevision]
    BY <2>1 DEF Request
  <2>5. r = Requested(r.action, r.subject, r.submission, r.key, r.material,
                      r.expectedId, r.expectedRevision)
    BY <2>3, <2>4 DEF Requested
  <2>6. /\ r.subject \in Subjects /\ r.submission \in SubmissionIds
        /\ r.key \in BusinessKeys \cup {NoKey}
    BY <2>1 DEF Request
  <2>7. CASE j.action = "submit-new"
    <3>1. r.expectedId = NoSubmission /\ r.expectedRevision = 0
      BY <1>1, <2>7 DEF HistoryStands, FirstVersion, Decided
    <3>2. SubmitNew(j.idempotencyKey, r, j.actor)
      BY <2>7 DEF Executes
    <3>3. QED
      BY <2>1, <2>3, <2>5, <2>6, <2>7, <3>1, <3>2 DEF Next, Submit
  <2>8. CASE j.action = "submit-change"
    <3>1. SubmitChange(j.idempotencyKey, r, j.actor)
      BY <2>8 DEF Executes
    <3>2. r.expectedId \in SubmissionIds /\ r.expectedRevision = entry[r.expectedId].revision
          /\ IsApproved(r.expectedId)
      BY <3>1 DEF SubmitChange, NextVersion, LatestApproved
    <3>3. r.expectedRevision \in 1..MaxRevision
      BY <1>1, <3>2 DEF TypeOK, RevisionsBounded, IsApproved, Row, Entry, AbsentEntry
    <3>4. QED
      BY <2>1, <2>3, <2>5, <2>6, <2>8, <3>1, <3>2, <3>3 DEF Next, Submit
  <2>9. QED
    BY <2>1, <2>7, <2>8 DEF SubmitAction
<1>3. CASE Reviews(t)
  <2>1. /\ i \in SubmissionIds /\ j.actor \in Users /\ j.reason \in Reason
        /\ Present(entry[i])
    BY <1>1, <1>3, JobFacts DEF ReviewJob, JobStands
  <2>2. entry[i].revision \in 1..MaxRevision
    BY <1>1, <2>1 DEF TypeOK, RevisionsBounded, Present, Row, Entry, AbsentEntry
  <2>3. j.action \in ApprovalAction \cup {"delete"}
    BY <1>3 DEF Reviews
  <2>4. j.revision = entry[i].revision
    BY <1>3, <2>3 DEF Executes, Approve, Unreject, Reject, Unapprove, Delete, DecideApproval,
       DeleteAllowed, ApprovalAction
  <2>5. CASE j.action = "delete"
    BY <2>1, <2>2, <2>4, <2>5 DEF Executes, Next
  <2>6. CASE j.action \in ApprovalAction
    <3>1. \/ Approve(i, j.actor, j.revision) \/ Unreject(i, j.actor, j.revision)
          \/ Reject(i, j.actor, j.revision, j.reason)
          \/ Unapprove(i, j.actor, j.revision, j.reason)
      BY <2>6 DEF Executes, ApprovalAction
    <3>2. QED
      BY <2>1, <2>2, <2>4, <3>1 DEF Next, Review
  <2>7. QED
    BY <2>3, <2>5, <2>6
<1>4. CASE j.action = "set-enabled" /\ j \in EnableJob
  <2>1. SetEnabled(j.subject, j.value, j.revision)
    BY <1>4 DEF Executes
  <2>2. j.subject \in Subjects /\ j.value \in BOOLEAN
    BY <1>4 DEF EnableJob
  <2>3. j.revision \in 1..MaxObjectRevision
    BY <1>1, <2>1, <2>2 DEF SetEnabled, EnablementAllowed, WriteEnablement, TypeOK
  <2>4. QED
    BY <2>1, <2>2, <2>3 DEF Next
<1>5. QED
  BY <1>2, <1>3, <1>4, JobFacts
-------------------------------------------------------------------------------
(* What a commit changes, and where.                                        *)
Within(c) ==     \* only rows of subject c change
  /\ \A x \in Subjects : /\ code[x] # 0 => code'[x] # 0
                         /\ x # c => code'[x] = code[x] /\ enabled'[x] = enabled[x]
  /\ \A i \in SubmissionIds :
       \/ entry'[i] = entry[i] /\ header'[i] = header[i]
       \/ {header[i].subject, header'[i].subject} \subseteq {c, NoSubject}

FormalKept(c) ==     \* as far as formulas can tell, c stays as it is
  /\ enabled'[c] = enabled[c]
  /\ \A i \in SubmissionIds :
       LatestApproved(c, i) => LatestApproved(c, i)' /\ header'[i] = header[i]

BeginsToReserve(keys) ==
  \A i \in SubmissionIds : Reserves(i)' =>
    (Reserves(i) /\ header'[i] = header[i]) \/ header'[i].key \in keys

BecomesApproved(approvals) ==
  \A i \in SubmissionIds : IsApproved(i)' =>
    header'[i] = header[i] /\ (IsApproved(i) \/ i \in approvals)

(* A new version.                                                           *)
LEMMA InsertEffects ==
  ASSUME TypeOK, VersionInv, NEW k, NEW r \in Request, NEW n \in Nat, NEW u,
         InsertVersion(k, r, n, u)
  PROVE  /\ \A i \in SubmissionIds :
              \/ entry'[i] = entry[i] /\ header'[i] = header[i]
              \/ {header[i].subject, header'[i].subject} \subseteq {r.subject, NoSubject}
         /\ \A i \in SubmissionIds :
              LatestApproved(r.subject, i) => LatestApproved(r.subject, i)' /\ header'[i] = header[i]
         /\ BeginsToReserve({r.key}) /\ BecomesApproved({})
<1> DEFINE new == r.submission
<1>1. /\ new \in SubmissionIds /\ ~IsApproved(new) /\ ~IsApproved(new)'
      /\ header'[new].subject = r.subject /\ header[new].subject = NoSubject
      /\ entry[new] = AbsentEntry
  <2>1. new \in SubmissionIds /\ entry[new] = AbsentEntry
    BY DEF InsertVersion, Request
  <2>2. header[new].subject \notin Subjects /\ header[new] \in Header \cup {NoHeader}
    BY <2>1, RowFacts DEF VersionInv, TypeOK, Present, AbsentEntry
  <2>3. QED
    BY <2>1, <2>2 DEF InsertVersion, NewEntry, AbsentEntry, IsApproved, TypeOK, Request, Header,
       NoHeader
<1>2. \A j \in SubmissionIds : j # new => header'[j] = header[j] /\ entry'[j] = entry[j]
  BY DEF InsertVersion, TypeOK
<1>3. \A j \in SubmissionIds : IsApproved(j)' <=> IsApproved(j)
  BY <1>1, <1>2 DEF IsApproved
<1>4. ASSUME NEW i \in SubmissionIds, LatestApproved(r.subject, i)
      PROVE  LatestApproved(r.subject, i)' /\ header'[i] = header[i]
  <2>1. i # new
    BY <1>1, <1>4 DEF LatestApproved
  <2>2. QED
    BY <1>1, <1>2, <1>3, <1>4, <2>1 DEF LatestApproved, Versions
<1>5. BeginsToReserve({r.key})
  BY <1>2, InsertReserves DEF BeginsToReserve
<1>6. BecomesApproved({})
  BY <1>1, <1>2, <1>3 DEF BecomesApproved
<1>7. QED
  BY <1>1, <1>2, <1>4, <1>5, <1>6

(* A review.                                                                *)
LEMMA WriteEffects ==
  ASSUME TypeOK, VersionInv, NEW i \in SubmissionIds, NEW action \in ApprovalAction,
         NEW u \in Users, NEW revision, NEW reason,
         DecideApproval(entry[i], action, u, revision, reason),
         action = "unapprove" => LatestApproved(header[i].subject, i),
         Write(i, action, u)
  PROVE  /\ \A j \in SubmissionIds :
              \/ entry'[j] = entry[j] /\ header'[j] = header[j]
              \/ {header[j].subject, header'[j].subject} \subseteq {header[i].subject, NoSubject}
         /\ BeginsToReserve(IF action = "unapprove"
              THEN {header[p].key : p \in {p \in SubmissionIds : KeyScope = "latest" /\ Previous(i, p)}}
              ELSE {})
         /\ BecomesApproved(IF action = "approve" THEN {i} ELSE {})
<1>1. /\ entry' = [entry EXCEPT ![i] = entry'[i]] /\ UNCHANGED header
      /\ action # "unapprove" => Open(i)
      /\ IsApproved(i)' <=> action = "approve"
  BY Reviewed DEF Write
<1>2. \A j \in SubmissionIds : j # i => entry'[j] = entry[j]
  BY <1>1 DEF TypeOK
<1>3. BecomesApproved(IF action = "approve" THEN {i} ELSE {})
  BY <1>1, <1>2 DEF BecomesApproved, IsApproved
<1>4. CASE action = "unapprove"
  <2>1. \A j \in SubmissionIds : Reserves(j)' =>
           Reserves(j) \/ (KeyScope = "latest" /\ Previous(i, j))
    BY <1>1, <1>4, UnapproveReserves
  <2>2. QED
    BY <1>1, <1>2, <1>3, <1>4, <2>1 DEF BeginsToReserve
<1>5. CASE action # "unapprove"
  <2>1. \A j \in SubmissionIds : Reserves(j)' => Reserves(j)
    BY <1>1, <1>5, ReviewReserves
  <2>2. QED
    BY <1>1, <1>2, <1>3, <1>5, <2>1 DEF BeginsToReserve
<1>6. QED
  BY <1>4, <1>5

(* A deletion.                                                              *)
LEMMA RemoveEffects ==
  ASSUME TypeOK, VersionInv, NEW i \in SubmissionIds, Open(i), RemoveVersion(i)
  PROVE  /\ \A j \in SubmissionIds :
              \/ entry'[j] = entry[j] /\ header'[j] = header[j]
              \/ {header[j].subject, header'[j].subject} \subseteq {header[i].subject, NoSubject}
         /\ \A j \in SubmissionIds, s \in Subjects :
              LatestApproved(s, j) => LatestApproved(s, j)' /\ header'[j] = header[j]
         /\ BeginsToReserve({}) /\ BecomesApproved({})
<1>1. /\ entry' = [entry EXCEPT ![i] = AbsentEntry] /\ header' = [header EXCEPT ![i] = NoHeader]
      /\ header'[i].subject = NoSubject /\ ~IsApproved(i) /\ ~IsApproved(i)'
  BY RowFacts DEF RemoveVersion, VersionInv, TypeOK, NoHeader, IsApproved, AbsentEntry
<1>2. \A j \in SubmissionIds : j # i => /\ entry'[j] = entry[j] /\ header'[j] = header[j]
                                        /\ IsApproved(j)' <=> IsApproved(j)
  BY <1>1 DEF TypeOK, IsApproved
<1>3. BecomesApproved({})
  BY <1>1, <1>2 DEF BecomesApproved
<1>4. BeginsToReserve({})
  BY <1>1, DeleteReserves DEF BeginsToReserve
<1>5. ASSUME NEW j \in SubmissionIds, NEW s \in Subjects, LatestApproved(s, j)
      PROVE  LatestApproved(s, j)' /\ header'[j] = header[j]
  <2>1. j # i
    BY <1>1, <1>5 DEF LatestApproved
  <2>2. QED
    BY <1>1, <1>2, <1>5, <2>1 DEF LatestApproved, Versions
<1>6. QED
  BY <1>1, <1>2, <1>3, <1>4, <1>5

(* Whatever t commits stays within its subject.  A new or deleted version   *)
(* of a subject leaves its formal version alone; keys and approvals are the *)
(* ones that t has locks for.                                               *)
LEMMA CommitEffects ==
  ASSUME TxInv, NEW t \in Txs, Commit(t), NEW c, c = job[t].subject
  PROVE  LET j == job[t] IN
         /\ Within(c)
         /\ j.action = "submit-new" => code[j.subject] = 0
         /\ j.action \in {"submit-change", "delete"} => FormalKept(c)
         /\ BeginsToReserve(IF Submits(t) \/ j.action = "unapprove" THEN KeyAtStake(t) ELSE {})
         /\ BecomesApproved(IF j.action = "approve" THEN {j.submission} ELSE {})
<1> DEFINE j == job[t]
           r == j.request
           i == j.submission
<1>1. stage[t] = "commit" /\ Stands(t) /\ TypeOK /\ VersionInv /\ j.subject \in Subjects /\ c \in Subjects
      /\ HistoryStands(t)
  BY JobFacts DEF Commit, Stands
<1>2. CASE Submits(t)
  <2>1. /\ r \in Request /\ r.subject = j.subject /\ j.number \in Nat \ {0}
        /\ KeyAtStake(t) = {r.key} /\ j.action \in SubmitAction
    BY <1>1, <1>2, JobFacts DEF SubmitJob, KeyAtStake, Submits
  <2>2. CASE j.action = "submit-new"
    <3>1. /\ code[j.subject] = 0 /\ CreateSubject(j.subject)
          /\ InsertVersion(j.idempotencyKey, r, 1, j.actor)
      BY <2>2 DEF Commit, ApprovalAction
    <3>2. \A x \in Subjects : /\ code[x] # 0 => code'[x] # 0
                              /\ x # j.subject => code'[x] = code[x] /\ enabled'[x] = enabled[x]
      BY <1>1, <3>1 DEF CreateSubject, TypeOK
    <3>3. BeginsToReserve({r.key}) /\ BecomesApproved({}) /\ Within(c)
      BY <1>1, <2>1, <3>1, <3>2, InsertEffects DEF Within
    <3>4. QED
      BY <1>2, <2>1, <2>2, <3>1, <3>3
  <2>3. CASE j.action = "submit-change"
    <3>1. /\ UNCHANGED subjectVars
          /\ InsertVersion(j.idempotencyKey, r, j.number, j.actor)
      BY <2>3 DEF Commit, ApprovalAction
    <3>2. code' = code /\ enabled' = enabled
      BY <3>1 DEF subjectVars
    <3>3. BeginsToReserve({r.key}) /\ BecomesApproved({}) /\ Within(c)
      BY <1>1, <2>1, <3>1, <3>2, InsertEffects DEF Within
    <3>4. FormalKept(c)
      <4>1. InsertVersion(j.idempotencyKey, r, j.number, j.actor) /\ r.subject = c
        BY <2>1, <3>1
      <4>2. PICK q \in Request : q = r
        BY <2>1
      <4>3. \A l \in SubmissionIds : LatestApproved(q.subject, l) =>
               LatestApproved(q.subject, l)' /\ header'[l] = header[l]
        BY <1>1, <2>1, <4>1, <4>2, InsertEffects
      <4>4. q.subject = c
        BY <4>1, <4>2
      <4>5. QED
        BY <3>2, <4>3, <4>4 DEF FormalKept
    <3>5. QED
      BY <1>2, <2>1, <2>3, <3>3, <3>4
  <2>4. QED
    BY <2>1, <2>2, <2>3 DEF SubmitAction
<1>3. CASE j.action \in ApprovalAction
  <2>1. /\ i \in SubmissionIds /\ header[i].subject = j.subject /\ j.actor \in Users
        /\ ~ Submits(t)
    BY <1>1, <1>3, JobFacts DEF Reviews, ReviewJob
  <2>2. /\ DecideApproval(entry[i], j.action, j.actor, j.revision, j.reason)
        /\ Write(i, j.action, j.actor)
    BY <1>3 DEF Commit, ApprovalAction
  <2>3. j.action = "unapprove" => LatestApproved(header[i].subject, i)
    BY <1>1, <2>1 DEF HistoryStands, Decided
  <2>4. /\ \A l \in SubmissionIds :
              \/ entry'[l] = entry[l] /\ header'[l] = header[l]
              \/ {header[l].subject, header'[l].subject} \subseteq {header[i].subject, NoSubject}
        /\ BeginsToReserve(IF j.action = "unapprove"
              THEN {header[p].key : p \in {p \in SubmissionIds : KeyScope = "latest" /\ Previous(i, p)}}
              ELSE {})
        /\ BecomesApproved(IF j.action = "approve" THEN {i} ELSE {})
    BY <1>1, <1>3, <2>1, <2>2, <2>3, WriteEffects
  <2>5. j.action = "unapprove" => KeyAtStake(t) =
          {header[p].key : p \in {p \in SubmissionIds : KeyScope = "latest" /\ Previous(i, p)}}
    BY <2>1 DEF KeyAtStake
  <2>6. Within(c)
    BY <2>1, <2>2, <2>4 DEF Within, Write, subjectVars
  <2>7. BeginsToReserve(IF Submits(t) \/ j.action = "unapprove" THEN KeyAtStake(t) ELSE {})
    BY <2>1, <2>4, <2>5
  <2>8. QED
    BY <1>3, <2>4, <2>6, <2>7 DEF ApprovalAction
<1>4. CASE j.action = "delete"
  <2>1. /\ i \in SubmissionIds /\ header[i].subject = j.subject /\ ~ Submits(t)
    BY <1>1, <1>4, JobFacts DEF Reviews
  <2>2. Open(i) /\ RemoveVersion(i)
    BY <1>4 DEF Commit, ApprovalAction, DeleteAllowed, Open
  <2>3. Within(c) /\ FormalKept(c) /\ BeginsToReserve({}) /\ BecomesApproved({})
    <3>1. /\ \A l \in SubmissionIds :
              \/ entry'[l] = entry[l] /\ header'[l] = header[l]
              \/ {header[l].subject, header'[l].subject} \subseteq {j.subject, NoSubject}
          /\ \A l \in SubmissionIds, s \in Subjects :
              LatestApproved(s, l) => LatestApproved(s, l)' /\ header'[l] = header[l]
          /\ BeginsToReserve({}) /\ BecomesApproved({})
      BY <1>1, <2>1, <2>2, RemoveEffects
    <3>2. UNCHANGED subjectVars
      BY <2>2 DEF RemoveVersion
    <3>3. QED
      <4>1. code' = code /\ enabled' = enabled
        BY <3>2 DEF subjectVars
      <4>2. FormalKept(c)
        BY <1>1, <3>1, <4>1 DEF FormalKept
      <4>3. QED
        BY <3>1, <4>1, <4>2 DEF Within
  <2>4. QED
    BY <1>4, <2>1, <2>3
<1>5. CASE j.action = "set-enabled"
  <2>1. WriteEnablement(j.subject, j.value) /\ ~ Submits(t)
    BY <1>5 DEF Commit, ApprovalAction, Submits, SubmitAction
  <2>2. UNCHANGED <<code, entry, header>> /\ \A x \in Subjects : x # j.subject => enabled'[x] = enabled[x]
    BY <2>1 DEF WriteEnablement, TypeOK
  <2>3. Within(c)
    BY <2>2 DEF Within
  <2>4. BeginsToReserve({}) /\ BecomesApproved({})
    BY <2>2 DEF BeginsToReserve, BecomesApproved, Reserves, LatestApproved, Versions, Open, IsApproved
  <2>5. QED
    BY <1>5, <2>1, <2>3, <2>4
<1>6. QED
  BY <1>1, <1>2, <1>3, <1>4, <1>5, JobFacts DEF Reviews

(* Another subject, and a material that another transaction has locked, are *)
(* as they were.                                                            *)
LEMMA Untouched ==
  ASSUME NEW c, Within(c), NEW s \in Subjects, s # c
  PROVE  /\ Versions(s)' = Versions(s) /\ code'[s] = code[s] /\ enabled'[s] = enabled[s]
         /\ \A i \in Versions(s) : entry'[i] = entry[i] /\ header'[i] = header[i]
         /\ \A i : LatestApproved(s, i)' <=> LatestApproved(s, i)
         /\ NoOpenVersion(s)' <=> NoOpenVersion(s)
<1>1. Versions(s)' = Versions(s) /\ code'[s] = code[s] /\ enabled'[s] = enabled[s]
  BY DEF Within, Versions
<1>2. \A i \in Versions(s) : entry'[i] = entry[i] /\ header'[i] = header[i]
  BY DEF Within, Versions
<1>3. \A i \in Versions(s) : (IsApproved(i)' <=> IsApproved(i)) /\ (Open(i)' <=> Open(i))
  BY <1>2 DEF IsApproved, Open
<1>4. QED
  BY <1>1, <1>2, <1>3 DEF LatestApproved, NoOpenVersion

LEMMA MaterialKept ==
  ASSUME NEW c \in Subjects, Within(c), NEW s, NEW m, NEW i \in SubmissionIds \cup {NoSubmission},
         MaterialAvailable(s, m, i),
         i # NoSubmission => m # c \/ FormalKept(c)
  PROVE  MaterialAvailable(s, m, i)'
<1>1. CASE i = NoSubmission
  BY <1>1 DEF MaterialAvailable
<1>2. CASE i # NoSubmission
  <2>1. /\ FormulaPins /\ m \in Subjects \ {s} /\ LatestApproved(m, i) /\ enabled[m]
        /\ header[i].material = NoSubmission /\ i \in Versions(m)
    BY <1>2 DEF MaterialAvailable, LatestApproved
  <2>2. LatestApproved(m, i)' /\ enabled'[m] = enabled[m] /\ header'[i] = header[i]
    <3>1. CASE m # c
      <4>1. m \in Subjects
        BY <2>1
      <4>2. /\ enabled'[m] = enabled[m]
            /\ \A l \in Versions(m) : header'[l] = header[l]
            /\ \A l : LatestApproved(m, l)' <=> LatestApproved(m, l)
        BY <3>1, <4>1, Untouched
      <4>3. QED
        BY <2>1, <4>2
    <3>2. CASE m = c
      BY <1>2, <2>1, <3>2 DEF FormalKept
    <3>3. QED
      BY <3>1, <3>2
  <2>3. QED
    BY <2>1, <2>2 DEF MaterialAvailable
<1>3. QED
  BY <1>1, <1>2

(* Two transactions that are at work on subjects hold different ones.       *)
LEMMA SubjectsDiffer ==
  ASSUME TxInv, NEW t \in Txs, NEW u \in Txs, t # u,
         stage[t] \in InSubject, stage[u] \in InSubject
  PROVE  job[t].subject # job[u].subject
<1>1. /\ job[t].subject \in Subjects
      /\ Holds(t, <<"subject", job[t].subject>>) /\ Holds(u, <<"subject", job[u].subject>>)
  BY JobFacts DEF Stands, SubjectHeld, InSubject
<1>2. QED
  BY <1>1 DEF TxInv, LocksExclusive, Locks

(* While u relies on a material, nobody else commits what could change it.  *)
LEMMA MaterialProtected ==
  ASSUME TxInv, NEW t \in Txs, Commit(t), NEW u \in Txs, u # t,
         stage[u] \in {"duplicates", "commit"}, Submits(u) \/ job[u].action = "approve",
         FormulaPins, MaterialOf(u) = job[t].subject,
         NEW c, c = job[t].subject
  PROVE  FormalKept(c)
<1>1. /\ stage[t] = "commit" /\ Stands(t) /\ Stands(u) /\ c \in Subjects
      /\ LocksExclusive /\ TypeOK /\ MaterialsKnown
  BY JobFacts DEF Commit, TxInv, ArchivesInv
<1>2. <<"row", c>> \in Locks /\ Holds(u, <<"row", c>>)
  <2>1. c \in RowsOf(u)
    BY <1>1 DEF RowsOf
  <2>2. job[u].action # "delete"
    BY DEF Submits, SubmitAction
  <2>3. QED
    BY <1>1, <2>1, <2>2 DEF Stands, RowsHeld, InSubject, Stages, Locks
<1>3. ~ Holds(t, <<"row", c>>)
  BY <1>1, <1>2 DEF LocksExclusive
<1>4. Submits(t) \/ job[t].action = "delete"
  BY <1>1, <1>3 DEF Stands, RowsHeld, RowsOf, InSubject, Stages
<1>5. code[c] # 0
  <2>1. CASE Submits(u)
    BY <1>1, <2>1 DEF MaterialOf, Stands, JobStands
  <2>2. CASE ~ Submits(u)
    <3>1. Reviews(u) /\ job[u].submission \in SubmissionIds
      BY <2>2, JobFacts DEF Reviews, ApprovalAction
    <3>2. QED
      BY <1>1, <2>2, <3>1 DEF MaterialOf, MaterialsKnown
  <2>3. QED
    BY <2>1, <2>2
<1>6. job[t].action # "submit-new" => FormalKept(c)
  BY <1>4, CommitEffects DEF Submits, SubmitAction
<1>7. job[t].action # "submit-new"
  BY <1>5, CommitEffects
<1>8. QED
  BY <1>6, <1>7

LEMMA CommitKeepsOthers ==
  ASSUME TxInv, NEW t \in Txs, Commit(t), NEW u \in Txs, u # t
  PROVE  Stands(u)'
<1>1. /\ job'[u] = job[u] /\ stage'[u] = stage[u] /\ rows'[u] = rows[u]
      /\ \A lock \in Locks : Holds(u, lock)' <=> Holds(u, lock)
  BY FinishLocks DEF Alone, Rests, Commit
<1>2. CASE stage[u] = "idle"
  <2>1. Stands(u)
    BY DEF TxInv
  <2>2. QED
    BY <1>1, <1>2, <2>1 DEF Stands, Purposeful, JobStands, SubjectHeld, RowsHeld, LocksInOrder,
       HistoryStands, MaterialStands, KeysStand, ReferencesStand, InSubject, Decided
<1>3. CASE stage[u] # "idle"
  <2>1. PICK c \in Subjects : c = job[t].subject
    BY JobFacts DEF Commit
  <2>2. PICK s \in Subjects : s = job[u].subject
    BY <1>3, JobFacts
  <2>3. /\ Stands(t) /\ Stands(u) /\ TypeOK /\ VersionInv /\ LocksExclusive
        /\ stage[t] = "commit" /\ stage[t] \in InSubject
    BY <1>3, JobFacts DEF Commit, TxInv, InSubject, Stages
  <2>4. /\ Within(c)
        /\ BeginsToReserve(IF Submits(t) \/ job[t].action = "unapprove" THEN KeyAtStake(t) ELSE {})
        /\ BecomesApproved(IF job[t].action = "approve" THEN {job[t].submission} ELSE {})
    BY <2>1, CommitEffects
  <2>5. stage[u] \in InSubject => s # c
    BY <2>1, <2>2, <2>3, SubjectsDiffer
  <2>6. /\ (Submits(u)' <=> Submits(u)) /\ (Reviews(u)' <=> Reviews(u))
    BY <1>1 DEF Submits, Reviews
  <2>7. Purposeful(u)'
    BY <1>1, <2>3, <2>6 DEF Stands, Purposeful
  <2>8. Reviews(u) => /\ stage[u] \in InSubject /\ job[u].submission \in Versions(s)
                      /\ ~ Submits(u)
    BY <1>3, <2>2, <2>3, JobFacts DEF Stands, Purposeful, InSubject, TxInv, TxTypeOK, Versions
  <2>9. s # c => /\ Versions(s)' = Versions(s) /\ code'[s] = code[s]
                 /\ \A i \in Versions(s) : entry'[i] = entry[i] /\ header'[i] = header[i]
                 /\ \A i : LatestApproved(s, i)' <=> LatestApproved(s, i)
                 /\ NoOpenVersion(s)' <=> NoOpenVersion(s)
    BY <2>4, Untouched
  <2>10. \A x \in Subjects : code[x] # 0 => code'[x] # 0
    BY <2>4 DEF Within
  <2>11. JobStands(u)'
    <3>1. JobStands(u)
      BY <2>3 DEF Stands
    <3>2. Submits(u) => JobStands(u)'
      BY <1>1, <2>6, <2>8, <2>10, <3>1 DEF JobStands
    <3>3. ~ Submits(u) => code'[job[u].subject] # 0
      BY <1>3, <2>2, <2>10, <3>1 DEF JobStands
    <3>4. ~ Submits(u) => JobStands(u)'
      BY <1>1, <1>3, <2>5, <2>6, <2>8, <2>9, <3>1, <3>3 DEF JobStands
    <3>5. QED
      BY <3>2, <3>4
  <2>12. SubjectHeld(u)'
    <3>1. <<"subject", job[u].subject>> \in Locks
      BY <2>2 DEF Locks
    <3>2. QED
      BY <1>1, <2>3, <3>1 DEF Stands, SubjectHeld
  <2>13. RowsHeld(u)'
    <3>1. MaterialOf(u)' = MaterialOf(u)
      BY <1>1, <2>5, <2>6, <2>8, <2>9 DEF MaterialOf
    <3>2. RowsOf(u)' = RowsOf(u) /\ RowsOf(u) \subseteq Subjects
      BY <1>1, <2>6, <3>1 DEF RowsOf
    <3>3. \A x \in Subjects : <<"row", x>> \in Locks
      BY DEF Locks
    <3>4. QED
      BY <1>1, <2>3, <3>2, <3>3 DEF Stands, RowsHeld
  <2>14. LocksInOrder(u)'
    BY <1>1, <2>3 DEF Stands, LocksInOrder
  <2>15. HistoryStands(u)'
    <3>1. SUFFICES ASSUME stage[u] \in Decided PROVE HistoryStands(u)'
      BY <1>1 DEF HistoryStands
    <3>2. s # c /\ HistoryStands(u)
      BY <2>3, <2>5, <3>1 DEF Decided, InSubject, Stages, Stands
    <3>3. CASE Submits(u)
      <4>1. PICK r \in Request : r = job[u].request /\ r.subject = s
        BY <1>3, <2>2, <3>3, JobFacts
      <4>2. FirstVersion(r) => FirstVersion(r)'
        BY <2>9, <3>2, <4>1 DEF FirstVersion
      <4>3. NextVersion(r) => /\ NextVersion(r)'
                              /\ header'[r.expectedId] = header[r.expectedId]
        BY <2>9, <3>2, <4>1 DEF NextVersion, LatestApproved
      <4>4. QED
        BY <1>1, <3>1, <3>2, <3>3, <4>1, <4>2, <4>3 DEF HistoryStands, Submits, SubmitAction
    <3>4. CASE Reviews(u)
      <4>1. PICK i \in SubmissionIds : i = job[u].submission /\ i \in Versions(s)
        BY <2>8, <3>4 DEF Versions
      <4>2. header'[i] = header[i] /\ header[i].subject = s
        BY <2>9, <3>2, <4>1 DEF Versions
      <4>3. \A l \in Versions(s) : (IsApproved(l)' <=> IsApproved(l)) /\ (Open(l)' <=> Open(l))
        BY <2>9, <3>2 DEF IsApproved, Open
      <4>4. StillNext(i) => StillNext(i)'
        BY <2>9, <3>2, <4>2, <4>3 DEF StillNext
      <4>5. LatestApproved(s, i) /\ NoOpenVersion(s) => LatestApproved(s, i)' /\ NoOpenVersion(s)'
        BY <2>9, <3>2
      <4>6. LatestApproved(job[u].subject, i)' <=> LatestApproved(s, i)'
        BY <1>1, <2>2 DEF LatestApproved, Versions
      <4>7. NoOpenVersion(job[u].subject)' <=> NoOpenVersion(s)'
        BY <1>1, <2>2 DEF NoOpenVersion, Versions
      <4>8. job'[u].submission = i
        BY <1>1, <4>1
      <4>9. job[u].action \notin SubmitAction
        BY <2>8, <3>4 DEF Submits
      <4>10. job[u].action = "approve" => StillNext(i)'
        BY <3>1, <3>2, <4>1, <4>4 DEF HistoryStands
      <4>11. job[u].action = "unapprove" => LatestApproved(job[u].subject, i)' /\ NoOpenVersion(job[u].subject)'
        BY <2>2, <3>1, <3>2, <4>1, <4>5, <4>6, <4>7 DEF HistoryStands
      <4>12. StillNext(i)' => StillNext(job[u].submission)'
        BY <4>8 DEF StillNext
      <4>13. LatestApproved(job[u].subject, i)' => LatestApproved(job[u].subject, job[u].submission)'
        BY <4>8 DEF LatestApproved
      <4>14. QED
        BY <1>1, <4>9, <4>10, <4>11, <4>12, <4>13 DEF HistoryStands, SubmitAction
    <3>5. CASE job[u].action = "set-enabled"
      BY <1>1, <3>5 DEF HistoryStands
    <3>6. QED
      BY <1>3, <3>3, <3>4, <3>5, JobFacts
  <2>16. MaterialStands(u)'
    <3>1. SUFFICES ASSUME stage[u] \in {"duplicates", "commit"}, Submits(u) \/ job[u].action = "approve"
                   PROVE  MaterialStands(u)'
      BY <1>1, <2>6 DEF MaterialStands
    <3>2. s # c
      BY <2>5, <3>1 DEF InSubject, Stages
    <3>3. CASE Submits(u)
      <4>1. PICK r \in Request : r = job[u].request /\ r.subject = s
        BY <1>3, <2>2, <3>3, JobFacts
      <4>2. MaterialAvailable(s, r.materialOf, r.material)
        BY <2>2, <2>3, <3>1, <3>3, <4>1 DEF Stands, MaterialStands
      <4>3. r.material # NoSubmission => r.materialOf # c \/ FormalKept(c)
        BY <2>1, <3>1, <3>3, <4>1, <4>2, MaterialProtected DEF MaterialOf, MaterialAvailable
      <4>4. MaterialAvailable(s, r.materialOf, r.material)'
        BY <2>4, <4>2, <4>3, MaterialKept DEF Request
      <4>5. job'[u].request = r /\ job'[u].subject = s
        BY <1>1, <2>2, <4>1
      <4>6. MaterialAvailable(job[u].subject, job[u].request.materialOf, job[u].request.material)'
        BY <4>4, <4>5 DEF MaterialAvailable, LatestApproved, Versions
      <4>7. job'[u].action # "approve"
        BY <1>1, <3>3 DEF Submits, SubmitAction
      <4>8. QED
        BY <4>6, <4>7 DEF MaterialStands
    <3>4. CASE job[u].action = "approve"
      <4>1. ~ Submits(u) /\ Reviews(u)
        BY <3>4 DEF Submits, Reviews, SubmitAction, ApprovalAction
      <4>2. PICK i \in SubmissionIds : i = job[u].submission /\ i \in Versions(s)
        BY <2>8, <4>1 DEF Versions
      <4>3. PICK h \in Header \cup {NoHeader} : h = header[i] /\ header'[i] = h /\ h.subject = s
        BY <2>3, <2>9, <3>2, <4>2 DEF TypeOK, Versions
      <4>4. MaterialAvailable(s, h.materialOf, h.material)
        BY <2>3, <3>1, <3>4, <4>2, <4>3 DEF Stands, MaterialStands, MaterialStillAvailable
      <4>5. h.material # NoSubmission => h.materialOf # c \/ FormalKept(c)
        BY <2>1, <3>1, <3>4, <4>1, <4>2, <4>3, <4>4, MaterialProtected DEF MaterialOf, MaterialAvailable
      <4>6. MaterialAvailable(s, h.materialOf, h.material)'
        BY <2>4, <4>4, <4>5, MaterialKept DEF Header, NoHeader
      <4>7. job'[u].submission = i
        BY <1>1, <4>2
      <4>8. MaterialStillAvailable(job[u].submission)'
        BY <4>3, <4>6, <4>7 DEF MaterialStillAvailable, MaterialAvailable, LatestApproved, Versions
      <4>9. QED
        BY <2>6, <4>1, <4>8 DEF MaterialStands
    <3>5. QED
      BY <3>1, <3>3, <3>4
  <2>17. KeysStand(u)'
    <3>1. SUFFICES ASSUME stage[u] \in {"references", "commit"},
                          Submits(u) \/ job[u].action \in {"approve", "unapprove"}
                   PROVE  KeysStand(u)'
      BY <1>1, <2>6 DEF KeysStand
    <3>2. s # c
      BY <2>5, <3>1 DEF InSubject, Stages
    <3>3. StakedKeys(u)' = StakedKeys(u)
      <4>1. CASE Submits(u)
        BY <1>1, <2>6, <4>1 DEF StakedKeys, KeyAtStake
      <4>2. CASE ~ Submits(u)
        <5>1. Reviews(u)
          BY <3>1, <4>2 DEF Reviews, ApprovalAction
        <5>2. PICK i \in SubmissionIds : i = job[u].submission /\ i \in Versions(s)
          BY <2>8, <5>1 DEF Versions
        <5>3. header'[i] = header[i] /\ header[i].subject = s
          BY <2>9, <3>2, <5>2 DEF Versions
        <5>4. \A p \in SubmissionIds : Previous(i, p)' <=> Previous(i, p)
          BY <2>9, <3>2, <5>3 DEF Previous, IsApproved
        <5>5. \A p \in SubmissionIds : Previous(i, p) => header'[p] = header[p]
          BY <2>9, <3>2, <5>3 DEF Previous
        <5>6. /\ job'[u].submission = i /\ job'[u].action = job[u].action
          BY <1>1, <5>2
        <5>7. CASE job[u].action = "approve"
          BY <2>6, <4>2, <5>2, <5>3, <5>6, <5>7 DEF StakedKeys, KeyAtStake
        <5>8. CASE job[u].action # "approve"
          <6>1. KeyAtStake(u) = {header[p].key : p \in {p \in SubmissionIds : KeyScope = "latest" /\ Previous(i, p)}}
            BY <4>2, <5>2, <5>8 DEF KeyAtStake
          <6>2. KeyAtStake(u)' = {header'[p].key : p \in {p \in SubmissionIds : KeyScope = "latest" /\ Previous(job[u].submission, p)'}}
            BY <2>6, <4>2, <5>6, <5>8 DEF KeyAtStake
          <6>3. \A p \in SubmissionIds : Previous(job[u].submission, p)' <=> Previous(i, p)
            BY <5>4, <5>6 DEF Previous
          <6>4. QED
            BY <5>5, <6>1, <6>2, <6>3 DEF StakedKeys
        <5>9. QED
          BY <5>7, <5>8
      <4>3. QED
        BY <4>1, <4>2
    <3>4. ASSUME NEW key \in StakedKeys(u)
          PROVE  Holds(u, <<"key", key>>)' /\ ~ DuplicateBusinessKey(s, key)'
      <4>1. /\ Holds(u, <<"key", key>>) /\ ~ DuplicateBusinessKey(s, key)
            /\ <<"key", key>> \in Locks /\ key \in BusinessKeys /\ KeyScope # "none"
        BY <2>2, <2>3, <3>1 DEF Stands, KeysStand, StakedKeys, Locks
      <4>2. key \notin KeyAtStake(t) \/ ~ (Submits(t) \/ job[t].action = "unapprove")
        <5>1. SUFFICES ASSUME key \in KeyAtStake(t), Submits(t) \/ job[t].action = "unapprove"
                       PROVE  FALSE
          OBVIOUS
        <5>2. key \in StakedKeys(t)
          BY <4>1, <5>1 DEF StakedKeys
        <5>3. Holds(t, <<"key", key>>)
          BY <2>3, <5>1, <5>2 DEF Stands, KeysStand
        <5>4. QED
          BY <2>3, <4>1, <5>3 DEF LocksExclusive
      <4>3. \A i \in SubmissionIds : Reserves(i)' /\ header'[i].key = key =>
               Reserves(i) /\ header'[i] = header[i]
        BY <2>4, <4>2 DEF BeginsToReserve
      <4>4. ~ DuplicateBusinessKey(s, key)'
        BY <4>1, <4>3 DEF DuplicateBusinessKey
      <4>5. QED
        BY <1>1, <4>1, <4>4
    <3>5. \A key : DuplicateBusinessKey(job[u].subject, key)' <=> DuplicateBusinessKey(s, key)'
      BY <1>1, <2>2 DEF DuplicateBusinessKey
    <3>6. QED
      BY <3>3, <3>4, <3>5 DEF KeysStand
  <2>18. ReferencesStand(u)'
    <3>1. SUFFICES ASSUME stage[u] = "commit", job[u].action = "unapprove"
                   PROVE  ReferencesStand(u)'
      BY <1>1 DEF ReferencesStand
    <3>2. Reviews(u) /\ ~ Submits(u)
      BY <3>1 DEF Submits, Reviews, SubmitAction, ApprovalAction
    <3>3. PICK i \in SubmissionIds : i = job[u].submission /\ i \in Versions(s)
      BY <2>8, <3>2 DEF Versions
    <3>4. Unreferenced(i)
      BY <2>3, <3>1, <3>3 DEF Stands, ReferencesStand
    <3>5. ASSUME NEW j \in SubmissionIds, IsApproved(j)', header'[j].material = i
          PROVE  FALSE
      <4>1. header'[j] = header[j] /\ (IsApproved(j) \/ (job[t].action = "approve" /\ j = job[t].submission))
        BY <2>4, <3>5 DEF BecomesApproved
      <4>2. job[t].action = "approve" /\ j = job[t].submission /\ header[j].material = i
        BY <3>4, <3>5, <4>1 DEF Unreferenced
      <4>3. MaterialStillAvailable(j)
        BY <2>3, <4>2 DEF Stands, MaterialStands
      <4>4. FormulaPins /\ header[j].materialOf = s
        BY <3>3, <4>2, <4>3 DEF MaterialStillAvailable, MaterialAvailable, LatestApproved, Versions
      <4>5. ~ Submits(t) /\ Reviews(t)
        BY <4>2 DEF Submits, Reviews, SubmitAction, ApprovalAction
      <4>6. s \in RowsOf(t) /\ s \in RowsOf(u)
        BY <2>2, <3>2, <4>2, <4>4, <4>5 DEF RowsOf, MaterialOf
      <4>7. Holds(t, <<"row", s>>) /\ Holds(u, <<"row", s>>) /\ <<"row", s>> \in Locks
        BY <2>3, <3>1, <4>2, <4>4, <4>6 DEF Stands, RowsHeld, InSubject, Stages, Locks
      <4>8. QED
        BY <2>3, <4>7 DEF LocksExclusive
    <3>6. job'[u].submission = i
      BY <1>1, <3>3
    <3>7. QED
      BY <3>5, <3>6 DEF ReferencesStand, Unreferenced
  <2>19. QED
    BY <2>7, <2>11, <2>12, <2>13, <2>14, <2>15, <2>16, <2>17, <2>18 DEF Stands
<1>4. QED
  BY <1>2, <1>3
-------------------------------------------------------------------------------
LEMMA InitTx == TxInit => TxInv
<1> SUFFICES ASSUME TxInit PROVE TxInv
  OBVIOUS
<1>1. ArchivesInv
  BY InitArchives DEF TxInit
<1>2. TxTypeOK /\ LocksExclusive
  BY DEF TxInit, TxTypeOK, LocksExclusive, Holds, Stages
<1>3. ASSUME NEW t \in Txs
      PROVE  Stands(t)
  <2>1. stage[t] = "idle" /\ \A lock : ~ Holds(t, lock)
    BY DEF TxInit, Holds
  <2>2. QED
    BY <2>1 DEF Stands, Purposeful, JobStands, SubjectHeld, RowsHeld, LocksInOrder,
       HistoryStands, MaterialStands, KeysStand, ReferencesStand, InSubject, Decided
<1>4. QED
  BY <1>1, <1>2, <1>3 DEF TxInv

LEMMA CommitKeeps ==
  ASSUME TxInv, NEW t \in Txs, Commit(t)
  PROVE  TxInv'
<1>1. stage[t] = "commit" /\ Finish(t)
  BY DEF Commit
<1>2. Next
  BY <1>1, CommitExecutes, ExecutesIsNext
<1>3. ArchivesInv'
  BY <1>2, NextArchives DEF TxInv
<1>4. TxTypeOK' /\ LocksExclusive' /\ Stands(t)'
  BY <1>1, FinishLocks
<1>5. \A u \in Txs : u # t => Stands(u)'
  BY CommitKeepsOthers
<1>6. QED
  BY <1>3, <1>4, <1>5 DEF TxInv

LEMMA BeginKeeps ==
  ASSUME TxInv, NEW t \in Txs, Begin(t)
  PROVE  TxInv' /\ UNCHANGED vars
<1>1. TypeOK /\ VersionInv
  BY DEF TxInv, ArchivesInv
<1>2. ASSUME NEW action \in SubmitAction, NEW k \in IdempotencyKeys, NEW u \in Users,
             NEW s \in Subjects, NEW i \in SubmissionIds, NEW key \in BusinessKeys \cup {NoKey},
             NEW m \in (IF FormulaPins THEN SubmissionIds ELSE {}) \cup {NoSubmission},
             NEW x \in SubmissionIds \cup {NoSubmission}, NEW xr \in Nat,
             BeginSubmit(t, k, Requested(action, s, i, key, m, x, xr), u)
      PROVE  TxInv' /\ UNCHANGED vars
  <2> DEFINE r == Requested(action, s, i, key, m, x, xr)
             of == IF m = NoSubmission THEN NoSubject ELSE header[m].subject
  <2>1. m \in SubmissionIds \cup {NoSubmission}
    BY <1>2
  <2>2. of \in Subjects \cup {NoSubject} /\ (of \in Subjects => code[of] # 0)
    BY <1>1, <2>1, RowFacts DEF VersionInv, HeadersMatchEntries
  <2>3. r \in Request /\ r.material = m /\ r.materialOf = of
    BY <2>1, <2>2 DEF Requested, Request
  <2>4. r.material = NoSubmission => r.materialOf = NoSubject
    BY <2>3
  <2>5. UNCHANGED vars
    BY <1>2 DEF BeginSubmit
  <2>6. TxInv'
    <3> HIDE DEF r, of
    <3>1. PICK q \in Request : q = r
      BY <2>3
    <3>2. BeginSubmit(t, k, q, u) /\ (q.material = NoSubmission => q.materialOf = NoSubject)
          /\ (q.materialOf \in Subjects => code[q.materialOf] # 0)
      BY <1>2, <2>2, <2>3, <2>4, <3>1 DEF r
    <3>3. QED
      BY <3>2, BeginSubmitKeeps
  <2>7. QED
    BY <2>5, <2>6
<1>3. ASSUME NEW i \in SubmissionIds, NEW u \in Users, NEW action \in ApprovalAction \cup {"delete"},
             NEW reason \in Reason, BeginReview(t, action, i, u, entry[i].revision, reason)
      PROVE  TxInv' /\ UNCHANGED vars
  <2>1. entry[i].revision \in Nat
    BY <1>1 DEF TypeOK, Row, Entry, AbsentEntry
  <2>2. TxInv'
    <3>1. PICK revision \in Nat : revision = entry[i].revision
      BY <2>1
    <3>2. QED
      BY <1>3, <3>1, BeginReviewKeeps
  <2>3. QED
    BY <1>3, <2>2 DEF BeginReview
<1>4. ASSUME NEW s \in Subjects, NEW value \in BOOLEAN, BeginSetEnabled(t, s, value, objectRevision[s])
      PROVE  TxInv' /\ UNCHANGED vars
  <2>1. PICK revision \in Nat : revision = objectRevision[s]
    BY <1>1 DEF TypeOK
  <2>2. TxInv'
    BY <1>4, <2>1, BeginSetEnabledKeeps
  <2>3. QED
    BY <1>4, <2>2 DEF BeginSetEnabled
<1>5. CASE \E k \in IdempotencyKeys, u \in Users :
             /\ response[k] = NoResponse /\ HasPermission(u, "submit-new")
             /\ \E s \in Subjects, i \in SubmissionIds,
                   key \in BusinessKeys \cup {NoKey},
                   m \in (IF FormulaPins THEN SubmissionIds ELSE {}) \cup {NoSubmission} :
                  \/ BeginSubmit(t, k, Requested("submit-new", s, i, key, m,
                                                 NoSubmission, 0), u)
                  \/ \E x \in Versions(s) :
                       /\ IsApproved(x)
                       /\ BeginSubmit(t, k, Requested("submit-change", s, i, key, m,
                                                      x, entry[x].revision), u)
  <2>1. PICK k \in IdempotencyKeys, u \in Users, s \in Subjects, i \in SubmissionIds,
             key \in BusinessKeys \cup {NoKey},
             m \in (IF FormulaPins THEN SubmissionIds ELSE {}) \cup {NoSubmission} :
          \/ BeginSubmit(t, k, Requested("submit-new", s, i, key, m, NoSubmission, 0), u)
          \/ \E x \in Versions(s) :
               BeginSubmit(t, k, Requested("submit-change", s, i, key, m, x, entry[x].revision), u)
    BY <1>5
  <2>2. CASE BeginSubmit(t, k, Requested("submit-new", s, i, key, m, NoSubmission, 0), u)
    BY <1>2, <2>2 DEF SubmitAction
  <2>3. CASE \E x \in Versions(s) :
               BeginSubmit(t, k, Requested("submit-change", s, i, key, m, x, entry[x].revision), u)
    <3>1. PICK x \in Versions(s) :
            BeginSubmit(t, k, Requested("submit-change", s, i, key, m, x, entry[x].revision), u)
      BY <2>3
    <3>2. x \in SubmissionIds
      BY DEF Versions
    <3>3. entry[x].revision \in Nat
      BY <1>1, <3>2 DEF TypeOK, Row, Entry, AbsentEntry
    <3>4. PICK xr \in Nat : xr = entry[x].revision
      BY <3>3
    <3>5. BeginSubmit(t, k, Requested("submit-change", s, i, key, m, x, xr), u)
      BY <3>1, <3>4
    <3>6. QED
      BY <1>2, <3>2, <3>5 DEF SubmitAction
  <2>4. QED
    BY <2>1, <2>2, <2>3
<1>6. CASE \E i \in SubmissionIds, u \in Users :
             \/ \E action \in ApprovalAction :
                  BeginReview(t, action, i, u, entry[i].revision,
                    IF action \in {"reject", "unapprove"} THEN "text" ELSE "absent")
             \/ BeginReview(t, "delete", i, u, entry[i].revision, "absent")
  BY <1>3, <1>6 DEF Reason
<1>7. QED
  BY <1>4, <1>5, <1>6 DEF Begin

(* Every step keeps the invariant, and is a commit or writes nothing.       *)
LEMMA StepTx ==
  ASSUME TxInv, NEW t \in Txs,
         \/ Begin(t)
         \/ LockSubject(t) \/ LockRow(t)
         \/ ReadHistory(t) \/ ReadMaterial(t) \/ ReadDuplicates(t) \/ ReadReferences(t)
         \/ Commit(t) \/ Rollback(t)
  PROVE  TxInv' /\ (UNCHANGED vars \/ (Next /\ job'[t] = NoJob /\ Executes(job[t])))
<1>1. CASE Begin(t)
  BY <1>1, BeginKeeps
<1>2. CASE LockSubject(t)
  BY <1>2, LockSubjectKeeps DEF LockSubject
<1>3. CASE LockRow(t)
  BY <1>3, LockRowKeeps DEF LockRow
<1>4. CASE ReadHistory(t)
  BY <1>4, ReadHistoryKeeps DEF ReadHistory
<1>5. CASE ReadMaterial(t)
  BY <1>5, ReadMaterialKeeps DEF ReadMaterial
<1>6. CASE ReadDuplicates(t)
  BY <1>6, ReadDuplicatesKeeps DEF ReadDuplicates
<1>7. CASE ReadReferences(t)
  BY <1>7, ReadReferencesKeeps DEF ReadReferences
<1>8. CASE Commit(t)
  <2>1. stage[t] = "commit" /\ job'[t] = NoJob
    BY <1>8 DEF Commit, Finish, TxInv, TxTypeOK
  <2>2. QED
    BY <1>8, <2>1, CommitKeeps, CommitExecutes, ExecutesIsNext
<1>9. CASE Rollback(t)
  BY <1>9, FinishLocks, QuietStep DEF Rollback
<1>10. QED
  BY <1>1, <1>2, <1>3, <1>4, <1>5, <1>6, <1>7, <1>8, <1>9

LEMMA NextTx == TxInv /\ [TxNext]_allVars => TxInv' /\ [Next]_vars
<1> SUFFICES ASSUME TxInv, [TxNext]_allVars PROVE TxInv' /\ [Next]_vars
  OBVIOUS
<1>1. CASE TxNext
  BY <1>1, StepTx DEF TxNext
<1>2. CASE UNCHANGED allVars
  <2>1. UNCHANGED vars /\ UNCHANGED <<job, stage, rows, locks>>
    BY <1>2 DEF allVars, txVars
  <2>2. ArchivesInv'
    BY <2>1, NextArchives DEF TxInv
  <2>3. TxTypeOK' /\ LocksExclusive'
    BY <2>1 DEF TxInv, TxTypeOK, LocksExclusive, Holds
  <2>4. \A u \in Txs : Stands(u)'
    BY <2>1, RestingKeeps DEF Rests, Holds
  <2>5. QED
    BY <2>1, <2>2, <2>3, <2>4 DEF TxInv
<1>3. QED
  BY <1>1, <1>2

LEMMA TransactionsInvariant == TxSpec => []TxInv
BY InitTx, NextTx, PTL DEF TxSpec

(* bob.md 7.2: every commit is, at that moment, the whole operation that    *)
(* its request asks for, for any number of concurrent transactions; checks  *)
(* made statements and other commits earlier still hold.                    *)
THEOREM TransactionsAreSerial == TxSpec => CommitsAreSerial
<1>1. TxInv /\ [TxNext]_allVars =>
        [vars' # vars => \E t \in Txs : job'[t] = NoJob /\ Executes(job[t])]_allVars
  <2>1. SUFFICES ASSUME TxInv, TxNext, vars' # vars
                 PROVE  \E t \in Txs : job'[t] = NoJob /\ Executes(job[t])
    BY DEF allVars
  <2>2. PICK t \in Txs :
          \/ Begin(t)
          \/ LockSubject(t) \/ LockRow(t)
          \/ ReadHistory(t) \/ ReadMaterial(t) \/ ReadDuplicates(t) \/ ReadReferences(t)
          \/ Commit(t) \/ Rollback(t)
    BY <2>1 DEF TxNext
  <2>3. QED
    BY <2>1, <2>2, StepTx
<1>2. QED
  BY <1>1, TransactionsInvariant, PTL DEF TxSpec, CommitsAreSerial

(* The transactions implement Archives, so whatever is proved of its whole  *)
(* operations is true of concurrent transactions as well.                   *)
THEOREM TransactionsImplementArchives == TxSpec => Spec
<1>1. TxInit => Init
  BY DEF TxInit
<1>2. QED
  BY <1>1, TransactionsInvariant, NextTx, PTL DEF TxSpec, Spec

(* So no two subjects ever share a business key ...                         *)
THEOREM TransactionsShareNoKey == TxSpec => []BusinessKeysUnique
BY TransactionsImplementArchives, BusinessKeysNeverShared, PTL

(* ... no approved formula loses its material ...                           *)
THEOREM TransactionsKeepFormulas == TxSpec => []ApprovedFormulaPinned
BY TransactionsImplementArchives, ApprovedFormulasStayPinned, PTL

(* ... and versions are numbered without a gap, although every check was    *)
(* made by a transaction on its own.                                        *)
THEOREM TransactionsNumberVersions == TxSpec => []VersionsNumbered
BY TransactionsImplementArchives, NumbersWithoutGaps, PTL
-------------------------------------------------------------------------------
(* Whatever is waited for is held by a transaction.                         *)
LEMMA HolderRuns ==
  ASSUME TxInv, NEW t \in Txs, NEW lock \in Locks, ~ Available(t, lock)
  PROVE  \E u \in Txs : Holds(u, lock)
<1>1. PICK p \in locks : p[2] = lock /\ p[1] # t
  BY DEF Available
<1>2. p \in Txs \X Locks
  BY DEF TxInv, TxTypeOK
<1>3. p = <<p[1], lock>> /\ p[1] \in Txs
  BY <1>1, <1>2
<1>4. QED
  BY <1>1, <1>3 DEF Holds

(* If every transaction were blocked, there would be one that is blocked at *)
(* a row, and for it one that is blocked at a row with a higher id: there   *)
(* would be no end to the ids.                                              *)
LEMMA LocksNeverCircle == TxInv => NoLockCycle
<1> USE TransactionsAssumption
<1> SUFFICES ASSUME TxInv, NEW first \in Txs, stage[first] # "idle",
                    \A t \in Txs : stage[t] # "idle" => \E lock \in Wants(t) : ~ Available(t, lock)
             PROVE  FALSE
  BY DEF NoLockCycle
<1>1. \A t \in Txs : /\ stage[t] \in Stages /\ LocksInOrder(t)
                     /\ rows[t] \subseteq Subjects
  BY DEF TxInv, TxTypeOK, Stands
<1>2. \A t \in Txs : stage[t] \in {"references", "commit"} => Wants(t) = {}
  BY DEF Wants
<1>3. \A t \in Txs : stage[t] \notin {"references", "commit"}
  BY <1>2
<1>4. \A t \in Txs : stage[t] # "duplicates"
  <2>1. SUFFICES ASSUME NEW t \in Txs, stage[t] = "duplicates" PROVE FALSE
    OBVIOUS
  <2>2. PICK lock \in Wants(t) : ~ Available(t, lock)
    BY <2>1
  <2>3. lock \in {"key"} \X BusinessKeys
    BY <2>1, <2>2 DEF Wants
  <2>4. lock \in Locks /\ lock[1] = "key"
    BY <2>3 DEF Locks
  <2>5. PICK u \in Txs : Holds(u, lock)
    BY <2>2, <2>4, HolderRuns
  <2>6. QED
    BY <1>1, <1>3, <2>4, <2>5 DEF LocksInOrder
<1>5. \A t \in Txs : stage[t] \in InSubject => stage[t] = "rows" /\ rows[t] # {}
  BY <1>1, <1>3, <1>4 DEF InSubject, Stages, Wants
<1>6. ASSUME NEW t \in Txs, stage[t] = "rows"
      PROVE  \E u \in Txs : /\ stage[u] = "rows"
                            /\ Id[NextRow(t)] < Id[NextRow(u)]
                            /\ NextRow(t) \in Subjects /\ NextRow(u) \in Subjects
  <2>1. rows[t] # {} /\ Wants(t) = {<<"row", NextRow(t)>>} /\ NextRow(t) \in Subjects
    BY <1>5, <1>6, NextRowIsLeast DEF Wants, InSubject, Stages
  <2>2. <<"row", NextRow(t)>> \in Locks /\ ~ Available(t, <<"row", NextRow(t)>>)
    BY <1>6, <2>1 DEF Locks
  <2>3. PICK u \in Txs : Holds(u, <<"row", NextRow(t)>>)
    BY <2>2, HolderRuns
  <2>4. stage[u] \in InSubject /\ \A x \in rows[u] : Id[NextRow(t)] < Id[x]
    BY <1>1, <2>2, <2>3 DEF LocksInOrder
  <2>5. stage[u] = "rows" /\ NextRow(u) \in rows[u] /\ NextRow(u) \in Subjects
    BY <1>5, <2>4, NextRowIsLeast
  <2>6. QED
    BY <2>1, <2>4, <2>5
<1>7. \E t \in Txs : stage[t] = "rows"
  <2>1. CASE stage[first] = "subject"
    <3>1. job[first].subject \in Subjects
      BY JobFacts
    <3>2. /\ Wants(first) = {<<"subject", job[first].subject>>}
          /\ <<"subject", job[first].subject>> \in Locks
      BY <2>1, <3>1 DEF Wants, Locks
    <3>3. PICK u \in Txs : Holds(u, <<"subject", job[first].subject>>)
      BY <3>2, HolderRuns
    <3>4. stage[u] \in InSubject
      BY <1>1, <3>2, <3>3 DEF LocksInOrder
    <3>5. QED
      BY <1>5, <3>4
  <2>2. CASE stage[first] # "subject"
    BY <1>1, <1>5, <2>2 DEF InSubject
  <2>3. QED
    BY <2>1, <2>2
<1> DEFINE Above(x) == {y \in Subjects : Id[x] < Id[y]}
           Waiting == {t \in Txs : stage[t] = "rows"}
           C == {Above(NextRow(t)) : t \in Waiting}
<1>8. PICK B \in C : \A D \in C : D \subseteq B => D = B
  <2>1. \A t \in Waiting : Above(NextRow(t)) \in C
    OBVIOUS
  <2>2. \A D \in C : D \in SUBSET Subjects
    OBVIOUS
  <2>3. Waiting # {}
    BY <1>7
  <2> HIDE DEF C, Waiting
  <2>4. C # {} /\ C \in SUBSET SUBSET Subjects
    <3>1. PICK t \in Waiting : TRUE
      BY <2>3
    <3>2. QED
      BY <2>1, <2>2, <3>1
  <2>5. QED
    BY <2>4, MinimalSet
<1>9. PICK t \in Waiting : B = Above(NextRow(t))
  BY <1>8
<1>10. PICK u \in Txs : /\ stage[u] = "rows"
                        /\ Id[NextRow(t)] < Id[NextRow(u)]
                        /\ NextRow(t) \in Subjects /\ NextRow(u) \in Subjects
  BY <1>6, <1>9
<1>11. Above(NextRow(u)) \in C
  BY <1>10
<1>12. Above(NextRow(u)) \subseteq B /\ NextRow(u) \in B /\ NextRow(u) \notin Above(NextRow(u))
  BY <1>9, <1>10
<1>13. QED
  <2> HIDE DEF C, Above
  <2> QED BY <1>8, <1>11, <1>12

(* The fixed lock order (idempotency, subject, rows by id, business key)    *)
(* never lets transactions wait for each other in a circle, however many    *)
(* there are and whatever they lock.                                        *)
THEOREM LocksAreOrdered == TxSpec => []NoLockCycle
BY TransactionsInvariant, LocksNeverCircle, PTL
===============================================================================
