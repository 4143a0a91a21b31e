------------------------------- MODULE Archives -------------------------------
(***************************************************************************)
(* One entity of the versioned archives of DCL/BOB (customer, product,      *)
(* supplier, other unit, sales partner): stable subjects, their numbered    *)
(* versions, the archive_idempotency table and the enablement that BOB      *)
(* keeps beside the versions.                                               *)
(*                                                                         *)
(* Each public operation is one database transaction that holds the         *)
(* advisory lock of its subject (and of the business key it checks) from    *)
(* before its first read until it commits, so an operation is one action    *)
(* here.  ArchiveTransactions shows that the locks the code takes are       *)
(* enough for that.  A refused request changes nothing and is no action.    *)
(*                                                                         *)
(* What the entities differ in is a constant: KeyScope says which versions  *)
(* reserve a business key, FormulaPins whether a version may name an exact  *)
(* version of another subject (a product formula's raw material).           *)
(***************************************************************************)
EXTENDS Approval

CONSTANTS
  Subjects, NoSubject,
  SubmissionIds, NoSubmission,
  BusinessKeys, NoKey,        \* barcode / legal identifier; NoKey: not given
  IdempotencyKeys,            \* one per submit intent; bounds the submits
  KeyScope,                   \* "latest": product, "ever": other-unit and
                              \* sales-partner, "none": customer, supplier
  FormulaPins,                \* TRUE: product
  MaxRevision,                \* bound: revision of a version
  MaxObjectRevision           \* bound: revision of a subject's enablement

ASSUME ArchivesAssumption ==
  /\ NoSubject \notin Subjects
  /\ NoSubmission \notin SubmissionIds
  /\ NoKey \notin BusinessKeys
  /\ KeyScope \in {"latest", "ever", "none"}
  /\ FormulaPins \in BOOLEAN
  /\ MaxRevision \in Nat \ {0} /\ MaxObjectRevision \in Nat

VARIABLES
  code,             \* code[s]: number of s in dcl_subjects, 0: no such row
  nextCode,         \* archive_code_counters.next_value
  enabled,          \* bob_objects.enabled
  objectRevision,   \* bob_objects.revision, 0: no such row
  entry,            \* approval_entries: status, revision and metadata
  header,           \* approval_entries / typed snapshot: what is versioned
  response          \* archive_idempotency: the request a key was used for

vars == <<code, nextCode, enabled, objectRevision, entry, header, response>>
subjectVars == <<code, nextCode, enabled, objectRevision>>

Header == [subject   : Subjects,
           versionNo : Nat \ {0},
           key       : BusinessKeys \cup {NoKey},
           material  : SubmissionIds \cup {NoSubmission},
           materialOf : Subjects \cup {NoSubject}]
NoHeader == [subject |-> NoSubject, versionNo |-> 0, key |-> NoKey,
             material |-> NoSubmission, materialOf |-> NoSubject]

SubmitAction == {"submit-new", "submit-change"}
Request == [action           : SubmitAction,
            subject          : Subjects,
            submission       : SubmissionIds,
            key              : BusinessKeys \cup {NoKey},
            material         : SubmissionIds \cup {NoSubmission},
            materialOf       : Subjects \cup {NoSubject},
            expectedId       : SubmissionIds \cup {NoSubmission},
            expectedRevision : Nat]
NoResponse == [action |-> "none"]

TypeOK ==
  /\ code \in [Subjects -> Nat]
  /\ nextCode \in Nat \ {0}
  /\ enabled \in [Subjects -> BOOLEAN]
  /\ objectRevision \in [Subjects -> Nat]
  /\ entry \in [SubmissionIds -> Row]
  /\ header \in [SubmissionIds -> Header \cup {NoHeader}]
  /\ response \in [IdempotencyKeys -> Request \cup {NoResponse}]

Init ==
  /\ code = [s \in Subjects |-> 0]
  /\ nextCode = 1
  /\ enabled = [s \in Subjects |-> FALSE]
  /\ objectRevision = [s \in Subjects |-> 0]
  /\ entry = [i \in SubmissionIds |-> AbsentEntry]
  /\ header = [i \in SubmissionIds |-> NoHeader]
  /\ response = [k \in IdempotencyKeys |-> NoResponse]

-------------------------------------------------------------------------------
(* Version selection: VersionedArchives.history, latestApproved and open.   *)
Versions(s)   == { i \in SubmissionIds : header[i].subject = s }
IsApproved(i) == entry[i].status = "APPROVED"
Open(i)       == IsOpen(entry[i])

LatestApproved(s, i) ==
  /\ i \in Versions(s) /\ IsApproved(i)
  /\ \A j \in Versions(s) : IsApproved(j) => header[j].versionNo <= header[i].versionNo

NoOpenVersion(s) == \A i \in Versions(s) : ~Open(i)

(* The versions whose business key nobody else may use.                     *)
Reserves(i) ==
  \/ KeyScope = "latest" /\ (Open(i) \/ LatestApproved(header[i].subject, i))
  \/ KeyScope = "ever"   /\ (Open(i) \/ IsApproved(i))

(* ensureNoDuplicateBusinessKey: another subject already reserves the key.  *)
DuplicateBusinessKey(s, key) ==
  /\ key # NoKey
  /\ \E i \in SubmissionIds : /\ header[i].subject \notin {s, NoSubject}
                              /\ header[i].key = key
                              /\ Reserves(i)

(* A formula's material (objectId m, approvalEntryId i): the latest         *)
(* approved version of another, enabled subject that is a raw material, that *)
(* is, has no formula of its own.                                           *)
MaterialAvailable(s, m, i) ==
  i # NoSubmission =>
    /\ FormulaPins
    /\ m \in Subjects \ {s}
    /\ LatestApproved(m, i)
    /\ enabled[m]
    /\ header[i].material = NoSubmission

-------------------------------------------------------------------------------
(* Insert version n of request r, and remember r under its key.             *)
InsertVersion(k, r, n, actor) ==
  /\ entry[r.submission] = AbsentEntry          \* primary key
  /\ entry' = [entry EXCEPT ![r.submission] = NewEntry(actor)]
  /\ header' = [header EXCEPT ![r.submission] =
                  [subject |-> r.subject, versionNo |-> n,
                   key |-> r.key, material |-> r.material,
                   materialOf |-> r.materialOf]]
  /\ response' = [response EXCEPT ![k] = r]

(* What if a key that was used is not recognised, or nobody looks for the   *)
(* business key?                                                            *)
SubmitAllowedAgain(k, r, actor) ==
  /\ HasPermission(actor, r.action)
  /\ MaterialAvailable(r.subject, r.materialOf, r.material)
  /\ ~DuplicateBusinessKey(r.subject, r.key)
SubmitAllowedForAnyKey(k, r, actor) ==
  /\ response[k] = NoResponse
  /\ HasPermission(actor, r.action)
  /\ MaterialAvailable(r.subject, r.materialOf, r.material)

(* What both submits check after the idempotency key: the permission and    *)
(* the snapshot's references and business key.  A key that was used before  *)
(* returns the stored response (or a conflict), and nothing else happens.   *)
SubmitAllowed(k, r, actor) ==
  /\ response[k] = NoResponse
  /\ HasPermission(actor, r.action)
  /\ MaterialAvailable(r.subject, r.materialOf, r.material)
  /\ ~DuplicateBusinessKey(r.subject, r.key)

(* prepareSubmissionMechanics: is r the first version of a new subject, or  *)
(* the next one over the formal version that the client saw?                *)
FirstVersion(r) ==
  /\ code[r.subject] = 0
  /\ Versions(r.subject) = {}
  /\ r.expectedId = NoSubmission /\ r.expectedRevision = 0

NextVersion(r) ==
  /\ code[r.subject] # 0
  /\ NoOpenVersion(r.subject)
  /\ r.expectedId \in SubmissionIds
  /\ LatestApproved(r.subject, r.expectedId)
  /\ r.expectedRevision = entry[r.expectedId].revision

(* A new subject gets the next code and starts enabled.                     *)
CreateSubject(s) ==
  /\ code' = [code EXCEPT ![s] = nextCode]
  /\ nextCode' = nextCode + 1
  /\ enabled' = [enabled EXCEPT ![s] = TRUE]
  /\ objectRevision' = [objectRevision EXCEPT ![s] = 1]

SubmitNew(k, r, actor) ==
  /\ SubmitAllowed(k, r, actor)
  /\ FirstVersion(r)
  /\ CreateSubject(r.subject)
  /\ InsertVersion(k, r, 1, actor)

SubmitChange(k, r, actor) ==
  /\ SubmitAllowed(k, r, actor)
  /\ NextVersion(r)
  /\ InsertVersion(k, r, header[r.expectedId].versionNo + 1, actor)
  /\ UNCHANGED subjectVars

-------------------------------------------------------------------------------
Write(i, action, actor) ==
  /\ entry[i].revision < MaxRevision
  /\ entry' = [entry EXCEPT ![i] = NextEntry(entry[i], action, actor)]
  /\ UNCHANGED <<subjectVars, header, response>>

(* revalidateApprovalSnapshot: the archived submission is prepared again    *)
(* against the other versions, as if it were submitted now.                 *)
StillNext(i) ==
  LET others == Versions(header[i].subject) \ {i} IN
  /\ \A j \in others : ~Open(j)
  /\ IF header[i].versionNo = 1 THEN others = {}
                                ELSE \E j \in others : IsApproved(j)

MaterialStillAvailable(i) ==
  MaterialAvailable(header[i].subject, header[i].materialOf, header[i].material)

StillSubmittable(i) ==
  /\ StillNext(i)
  /\ MaterialStillAvailable(i)
  /\ ~DuplicateBusinessKey(header[i].subject, header[i].key)

Approve(i, actor, revision) ==
  /\ DecideApproval(entry[i], "approve", actor, revision, "absent")
  /\ StillSubmittable(i)
  /\ Write(i, "approve", actor)

Reject(i, actor, revision, reason) ==
  /\ DecideApproval(entry[i], "reject", actor, revision, reason)
  /\ Write(i, "reject", actor)

Unreject(i, actor, revision) ==
  /\ DecideApproval(entry[i], "unreject", actor, revision, "absent")
  /\ Write(i, "unreject", actor)

(* ensureUnapproveAllowed: only the latest approved version, with no open   *)
(* version beside it, whose predecessor's key is still free and which no    *)
(* approved formula names.  Blockers outside the archives (approved         *)
(* vouchers, openings, vehicles) only refuse more.                          *)
Previous(i, p) ==
  /\ p \in Versions(header[i].subject) \ {i} /\ IsApproved(p)
  /\ \A j \in Versions(header[i].subject) \ {i} :
       IsApproved(j) => header[j].versionNo <= header[p].versionNo

(* What if the key that comes back, or the formulas, are not looked at?     *)
PreviousKeyIgnored(i) == TRUE
ReferencesIgnored(i) == TRUE

PreviousKeyFree(i) ==
  KeyScope = "latest" => \A p \in SubmissionIds :
    Previous(i, p) => ~DuplicateBusinessKey(header[i].subject, header[p].key)

Unreferenced(i) == \A j \in SubmissionIds : IsApproved(j) => header[j].material # i

(* What if any approved version could be taken back?                        *)
UnapproveAllowedForAny(i) ==
  /\ NoOpenVersion(header[i].subject)
  /\ PreviousKeyFree(i)
  /\ Unreferenced(i)

UnapproveAllowed(i) ==
  /\ LatestApproved(header[i].subject, i)
  /\ NoOpenVersion(header[i].subject)
  /\ PreviousKeyFree(i)
  /\ Unreferenced(i)

Unapprove(i, actor, revision, reason) ==
  /\ DecideApproval(entry[i], "unapprove", actor, revision, reason)
  /\ UnapproveAllowed(i)
  /\ Write(i, "unapprove", actor)

(* delete: the version goes, the subject and the stored response stay.      *)
RemoveVersion(i) ==
  /\ entry' = [entry EXCEPT ![i] = AbsentEntry]
  /\ header' = [header EXCEPT ![i] = NoHeader]
  /\ UNCHANGED <<subjectVars, response>>

Delete(i, actor, revision) ==
  /\ DeleteAllowed(entry[i], actor, revision)
  /\ RemoveVersion(i)

(* BOB enable / disable: compare-and-set on the object's own revision.      *)
EnablementAllowed(s, value, revision) ==
  /\ objectRevision[s] # 0
  /\ revision = objectRevision[s]
  /\ enabled[s] # value

WriteEnablement(s, value) ==
  /\ objectRevision[s] < MaxObjectRevision
  /\ enabled' = [enabled EXCEPT ![s] = value]
  /\ objectRevision' = [objectRevision EXCEPT ![s] = @ + 1]
  /\ UNCHANGED <<code, nextCode, entry, header, response>>

SetEnabled(s, value, revision) ==
  /\ EnablementAllowed(s, value, revision)
  /\ WriteEnablement(s, value)

-------------------------------------------------------------------------------
(* The inputs: any key, ids and content, and for a change any formal        *)
(* version and revision the client may have seen, also an outdated one.  A  *)
(* material is named with its subject (any other subject is refused).       *)
Requested(action, s, i, key, m, x, xr) ==
  [action |-> action, subject |-> s, submission |-> i, key |-> key,
   material |-> m,
   materialOf |-> IF m = NoSubmission THEN NoSubject ELSE header[m].subject,
   expectedId |-> x, expectedRevision |-> xr]

Submit ==
  \E k \in IdempotencyKeys, s \in Subjects, i \in SubmissionIds,
     key \in BusinessKeys \cup {NoKey},
     m \in (IF FormulaPins THEN SubmissionIds ELSE {}) \cup {NoSubmission},
     u \in Users :
    \/ SubmitNew(k, Requested("submit-new", s, i, key, m, NoSubmission, 0), u)
    \/ \E x \in SubmissionIds, xr \in 1..MaxRevision :
         SubmitChange(k, Requested("submit-change", s, i, key, m, x, xr), u)

Review ==
  \E i \in SubmissionIds, u \in Users, revision \in 1..MaxRevision :
    \/ Approve(i, u, revision)
    \/ Unreject(i, u, revision)
    \/ \E reason \in Reason : \/ Reject(i, u, revision, reason)
                              \/ Unapprove(i, u, revision, reason)

Next ==
  \/ Submit
  \/ Review
  \/ \E i \in SubmissionIds, u \in Users, revision \in 1..MaxRevision :
       Delete(i, u, revision)
  \/ \E s \in Subjects, value \in BOOLEAN, revision \in 1..MaxObjectRevision :
       SetEnabled(s, value, revision)

Spec == Init /\ [][Next]_vars
-------------------------------------------------------------------------------
(* A header exists exactly as long as its entry does.                       *)
HeadersMatchEntries ==
  \A i \in SubmissionIds : /\ Present(entry[i]) <=> header[i] # NoHeader
                           /\ Present(entry[i]) => code[header[i].subject] # 0

(* approval.md 2 and 6: at most one PENDING or REJECTED version per         *)
(* subject, and it is the highest one.                                      *)
OneOpenVersion ==
  \A i, j \in SubmissionIds :
    Open(i) /\ i # j /\ header[j].subject = header[i].subject =>
      ~Open(j) /\ header[j].versionNo < header[i].versionNo

(* approval.md 6: the versions of a subject are numbered without a gap or a *)
(* repetition, over deletions (which give their number back), unapprovals   *)
(* and everything in between.                                               *)
VersionsNumbered ==
  \A i \in SubmissionIds : Present(entry[i]) =>
    /\ \A j \in SubmissionIds :
         j # i /\ header[j].subject = header[i].subject =>
           header[j].versionNo # header[i].versionNo
    /\ header[i].versionNo > 1 =>
         \E j \in SubmissionIds : /\ header[j].subject = header[i].subject
                                  /\ IsApproved(j)
                                  /\ header[j].versionNo = header[i].versionNo - 1

(* bob.md 3.3 and 9: a bar code is unique among the formal and the open     *)
(* versions of different products, a legal identifier among all versions of *)
(* different units or partners; also when an unapproval brings an old       *)
(* version, and its old key, back.                                          *)
BusinessKeysUnique ==
  \A i, j \in SubmissionIds :
    /\ Reserves(i) /\ Reserves(j)
    /\ header[i].key # NoKey /\ header[i].key = header[j].key
    => header[i].subject = header[j].subject

(* bob.md 3.3: an approved formula names an approved version of the raw     *)
(* material it was written for, however that product's versions came and    *)
(* went, and although ids can be deleted and used again for another subject. *)
ApprovedFormulaPinned ==
  \A i \in SubmissionIds :
    IsApproved(i) /\ header[i].material # NoSubmission =>
      /\ IsApproved(header[i].material)
      /\ header[header[i].material].subject = header[i].materialOf
      /\ header[i].materialOf # header[i].subject

(* bob.md 7.3: one idempotency key has one effect.  A row appears only      *)
(* together with a key used for the first time, and a key is never used     *)
(* again, also not after the version it created has been deleted.           *)
KeysSpentOnce ==
  [][/\ \A k \in IdempotencyKeys :
          response[k] # NoResponse => response'[k] = response[k]
     /\ \A i \in SubmissionIds :
          ~Present(entry[i]) /\ Present(entry'[i]) =>
            \E k \in IdempotencyKeys : /\ response[k] = NoResponse
                                       /\ response'[k] # NoResponse
                                       /\ response'[k].submission = i]_vars

===============================================================================
