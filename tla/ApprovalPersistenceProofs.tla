---------------------- MODULE ApprovalPersistenceProofs -----------------------
(***************************************************************************)
(* Proofs about ApprovalPersistence for any accounts, ids, transactions and *)
(* any bound on the trails.  The inductive invariant is TypeOK together     *)
(* with HeldIsCurrent (a transaction's copy is the committed row, because   *)
(* it holds the row lock), MetadataMatchesStatus and FourEyes.              *)
(***************************************************************************)
EXTENDS ApprovalPersistence, TLAPS

(* nextMetadata: a decided transition turns a well-formed row into a        *)
(* well-formed row whose reviewer is not its submitter.                     *)
LEMMA NextEntrySound ==
  ASSUME NEW e \in Row, NEW action \in ApprovalAction, NEW actor \in Users,
         NEW revision, NEW reason,
         DecideApproval(e, action, actor, revision, reason)
  PROVE  LET n == NextEntry(e, action, actor) IN
           /\ n \in Entry
           /\ ValidMetadata(n)
           /\ n.status = "APPROVED" => n.approvedBy # n.submittedBy
           /\ n.status = "REJECTED" => n.rejectedBy # n.submittedBy
<1>1. e \in Entry
  BY DEF DecideApproval, ActionIsValidForStatus, Row, AbsentEntry
<1>2. e.submittedBy \in Users /\ e.revision + 1 \in Nat \ {0}
  BY <1>1 DEF Entry
<1>3. CASE action = "approve"
  BY <1>2, <1>3, ApprovalAssumption DEF NextEntry, TargetStatus, Entry, ValidMetadata, ApprovalStatus,
     DecideApproval, ActionRequiresIndependentReviewer
<1>4. CASE action = "reject"
  BY <1>2, <1>4, ApprovalAssumption DEF NextEntry, TargetStatus, Entry, ValidMetadata, ApprovalStatus,
     DecideApproval, ActionRequiresIndependentReviewer
<1>5. CASE action \in {"unreject", "unapprove"}
  BY <1>2, <1>5, ApprovalAssumption DEF NextEntry, TargetStatus, Entry, ValidMetadata, ApprovalStatus
<1>6. QED
  BY <1>3, <1>4, <1>5 DEF ApprovalAction

(* create: a new entry is a well-formed row.                                *)
LEMMA NewEntrySound ==
  ASSUME NEW actor \in Users
  PROVE  /\ NewEntry(actor) \in Entry
         /\ ValidMetadata(NewEntry(actor))
         /\ NewEntry(actor).status = "PENDING"
BY ApprovalAssumption DEF NewEntry, Entry, ApprovalStatus, ValidMetadata

(* "No row" is well-formed too, and is not a row.                           *)
LEMMA AbsentEntrySound ==
  /\ AbsentEntry \in Row
  /\ AbsentEntry \notin Entry
  /\ ValidMetadata(AbsentEntry)
  /\ AbsentEntry.status = "ABSENT"
BY DEF AbsentEntry, Row, Entry, ValidMetadata, ApprovalStatus

USE ApprovalAssumption, PersistenceAssumption

(* Every write appends a well-formed event.                                 *)
LEMMA CommitTyped ==
  ASSUME TypeOK, NEW i \in EntryIds, NEW action \in EventActions,
         NEW from \in Row, NEW to \in Row, NEW actor \in Users,
         Commit(i, action, from, to, actor)
  PROVE  entry' \in [EntryIds -> Row] /\ events' \in [EntryIds -> Seq(Event)]
<1>1. /\ from.status \in Statuses /\ from.revision \in Nat
      /\ to.status \in Statuses /\ to.revision \in Nat
  BY DEF TypeOK, Row, Entry, AbsentEntry, Statuses
<1>2. Step(action, from, to, actor) \in Event
  BY <1>1 DEF Step, Event
<1>3. Append(events[i], Step(action, from, to, actor)) \in Seq(Event)
  BY <1>2 DEF TypeOK
<1>4. Updated(i, to) \in Row
  BY AbsentEntrySound DEF TypeOK, Updated, Present, Row, Entry, AbsentEntry
<1>5. QED
  BY <1>3, <1>4 DEF Commit, TypeOK

LEMMA EventActionTyped ==
  \A action \in ApprovalAction : EventAction(action) \in EventActions
BY DEF EventAction, EventActions, ApprovalAction

(* A transaction that has read a row works on a row that exists.            *)
LEMMA ReleaseTyped ==
  ASSUME TypeOK, NEW t \in Txs, Release(t)
  PROVE  /\ held' \in [Txs -> Row]
         /\ target' \in [Txs -> EntryIds]
         /\ rowLock' \in [EntryIds -> Txs \cup {NoTx}]
BY AbsentEntrySound DEF TypeOK, Release

THEOREM TypeCorrect == Spec => []TypeOK
<1>1. Init => TypeOK
  <2> SUFFICES ASSUME Init PROVE TypeOK
    OBVIOUS
  <2>1. events \in [EntryIds -> Seq(Event)]
    BY DEF Init
  <2>2. QED
    BY <2>1, AbsentEntrySound DEF Init, TypeOK
<1>2. TypeOK /\ [Next]_vars => TypeOK'
  <2> SUFFICES ASSUME TypeOK, [Next]_vars PROVE TypeOK'
    OBVIOUS
  <2>1. ASSUME NEW i \in EntryIds, NEW u \in Users, Create(i, u)
        PROVE  TypeOK'
    <3>1. NewEntry(u) \in Row
      BY NewEntrySound DEF Row
    <3>2. entry' \in [EntryIds -> Row] /\ events' \in [EntryIds -> Seq(Event)]
      BY <2>1, <3>1, CommitTyped, AbsentEntrySound DEF Create, EventActions
    <3>3. QED
      BY <2>1, <3>2 DEF Create, TypeOK
  <2>2. ASSUME NEW t \in Txs, NEW i \in EntryIds, Load(t, i)
        PROVE  TypeOK'
    BY <2>2 DEF Load, TypeOK
  <2>3. ASSUME NEW t \in Txs, NEW action \in ApprovalAction, NEW u \in Users,
               NEW revision \in 1..MaxEvents, NEW reason \in Reason,
               Transition(t, action, u, revision, reason)
        PROVE  TypeOK'
    <3>1. held[t] \in Row /\ target[t] \in EntryIds
      BY DEF TypeOK
    <3>2. NextEntry(held[t], action, u) \in Row
      BY <2>3, <3>1, NextEntrySound DEF Transition, Row
    <3>3. EventAction(action) \in EventActions
      BY EventActionTyped
    <3>4. entry' \in [EntryIds -> Row] /\ events' \in [EntryIds -> Seq(Event)]
      BY <2>3, <3>1, <3>2, <3>3, CommitTyped DEF Transition
    <3>5. QED
      BY <2>3, <3>4, ReleaseTyped DEF Transition, TypeOK
  <2>4. ASSUME NEW t \in Txs, NEW u \in Users, NEW revision \in 1..MaxEvents,
               Delete(t, u, revision)
        PROVE  TypeOK'
    <3>1. target[t] \in EntryIds /\ AbsentEntry \in Row /\ held[t] \in Row
      BY AbsentEntrySound DEF TypeOK
    <3>2. entry' \in [EntryIds -> Row] /\ events' \in [EntryIds -> Seq(Event)]
      BY <2>4, <3>1, CommitTyped DEF Delete, EventActions
    <3>3. QED
      BY <2>4, <3>2, ReleaseTyped DEF Delete, TypeOK
  <2>5. ASSUME NEW t \in Txs, Rollback(t)
        PROVE  TypeOK'
    BY <2>5, ReleaseTyped DEF Rollback, TypeOK
  <2>6. CASE UNCHANGED vars
    BY <2>6 DEF vars, TypeOK
  <2>7. QED
    BY <2>1, <2>2, <2>3, <2>4, <2>5, <2>6 DEF Next
<1>3. QED
  BY <1>1, <1>2, PTL DEF Spec
-------------------------------------------------------------------------------
(* The inductive invariant behind separation of duties: a decision is taken *)
(* on the committed row because the row lock is held from the read to the   *)
(* commit; the compare-and-set on the revision alone would not be enough,   *)
(* a deleted and resubmitted id starts again at revision 1.                 *)
SafetyInv == HeldIsCurrent /\ MetadataMatchesStatus /\ FourEyes

Sound(e) == /\ ValidMetadata(e)
            /\ e.status = "APPROVED" => e.approvedBy # e.submittedBy
            /\ e.status = "REJECTED" => e.rejectedBy # e.submittedBy

LEMMA SoundRows ==
  ASSUME TypeOK, MetadataMatchesStatus, FourEyes, NEW i \in EntryIds, NEW to,
         Sound(to), entry' = [entry EXCEPT ![i] = to]
  PROVE  (MetadataMatchesStatus /\ FourEyes)'
<1>1. entry \in [EntryIds -> Row]
  BY DEF TypeOK
<1>2. \A j \in EntryIds : Sound(entry[j])
  BY DEF MetadataMatchesStatus, FourEyes, Sound
<1>3. \A j \in EntryIds : entry'[j] = IF j = i THEN to ELSE entry[j]
  BY <1>1
<1>4. \A j \in EntryIds : Sound(entry'[j])
  BY <1>2, <1>3
<1>5. QED
  BY <1>4 DEF MetadataMatchesStatus, FourEyes, Sound

(* A row is inserted and removed as it is; an update keeps the submitter,   *)
(* which a copy that is current has too.                                    *)
LEMMA UpdatedIsNext ==
  ASSUME NEW i \in EntryIds, NEW action, NEW actor
  PROVE  /\ Updated(i, AbsentEntry) = AbsentEntry
         /\ ~Present(entry[i]) =>
              Updated(i, NewEntry(actor)) = NewEntry(actor)
         /\ Updated(i, NextEntry(entry[i], action, actor))
              = NextEntry(entry[i], action, actor)
<1>1. Updated(i, AbsentEntry) = AbsentEntry
  BY DEF Updated, Present, AbsentEntry
<1>2. ~Present(entry[i]) => Updated(i, NewEntry(actor)) = NewEntry(actor)
  BY DEF Updated
<1>3. LET n == NextEntry(entry[i], action, actor)
      IN  [n EXCEPT !.submittedBy = entry[i].submittedBy] = n
  BY DEF NextEntry
<1>4. QED
  BY <1>1, <1>2, <1>3 DEF Updated

(* A transaction that ends leaves the other transactions' copies current.   *)
LEMMA HeldAfterRelease ==
  ASSUME TypeOK, HeldIsCurrent, NEW t \in Txs, ~Idle(t), Release(t),
         \A j \in EntryIds : j # target[t] => entry'[j] = entry[j]
  PROVE  HeldIsCurrent'
<1>1. /\ held \in [Txs -> Row] /\ target \in [Txs -> EntryIds]
      /\ rowLock \in [EntryIds -> Txs \cup {NoTx}]
  BY DEF TypeOK
<1>2. rowLock[target[t]] = t
  BY DEF HeldIsCurrent
<1>3. ASSUME NEW x \in Txs, held'[x] # AbsentEntry
      PROVE  held'[x] = entry'[target'[x]] /\ rowLock'[target'[x]] = x
  <2>1. x # t /\ held'[x] = held[x] /\ target'[x] = target[x]
    BY <1>1, <1>3 DEF Release
  <2>2. held[x] = entry[target[x]] /\ rowLock[target[x]] = x
    BY <1>3, <2>1 DEF HeldIsCurrent, Idle
  <2>3. target[x] # target[t]
    BY <1>2, <2>1, <2>2
  <2>4. QED
    BY <1>1, <2>1, <2>2, <2>3 DEF Release
<1>4. ASSUME NEW i \in EntryIds, rowLock'[i] # NoTx
      PROVE  held'[rowLock'[i]] # AbsentEntry /\ target'[rowLock'[i]] = i
  <2>1. i # target[t] /\ rowLock'[i] = rowLock[i]
    BY <1>1, <1>4 DEF Release
  <2>2. /\ rowLock[i] \in Txs /\ held[rowLock[i]] # AbsentEntry
        /\ target[rowLock[i]] = i
    BY <1>1, <1>4, <2>1 DEF HeldIsCurrent, Idle
  <2>3. rowLock[i] # t
    BY <2>1, <2>2
  <2>4. QED
    BY <1>1, <2>1, <2>2, <2>3 DEF Release
<1>5. QED
  BY <1>3, <1>4 DEF HeldIsCurrent, Idle

LEMMA InitSafety == Init => SafetyInv
<1> SUFFICES ASSUME Init PROVE SafetyInv
  OBVIOUS
<1>1. HeldIsCurrent
  BY DEF Init, HeldIsCurrent, Idle
<1>2. MetadataMatchesStatus /\ FourEyes
  BY AbsentEntrySound DEF Init, MetadataMatchesStatus, FourEyes
<1>3. QED
  BY <1>1, <1>2 DEF SafetyInv

LEMMA NextSafety == TypeOK /\ SafetyInv /\ [Next]_vars => SafetyInv'
<1> SUFFICES ASSUME TypeOK, HeldIsCurrent, MetadataMatchesStatus, FourEyes,
                    [Next]_vars
             PROVE  SafetyInv'
  BY DEF SafetyInv
<1>0. /\ held \in [Txs -> Row] /\ target \in [Txs -> EntryIds]
      /\ rowLock \in [EntryIds -> Txs \cup {NoTx}]
      /\ entry \in [EntryIds -> Row]
  BY DEF TypeOK
<1>1. ASSUME NEW i \in EntryIds, NEW u \in Users, Create(i, u)
      PROVE  SafetyInv'
  <2>1. Sound(NewEntry(u))
    BY NewEntrySound DEF Sound
  <2>2. (MetadataMatchesStatus /\ FourEyes)'
    <3>1. ~Present(entry[i])
      BY <1>1, AbsentEntrySound DEF Create, Present
    <3>2. entry' = [entry EXCEPT ![i] = NewEntry(u)]
      BY <1>1, <3>1, UpdatedIsNext DEF Create, Commit
    <3>3. QED
      BY <2>1, <3>2, SoundRows
  <2>3. \A t \in Txs : ~Idle(t) => target[t] # i
    BY <1>1 DEF HeldIsCurrent, Idle, Create
  <2>4. HeldIsCurrent'
    BY <1>0, <1>1, <2>3 DEF HeldIsCurrent, Idle, Create, Commit
  <2>5. QED
    BY <2>2, <2>4 DEF SafetyInv
<1>2. ASSUME NEW t \in Txs, NEW i \in EntryIds, Load(t, i)
      PROVE  SafetyInv'
  <2>1. HeldIsCurrent'
    <3>1. entry[i] # AbsentEntry
      BY <1>2, AbsentEntrySound DEF Load, Present
    <3>2. /\ held' = [held EXCEPT ![t] = entry[i]]
          /\ target' = [target EXCEPT ![t] = i]
          /\ rowLock' = [rowLock EXCEPT ![i] = t]
          /\ entry' = entry /\ held[t] = AbsentEntry /\ rowLock[i] = NoTx
      BY <1>2 DEF Load, Idle
    <3>3. QED
      BY <1>0, <3>1, <3>2 DEF HeldIsCurrent, Idle
  <2>2. QED
    BY <1>2, <2>1 DEF SafetyInv, Load, MetadataMatchesStatus, FourEyes
<1>3. ASSUME NEW t \in Txs, NEW action \in ApprovalAction, NEW u \in Users,
             NEW revision \in 1..MaxEvents, NEW reason \in Reason,
             Transition(t, action, u, revision, reason)
      PROVE  SafetyInv'
  <2>1. Sound(NextEntry(held[t], action, u))
    BY <1>0, <1>3, NextEntrySound DEF Transition, Sound
  <2>2. (MetadataMatchesStatus /\ FourEyes)'
    <3>1. held[t] = entry[target[t]] /\ target[t] \in EntryIds
      BY <1>0, <1>3 DEF Transition, HeldIsCurrent
    <3>2. entry' = [entry EXCEPT ![target[t]] =
                      Updated(target[t], NextEntry(held[t], action, u))]
      BY <1>3 DEF Transition, Commit
    <3>3. Updated(target[t], NextEntry(held[t], action, u))
            = NextEntry(held[t], action, u)
      BY <3>1, UpdatedIsNext
    <3>4. QED
      BY <2>1, <3>1, <3>2, <3>3, SoundRows
  <2>3. HeldIsCurrent'
    BY <1>0, <1>3, HeldAfterRelease DEF Transition, Commit
  <2>4. QED
    BY <2>2, <2>3 DEF SafetyInv
<1>4. ASSUME NEW t \in Txs, NEW u \in Users, NEW revision \in 1..MaxEvents,
             Delete(t, u, revision)
      PROVE  SafetyInv'
  <2>1. Sound(AbsentEntry)
    BY AbsentEntrySound DEF Sound
  <2>2. (MetadataMatchesStatus /\ FourEyes)'
    <3>1. entry' = [entry EXCEPT ![target[t]] = AbsentEntry]
      BY <1>0, <1>4, UpdatedIsNext DEF Delete, Commit
    <3>2. QED
      BY <1>0, <2>1, <3>1, SoundRows
  <2>3. HeldIsCurrent'
    BY <1>0, <1>4, HeldAfterRelease DEF Delete, Commit
  <2>4. QED
    BY <2>2, <2>3 DEF SafetyInv
<1>5. ASSUME NEW t \in Txs, Rollback(t)
      PROVE  SafetyInv'
  <2>1. HeldIsCurrent'
    BY <1>5, HeldAfterRelease DEF Rollback
  <2>2. QED
    BY <1>5, <2>1 DEF SafetyInv, Rollback, MetadataMatchesStatus, FourEyes
<1>6. CASE UNCHANGED vars
  BY <1>6 DEF vars, SafetyInv, HeldIsCurrent, Idle, MetadataMatchesStatus, FourEyes
<1>7. QED
  BY <1>1, <1>2, <1>3, <1>4, <1>5, <1>6 DEF Next

(* Separation of duties for every interleaving of requests: no row of       *)
(* approval_entries is ever approved or rejected by its own submitter.      *)
THEOREM SeparationOfDuties == Spec => []FourEyes
<1>1. Init => SafetyInv
  BY InitSafety
<1>2. TypeOK /\ SafetyInv /\ [Next]_vars => SafetyInv'
  BY NextSafety
<1>3. SafetyInv => FourEyes
  BY DEF SafetyInv
<1>4. QED
  BY <1>1, <1>2, <1>3, TypeCorrect, PTL DEF Spec

(* A transaction's copy is the committed row until it commits or rolls back. *)
THEOREM CopiesAreCurrent == Spec => []HeldIsCurrent
<1>1. SafetyInv => HeldIsCurrent
  BY DEF SafetyInv
<1>2. QED
  BY <1>1, InitSafety, NextSafety, TypeCorrect, PTL DEF Spec

(* The metadata columns always correspond exactly to the status.            *)
THEOREM MetadataExact == Spec => []MetadataMatchesStatus
<1>1. SafetyInv => MetadataMatchesStatus
  BY DEF SafetyInv
<1>2. QED
  BY <1>1, InitSafety, NextSafety, TypeCorrect, PTL DEF Spec
-------------------------------------------------------------------------------
(* The audit trail.  The event of a write is computed from the copy that    *)
(* was read; it continues the trail because that copy is current, so the    *)
(* invariant rests on HeldIsCurrent and, for a first event, on the trail    *)
(* being empty only while there has never been a row.                       *)
Unbroken(trail, row) ==
  LET n == Len(trail) IN
  /\ n = 0 => row = AbsentEntry
  /\ n > 0 => /\ trail[n].to = row.status
              /\ trail[n].toRevision = row.revision
              /\ trail[1].from = "ABSENT"
  /\ \A k \in 2..n : /\ trail[k].from = trail[k-1].to
                     /\ trail[k].fromRevision = trail[k-1].toRevision
  /\ \A k \in 1..n : trail[k].to # "ABSENT" =>
                       trail[k].toRevision = trail[k].fromRevision + 1

LEMMA TrailsUnbroken ==
  TrailMatchesEntry <=> \A i \in EntryIds : Unbroken(events[i], entry[i])
BY DEF TrailMatchesEntry, Unbroken

(* One more event keeps a trail unbroken when it starts at the row as it is *)
(* and, unless it removes the row, counts the revision up by one.           *)
LEMMA UnbrokenAppend ==
  ASSUME NEW trail \in Seq(Event), NEW row, Unbroken(trail, row),
         NEW action, NEW to, NEW actor,
         to.status # "ABSENT" => to.revision = row.revision + 1
  PROVE  Unbroken(Append(trail, Step(action, row, to, actor)), to)
<1> DEFINE e == Step(action, row, to, actor)
           longer == Append(trail, e)
           n == Len(trail)
<1>1. n \in Nat
  OBVIOUS
<1>2. Len(longer) = n + 1 /\ longer[n + 1] = e
  OBVIOUS
<1>3. \A k \in 1..n : longer[k] = trail[k]
  OBVIOUS
<1>4. /\ e.from = row.status /\ e.to = to.status
      /\ e.fromRevision = row.revision /\ e.toRevision = to.revision
  BY DEF Step
<1>5. /\ n = 0 => row = AbsentEntry
      /\ n > 0 => /\ trail[n].to = row.status
                  /\ trail[n].toRevision = row.revision
                  /\ trail[1].from = "ABSENT"
      /\ \A k \in 2..n : /\ trail[k].from = trail[k-1].to
                         /\ trail[k].fromRevision = trail[k-1].toRevision
      /\ \A k \in 1..n : trail[k].to # "ABSENT" =>
                           trail[k].toRevision = trail[k].fromRevision + 1
  BY DEF Unbroken
<1> HIDE DEF e, longer, n
<1>6. longer[1].from = "ABSENT"
  <2>1. CASE n = 0
    BY <1>2, <1>4, <1>5, <2>1 DEF AbsentEntry
  <2>2. CASE n > 0
    BY <1>1, <1>3, <1>5, <2>2
  <2>3. QED
    BY <1>1, <2>1, <2>2
<1>7. ASSUME NEW k \in 2..(n + 1)
      PROVE  /\ longer[k].from = longer[k-1].to
             /\ longer[k].fromRevision = longer[k-1].toRevision
  <2>1. CASE k = n + 1
    <3>1. n > 0 /\ k - 1 = n /\ n \in 1..n
      BY <1>1, <2>1, <1>7
    <3>2. QED
      BY <1>2, <1>3, <1>4, <1>5, <2>1, <3>1
  <2>2. CASE k # n + 1
    <3>1. k \in 2..n /\ k \in 1..n /\ k - 1 \in 1..n
      BY <1>1, <2>2, <1>7
    <3>2. QED
      BY <1>3, <1>5, <3>1
  <2>3. QED
    BY <2>1, <2>2
<1>8. ASSUME NEW k \in 1..(n + 1), longer[k].to # "ABSENT"
      PROVE  longer[k].toRevision = longer[k].fromRevision + 1
  <2>1. CASE k = n + 1
    BY <1>2, <1>4, <1>8, <2>1
  <2>2. CASE k # n + 1
    <3>1. k \in 1..n
      BY <1>1, <2>2, <1>8
    <3>2. QED
      BY <1>3, <1>5, <1>8, <3>1
  <2>3. QED
    BY <2>1, <2>2
<1>9. Unbroken(longer, to)
  BY <1>1, <1>2, <1>4, <1>6, <1>7, <1>8 DEF Unbroken
<1>10. QED
  BY <1>9 DEF longer, e

(* A commit that starts from the committed row and writes the next one      *)
(* keeps every trail unbroken.                                              *)
LEMMA TrailAfterCommit ==
  ASSUME TypeOK, TrailMatchesEntry, NEW i \in EntryIds, NEW action, NEW to,
         NEW actor, Commit(i, action, entry[i], to, actor),
         Updated(i, to) = to,
         to.status # "ABSENT" => to.revision = entry[i].revision + 1
  PROVE  TrailMatchesEntry'
<1>1. /\ entry \in [EntryIds -> Row]
      /\ events \in [EntryIds -> Seq(Event)]
  BY DEF TypeOK
<1>2. \A j \in EntryIds : Unbroken(events[j], entry[j])
  BY TrailsUnbroken
<1> DEFINE longer == Append(events[i], Step(action, entry[i], to, actor))
<1>3. \A j \in EntryIds :
        /\ entry'[j] = IF j = i THEN to ELSE entry[j]
        /\ events'[j] = IF j = i THEN longer ELSE events[j]
  BY <1>1 DEF Commit
<1>4. Unbroken(longer, to)
  BY <1>1, <1>2, UnbrokenAppend
<1>5. \A j \in EntryIds : Unbroken(events'[j], entry'[j])
  BY <1>2, <1>3, <1>4
<1>6. QED
  BY <1>5 DEF TrailMatchesEntry, Unbroken

LEMMA InitTrail == Init => TrailMatchesEntry
BY DEF Init, TrailMatchesEntry

LEMMA NextTrail ==
  TypeOK /\ SafetyInv /\ TrailMatchesEntry /\ [Next]_vars => TrailMatchesEntry'
<1> SUFFICES ASSUME TypeOK, HeldIsCurrent, TrailMatchesEntry, [Next]_vars
             PROVE  TrailMatchesEntry'
  BY DEF SafetyInv
<1>0. held \in [Txs -> Row] /\ target \in [Txs -> EntryIds]
  BY DEF TypeOK
<1>1. ASSUME NEW i \in EntryIds, NEW u \in Users, Create(i, u)
      PROVE  TrailMatchesEntry'
  <2>1. entry[i] = AbsentEntry /\ ~Present(entry[i])
    BY <1>1, AbsentEntrySound DEF Create, Present
  <2>2. Commit(i, "SUBMITTED", entry[i], NewEntry(u), u)
    BY <1>1, <2>1 DEF Create
  <2>3. NewEntry(u).revision = entry[i].revision + 1
    BY <2>1 DEF NewEntry, AbsentEntry
  <2>4. QED
    BY <2>1, <2>2, <2>3, UpdatedIsNext, TrailAfterCommit
<1>2. ASSUME NEW t \in Txs, NEW action \in ApprovalAction, NEW u \in Users,
             NEW revision \in 1..MaxEvents, NEW reason \in Reason,
             Transition(t, action, u, revision, reason)
      PROVE  TrailMatchesEntry'
  <2>1. target[t] \in EntryIds /\ held[t] = entry[target[t]]
    BY <1>0, <1>2 DEF Transition, HeldIsCurrent
  <2> DEFINE i == target[t]
             next == NextEntry(entry[i], action, u)
  <2>2. Commit(i, EventAction(action), entry[i], next, u)
    BY <1>2, <2>1 DEF Transition
  <2>3. next.revision = entry[i].revision + 1
    BY DEF NextEntry
  <2>4. Updated(i, next) = next
    BY <2>1, UpdatedIsNext
  <2> HIDE DEF i, next
  <2>5. i \in EntryIds
    BY <2>1 DEF i
  <2>6. QED
    BY <2>2, <2>3, <2>4, <2>5, TrailAfterCommit
<1>3. ASSUME NEW t \in Txs, NEW u \in Users, NEW revision \in 1..MaxEvents,
             Delete(t, u, revision)
      PROVE  TrailMatchesEntry'
  <2>1. target[t] \in EntryIds /\ held[t] = entry[target[t]]
    BY <1>0, <1>3 DEF Delete, HeldIsCurrent
  <2>2. Commit(target[t], "DELETED", entry[target[t]], AbsentEntry, u)
    BY <1>3, <2>1 DEF Delete
  <2>3. Updated(target[t], AbsentEntry) = AbsentEntry
    BY <2>1, UpdatedIsNext
  <2>4. QED
    BY <2>1, <2>2, <2>3, AbsentEntrySound, TrailAfterCommit
<1>4. CASE UNCHANGED <<entry, events>>
  BY <1>4 DEF TrailMatchesEntry
<1>5. ASSUME NEW t \in Txs, NEW i \in EntryIds, Load(t, i)
      PROVE  TrailMatchesEntry'
  BY <1>4, <1>5 DEF Load
<1>6. ASSUME NEW t \in Txs, Rollback(t)
      PROVE  TrailMatchesEntry'
  BY <1>4, <1>6 DEF Rollback
<1>7. CASE UNCHANGED vars
  BY <1>4, <1>7 DEF vars
<1>8. QED
  BY <1>1, <1>2, <1>3, <1>5, <1>6, <1>7 DEF Next

(* The audit trail of every id is one unbroken chain of states and          *)
(* revisions that ends in the committed row, whatever the interleaving of   *)
(* requests and however often the id is deleted and submitted again.        *)
THEOREM TrailsAreUnbroken == Spec => []TrailMatchesEntry
BY InitSafety, NextSafety, InitTrail, NextTrail, TypeCorrect, PTL DEF Spec
===============================================================================
