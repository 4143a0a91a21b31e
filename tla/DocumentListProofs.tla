------------------------- MODULE DocumentListProofs -------------------------
(***************************************************************************)
(* What the list page shows and tells about unknown outcomes, and that it   *)
(* decides once at a time, for any documents, users, revisions and windows. *)
(*                                                                         *)
(* The argument is about revisions.  A request names the revision it was    *)
(* decided on, the server only carries it out at that revision, and every   *)
(* change moves the revision on.  A request whose event is in the trail, or *)
(* whose document has moved past its revision, is over: it is never carried *)
(* out again.  The verification reads the detail before the trail, so that  *)
(* a request it finds over and without event never was and never will be.   *)
(*                                                                         *)
(* A change the page knows of makes every list on its way too old to be     *)
(* shown, and a list that is read later shows that change or a newer one.   *)
(***************************************************************************)
EXTENDS DocumentList, TLAPS

Event(r) == [request |-> r, actor |-> Me]
Own(d)   == [document |-> d, intent |-> unknown[d]]

(* The revision n of d was in force, now or before.                         *)
Reached(d, n) == Present(entry[d]) => n <= entry[d].revision

(* The request can be carried out no more.                                  *)
Over(r) ==
  Present(entry[r.document]) => r.intent.revision < entry[r.document].revision

(* As much of the types as the argument needs.                             *)
Types ==
  /\ entry \in [Documents -> Row]
  /\ adrift \subseteq Request
  /\ \A event \in trail : event.request \in Request
  /\ \A v \in told : v.request \in Request
  /\ unknown \in [Documents -> Intent \cup {NoIntent}]
  /\ selected \in [document : Documents, entry : Entry] \cup {NoDetail}
  /\ opens \subseteq [document : Documents, fresh : BOOLEAN]
  /\ DOMAIN task = Documents
  /\ \A d \in Documents :
       /\ task[d].step \in {"sent", "done", "refused"} => task[d].intent \in Intent
       /\ task[d].step = "done" => task[d].result \in Row
       /\ task[d].step = "done" /\ task[d].intent.action # "delete" =>
            Present(task[d].result)
       /\ task[d].step \in {"audit", "decide"} => task[d].seen \in Row

RevisionsReached ==
  /\ \A r \in adrift : Reached(r.document, r.intent.revision)
  /\ selected # NoDetail => Reached(selected.document, selected.entry.revision)
  /\ \A d \in Documents :
       /\ Reached(d, unknown[d].revision)
       /\ task[d].step \in {"sent", "done", "refused"} =>
            Reached(d, task[d].intent.revision)
       /\ task[d].step = "done" /\ Present(task[d].result) =>
            Reached(d, task[d].result.revision)
       /\ task[d].step \in {"audit", "decide"} /\ Present(task[d].seen) =>
            Reached(d, task[d].seen.revision)

(* What has been carried out is in the trail, and over.                     *)
TrailIsOver ==
  /\ \A r \in carried : Event(r) \in trail
  /\ \A event \in trail : Over(event.request)
  /\ \A v \in told : ~v.written => Over(v.request)

(* What a verification has found so far.                                    *)
Found(d) ==
  /\ task[d].step \in {"get", "audit", "decide", "latest"} => unknown[d] # NoIntent
  /\ task[d].step \in {"audit", "decide"} /\ Present(task[d].seen) =>
       unknown[d].revision <= task[d].seen.revision
  /\ task[d].step = "decide" /\ task[d].written => Event(Own(d)) \in trail
  /\ task[d].step = "decide" /\ ~task[d].written /\ Present(task[d].seen)
       /\ task[d].seen.revision # unknown[d].revision => Event(Own(d)) \notin trail
  /\ task[d].step = "latest" => Event(Own(d)) \in trail

(* The dialog stays on the document that is decided on or verified.         *)
DialogHeld ==
  /\ current => \A d \in Documents :
       task[d].step \notin {"idle", "refresh"} =>
         d \in pending /\ selected.document = d
  /\ selected # NoDetail => ~detailLoading
  /\ \A o \in opens : o.fresh => o.document = opened /\ detailLoading /\ current
  /\ \A o, p \in opens : o.fresh /\ p.fresh => o = p

IInv ==
  /\ Types /\ RevisionsReached /\ TrailIsOver
  /\ current => \A d \in Documents : Found(d)
  /\ VerdictsAreTrue /\ NoSecondDecision
  /\ DialogHeld /\ DetailIsTheOpened
-------------------------------------------------------------------------------
(* A change by anybody, at the revision he named.                           *)
LEMMA PerformMovesOn ==
  ASSUME entry \in [Documents -> Row],
         NEW d \in Documents, NEW i \in Intent, NEW u \in Users, Perform(d, i, u)
  PROVE  /\ entry' \in [Documents -> Row]
         /\ Present(entry[d]) /\ i.revision = entry[d].revision
         /\ entry' = [entry EXCEPT ![d] = After(entry[d], i, u)]
         /\ i.action # "delete" => Present(After(entry[d], i, u))
         /\ Present(After(entry[d], i, u)) =>
              After(entry[d], i, u).revision = entry[d].revision + 1
<1>1. entry[d] \in Entry /\ Present(entry[d]) /\ i.revision = entry[d].revision
  BY DEF Perform, Allowed, DeleteAllowed, DecideApproval, Row, Present, AbsentEntry
<1>2. entry' = [entry EXCEPT ![d] = After(entry[d], i, u)]
  BY DEF Perform
<1>3. i.action # "delete" => /\ NextEntry(entry[d], i.action, u) \in Entry
                            /\ NextEntry(entry[d], i.action, u).revision = entry[d].revision + 1
  BY <1>1 DEF NextEntry, Entry, TargetStatus, ApprovalStatus
<1>4. \A e \in Entry : Present(e)
  BY DEF Entry, ApprovalStatus, Present
<1>5. ~Present(AbsentEntry)
  BY DEF AbsentEntry, Present
<1>6. After(entry[d], i, u) \in Row
  BY <1>3 DEF After, Row
<1> QED
  BY <1>1, <1>2, <1>3, <1>4, <1>5, <1>6 DEF After

(* Revisions that were reached stay reached, requests that are over stay    *)
(* over, and the request that was carried out is over as well.              *)
LEMMA PerformOvertakes ==
  ASSUME entry \in [Documents -> Row],
         NEW d \in Documents, NEW i \in Intent, NEW u \in Users, Perform(d, i, u)
  PROVE  /\ \A x \in Documents, n \in Nat : Reached(x, n) => Reached(x, n)'
         /\ \A r \in Request : Over(r) => Over(r)'
         /\ Over([document |-> d, intent |-> i])'
         /\ \A r \in Request : Reached(r.document, r.intent.revision) =>
              \/ Over(r)'
              \/ r.document # d /\ entry'[r.document] = entry[r.document]
         /\ Reached(d, i.revision)'
         /\ \A n \in Nat : n <= After(entry[d], i, u).revision => Reached(d, n)'
<1> DEFINE e == After(entry[d], i, u)
<1>1. \A n \in Nat : n <= entry[d].revision /\ Present(e) => n < e.revision
  <2>1. entry[d].revision \in Nat
    BY DEF Row, Entry, AbsentEntry
  <2> QED
    BY <2>1, PerformMovesOn
<1>2. Present(entry[d]) /\ i.revision = entry[d].revision
      /\ entry'[d] = e /\ \A x \in Documents \ {d} : entry'[x] = entry[x]
  BY PerformMovesOn
<1>3. \A x \in Documents : entry[x].revision \in Nat /\ entry'[x].revision \in Nat
  BY PerformMovesOn DEF Row, Entry, AbsentEntry
<1>4. \A r \in Request : r.document \in Documents /\ r.intent.revision \in Nat
  BY DocumentListAssumption DEF Request, Intent
<1>5. i.revision \in Nat
  BY DocumentListAssumption DEF Intent
<1> HIDE DEF e
<1>6. \A x \in Documents, n \in Nat : Reached(x, n) => Reached(x, n)'
  BY <1>1, <1>2, <1>3 DEF Reached
<1>7. \A r \in Request : Over(r) => Over(r)'
  BY <1>1, <1>2, <1>3, <1>4 DEF Over
<1>8. Over([document |-> d, intent |-> i])'
  BY <1>1, <1>2, <1>3, <1>5 DEF Over
<1>9. \A r \in Request : Reached(r.document, r.intent.revision) =>
        \/ Over(r)'
        \/ r.document # d /\ entry'[r.document] = entry[r.document]
  BY <1>1, <1>2, <1>3, <1>4 DEF Reached, Over
<1>10. Reached(d, i.revision)'
  BY <1>1, <1>2, <1>3, <1>5 DEF Reached
<1>11. \A n \in Nat : n <= e.revision => Reached(d, n)'
  BY <1>2, <1>3 DEF Reached
<1> QED
  BY <1>6, <1>7, <1>8, <1>9, <1>10, <1>11 DEF e

-------------------------------------------------------------------------------
(* A newer call or the closed dialog makes the details on their way stale.  *)
LEMMA StaleCalls ==
  ASSUME NEW S \in SUBSET [document : Documents, fresh : BOOLEAN]
  PROVE  \A o \in Stale(S) : o \in [document : Documents, fresh : BOOLEAN] /\ ~o.fresh
<1>1. ASSUME NEW c \in S
      PROVE  /\ [c EXCEPT !.fresh = FALSE] \in [document : Documents, fresh : BOOLEAN]
             /\ ~[c EXCEPT !.fresh = FALSE].fresh
  <2>1. c \in [document : Documents, fresh : BOOLEAN]
    OBVIOUS
  <2>2. [c EXCEPT !.fresh = FALSE].fresh = FALSE
    BY <2>1
  <2>3. [c EXCEPT !.fresh = FALSE] \in [document : Documents, fresh : BOOLEAN]
    BY <2>1
  <2> QED
    BY <2>2, <2>3
<1> QED
  BY <1>1 DEF Stale

(* Steps of the list, and the end of a task without a verdict.              *)
LEMMA TaskEnds ==
  ASSUME IInv,
         UNCHANGED <<task, pending>> \/ \E d \in Documents : EndTask(d),
         UNCHANGED <<serverVars, detailVars, unknown, told, current>>,
         current \/ UNCHANGED rows
  PROVE  IInv'
<1> USE DEF serverVars, detailVars, EndTask
<1>1. \A x \in Documents : task'[x] = task[x] \/ task'[x].step = "idle"
  BY DEF IInv, Types, Idle
<1>2. Types'
  BY <1>1 DEF IInv, Types
<1>3. RevisionsReached'
  BY <1>1 DEF IInv, RevisionsReached, Reached
<1>4. TrailIsOver'
  BY DEF IInv, TrailIsOver, Over
<1>5. (current => \A x \in Documents : Found(x))'
  BY <1>1 DEF IInv, Found, Own
<1>6. VerdictsAreTrue'
  BY DEF IInv, VerdictsAreTrue
<1>7. NoSecondDecision'
  BY <1>1 DEF IInv, NoSecondDecision, Types, Request
<1>8. DialogHeld'
  BY <1>1 DEF IInv, DialogHeld, Types, Idle
<1>9. DetailIsTheOpened'
  BY DEF IInv, DetailIsTheOpened, DialogOpen
<1> QED
  BY <1>2, <1>3, <1>4, <1>5, <1>6, <1>7, <1>8, <1>9 DEF IInv

(* The change is known, from its answer or from a verification.             *)
LEMMA RefreshShowsIt ==
  ASSUME IInv, current, NEW d \in Documents, NEW deleted \in BOOLEAN, NEW e \in Row,
         task[d].step \notin {"idle", "refresh"},
         ~deleted => Present(e) /\ Reached(d, e.revision),
         Refresh(d, deleted, e), UNCHANGED <<serverVars, current>>,
         \/ UNCHANGED <<unknown, told>> /\ task[d].step = "done"
         \/ Unlock(d, TRUE) /\ Event(Own(d)) \in trail
  PROVE  IInv'
<1> USE DEF serverVars, Refresh
<1>1. /\ DOMAIN task' = Documents /\ task'[d].step = "refresh"
      /\ \A x \in Documents \ {d} : task'[x] = task[x]
  BY DEF IInv, Types
<1>2. selected' = NoDetail \/ (selected' = [document |-> d, entry |-> e] /\ ~deleted)
  <2>1. CASE deleted
    <3>1. CloseDetail
      BY <2>1
    <3> QED
      BY <3>1 DEF CloseDetail
  <2>2. CASE ~deleted
    BY <2>2
  <2> QED
    BY <2>1, <2>2
<1>3. /\ unknown' \in [Documents -> Intent \cup {NoIntent}]
      /\ unknown'[d] = unknown[d] \/ unknown'[d] = NoIntent
      /\ \A x \in Documents \ {d} : unknown'[x] = unknown[x]
  BY DEF IInv, Types, Unlock
<1>4. Types'
  <2>1. selected' \in [document : Documents, entry : Entry] \cup {NoDetail}
    BY <1>2 DEF Row, Present, AbsentEntry
  <2>2. opens' \subseteq [document : Documents, fresh : BOOLEAN]
    <3>1. opens' = Stale(opens) \/ opens' = opens
      BY DEF CloseDetail
    <3> QED
      BY <3>1, StaleCalls DEF IInv, Types
  <2>3. \A v \in told' : v.request \in Request
    BY DEF IInv, Types, Unlock, Event, Own
  <2> QED
    BY <1>1, <1>3, <2>1, <2>2, <2>3 DEF IInv, Types
<1>5. RevisionsReached'
  <2>1. \A x \in Documents : Reached(x, unknown'[x].revision)
    <3>1. \A x \in Documents : entry[x].revision \in Nat
      BY DEF IInv, Types, Row, Entry, AbsentEntry
    <3> QED
      BY <1>3, <3>1 DEF IInv, RevisionsReached, Reached, NoIntent
  <2>2. selected' # NoDetail => Reached(selected'.document, selected'.entry.revision)
    BY <1>2
  <2> QED
    BY <1>1, <2>1, <2>2 DEF IInv, RevisionsReached, Reached
<1>6. TrailIsOver'
  BY DEF IInv, TrailIsOver, Over, Unlock
<1>7. (current => \A x \in Documents : Found(x))'
  BY <1>1, <1>3 DEF IInv, Found, Own
<1>8. VerdictsAreTrue'
  BY DEF IInv, VerdictsAreTrue, Unlock, Event, Own
<1>9. NoSecondDecision'
  <2>1. CASE UNCHANGED unknown /\ task[d].step = "done"
    BY <1>1, <2>1 DEF IInv, NoSecondDecision, Types, Request
  <2>2. CASE Event(Own(d)) \in trail
    <3>1. Over(Own(d))
      BY <2>2 DEF IInv, TrailIsOver, Event
    <3>2. \A r \in adrift : r.document \in Documents /\ r.intent.revision \in Nat
      BY DocumentListAssumption DEF IInv, Types, Request, Intent
    <3>3. entry[d].revision \in Nat
      BY DEF IInv, Types, Row, Entry, AbsentEntry
    <3>4. \A r \in adrift : r.document = d =>
            ~(Present(entry[d]) /\ entry[d].revision = r.intent.revision)
      BY <3>1, <3>2, <3>3 DEF IInv, NoSecondDecision, Over, Own
    <3> QED
      BY <1>1, <1>3, <3>2, <3>4 DEF IInv, NoSecondDecision
  <2> QED
    BY <2>1, <2>2
<1>10. d \in pending /\ selected.document = d /\ selected # NoDetail /\ ~detailLoading
  BY DocumentListAssumption DEF IInv, DialogHeld, NoDetail
<1>11. \A o \in Stale(opens) : ~o.fresh
  BY StaleCalls DEF IInv, Types
<1>12. DialogHeld' /\ DetailIsTheOpened'
  <2>1. opened = d
    BY <1>10 DEF IInv, DetailIsTheOpened
  <2>2. \A x \in Documents \ {d} :
          task[x].step \notin {"idle", "refresh"} => x \in pending /\ selected.document = x
    BY DEF IInv, DialogHeld
  <2>3. \A x \in Documents : task[x].step \in {"idle", "refresh"} \/ x = d
    BY <1>10, <2>2
  <2>4. CASE deleted
    <3>1. CloseDetail /\ opened' = NoDocument /\ UNCHANGED pending
      BY <2>1, <2>4
    <3> QED
      BY <1>1, <1>11, <2>3, <3>1 DEF CloseDetail, DialogHeld, DetailIsTheOpened, DialogOpen
  <2>5. CASE ~deleted
    <3>1. UNCHANGED <<opens, detailLoading, detailError, opened, pending>>
          /\ selected' = [document |-> d, entry |-> e]
      BY <2>5
    <3>2. selected' # NoDetail
      BY <3>1, DocumentListAssumption DEF NoDetail
    <3> QED
      BY <1>1, <1>10, <2>1, <2>3, <3>1, <3>2
         DEF IInv, DialogHeld, DetailIsTheOpened, DialogOpen
  <2> QED
    BY <2>4, <2>5
<1> QED
  BY <1>4, <1>5, <1>6, <1>7, <1>8, <1>9, <1>12 DEF IInv

LEMMA ListSteps ==
  ASSUME IInv, Query \/ \E q \in queries : QueryStep(q)
  PROVE  IInv'
<1>1. CASE Query
  BY <1>1, TaskEnds DEF Query, SendQuery, lockVars, historyVars
<1>2. CASE \E q \in queries : ServeQuery(q)
  BY <1>2, TaskEnds DEF ServeQuery, lockVars, historyVars
<1>3. ASSUME NEW q \in queries, AnswerQuery(q) \/ FailQuery(q)
      PROVE  IInv'
  <2>1. UNCHANGED <<task, pending>> \/ \E d \in Documents : EndTask(d)
    BY <1>3 DEF AnswerQuery, FailQuery, EndAwaiting
  <2> QED
    BY <1>3, <2>1, TaskEnds DEF AnswerQuery, FailQuery, historyVars
<1> QED
  BY <1>1, <1>2, <1>3 DEF QueryStep

(* Steps of the detail dialog.                                              *)
LEMMA DetailSteps ==
  ASSUME IInv, UNCHANGED <<serverVars, lockVars, told, current, rows>>,
         Types', DialogHeld', DetailIsTheOpened',
         selected' # NoDetail => Reached(selected'.document, selected'.entry.revision)
  PROVE  IInv'
<1> USE DEF serverVars, lockVars
<1>1. RevisionsReached'
  BY DEF IInv, RevisionsReached, Reached
<1>2. TrailIsOver'
  BY DEF IInv, TrailIsOver, Over
<1>3. (current => \A x \in Documents : Found(x))'
  BY DEF IInv, Found, Own
<1>4. VerdictsAreTrue' /\ NoSecondDecision'
  BY DEF IInv, VerdictsAreTrue, NoSecondDecision
<1> QED
  BY <1>1, <1>2, <1>3, <1>4 DEF IInv

LEMMA OpenStepHolds ==
  ASSUME IInv, NEW d \in Documents, Open(d)
  PROVE  IInv'
<1> USE DEF Open, serverVars, listVars, lockVars, historyVars
<1>1. opens' \subseteq [document : Documents, fresh : BOOLEAN]
      /\ \A o \in opens' : o.fresh => o = [document |-> d, fresh |-> TRUE]
  <2>1. opens \in SUBSET [document : Documents, fresh : BOOLEAN]
    BY DEF IInv, Types
  <2>2. \A o \in Stale(opens) : o \in [document : Documents, fresh : BOOLEAN] /\ ~o.fresh
    BY <2>1, StaleCalls
  <2>3. opens' = Stale(opens) \cup {[document |-> d, fresh |-> TRUE]}
    OBVIOUS
  <2>4. [document |-> d, fresh |-> TRUE] \in [document : Documents, fresh : BOOLEAN]
    OBVIOUS
  <2> HIDE DEF Open
  <2> QED
    BY <2>2, <2>3, <2>4
<1>2. Types'
  BY <1>1 DEF IInv, Types
<1>3. selected = NoDetail
  BY DEF DialogOpen
<1>4. DialogHeld'
  <2>1. \A x \in Documents : task[x].step \in {"idle", "refresh"}
    BY <1>3, DocumentListAssumption DEF IInv, DialogHeld, NoDetail
  <2> QED
    BY <1>1, <1>3, <2>1 DEF DialogHeld
<1>5. DetailIsTheOpened'
  BY <1>3 DEF DetailIsTheOpened, DialogOpen
<1> QED
  BY <1>2, <1>3, <1>4, <1>5, DetailSteps

LEMMA AnswerOpenHolds ==
  ASSUME IInv, NEW o \in opens, OpenStep(o)
  PROVE  IInv'
<1> USE DEF serverVars, listVars, lockVars, historyVars
<1>1. o.document \in Documents /\ opens' = opens \ {o}
      /\ UNCHANGED <<serverVars, listVars, opened, lockVars, historyVars, current>>
  BY DEF IInv, Types, OpenStep, AnswerOpen, FailOpen
<1>2. CASE UNCHANGED <<selected, detailLoading, detailError>>
           /\ ~(current /\ o.fresh)
  <2>1. Types' /\ DialogHeld' /\ DetailIsTheOpened'
    BY <1>1, <1>2 DEF IInv, Types, DialogHeld, DetailIsTheOpened, DialogOpen
  <2> QED
    BY <1>1, <1>2, <2>1, DetailSteps DEF IInv, RevisionsReached
<1>3. CASE /\ current /\ o.fresh /\ detailLoading' = FALSE
           /\ \/ /\ selected' = [document |-> o.document, entry |-> entry[o.document]]
                 /\ Present(entry[o.document])
              \/ selected' = selected /\ detailError' = TRUE
  <2>1. o.document = opened /\ selected = NoDetail
        /\ \A p \in opens' : ~p.fresh
    BY <1>1, <1>3 DEF IInv, DialogHeld
  <2>2. \A x \in Documents : task[x].step \in {"idle", "refresh"}
    BY <1>3, <2>1, DocumentListAssumption DEF IInv, DialogHeld, NoDetail
  <2>3. selected' \in [document : Documents, entry : Entry] \cup {NoDetail}
    BY <1>1, <1>3, <2>1 DEF IInv, Types, Row, Present, AbsentEntry
  <2>4. Types'
    BY <1>1, <2>3 DEF IInv, Types
  <2>5. DialogHeld'
    BY <1>1, <1>3, <2>1, <2>2 DEF DialogHeld
  <2>6. DetailIsTheOpened'
    <3>1. selected' # NoDetail \/ detailError'
      BY <1>1, <1>3, DocumentListAssumption DEF NoDetail
    <3> QED
      BY <1>1, <1>3, <2>1, <3>1 DEF DetailIsTheOpened, DialogOpen
  <2>7. selected' # NoDetail => Reached(selected'.document, selected'.entry.revision)
    <3>1. entry[o.document].revision \in Nat
      BY <1>1 DEF IInv, Types, Row, Entry, AbsentEntry
    <3> QED
      BY <1>3, <2>1, <3>1 DEF Reached
  <2> QED
    BY <1>1, <2>4, <2>5, <2>6, <2>7, DetailSteps
<1> QED
  BY <1>2, <1>3 DEF OpenStep, AnswerOpen, FailOpen, Show

LEMMA CloseHolds ==
  ASSUME IInv, Close
  PROVE  IInv'
<1> USE DEF Close, CloseDetail, serverVars, listVars, lockVars, historyVars
<1>1. opens' \subseteq [document : Documents, fresh : BOOLEAN]
      /\ \A o \in opens' : ~o.fresh
  BY StaleCalls DEF IInv, Types
<1>2. Types'
  BY <1>1 DEF IInv, Types
<1>3. DialogHeld' /\ DetailIsTheOpened'
  BY <1>1 DEF IInv, DialogHeld, DetailIsTheOpened, DialogOpen
<1> QED
  BY <1>2, <1>3, DetailSteps

-------------------------------------------------------------------------------
(* Steps of the server.                                                     *)
LEMMA PerformHolds ==
  ASSUME IInv, NEW d \in Documents, NEW i \in Intent, NEW u \in Users,
         Perform(d, i, u), adrift' \subseteq adrift,
         UNCHANGED <<rows, detailVars, pending, unknown, told, current>>,
         \/ UNCHANGED carried
         \/ carried' = carried \cup {[document |-> d, intent |-> i]} /\ u = Me,
         \/ UNCHANGED task
         \/ /\ task[d].step = "sent"
            /\ task' = [task EXCEPT ![d] = [step |-> "done", intent |-> i,
                                            result |-> After(entry[d], i, u)]]
  PROVE  IInv'
<1> USE DEF detailVars
<1> DEFINE r0 == [document |-> d, intent |-> i]
<1>1. entry \in [Documents -> Row] /\ entry' \in [Documents -> Row]
  BY PerformMovesOn DEF IInv, Types
<1>2. /\ \A x \in Documents, n \in Nat : Reached(x, n) => Reached(x, n)'
      /\ \A r \in Request : Over(r) => Over(r)'
      /\ Over(r0)'
      /\ \A r \in Request : Reached(r.document, r.intent.revision) =>
           \/ Over(r)'
           \/ r.document # d /\ entry'[r.document] = entry[r.document]
  BY <1>1, PerformOvertakes
<1>3. trail' = trail \cup {[request |-> r0, actor |-> u]} /\ r0 \in Request
  BY DEF Perform, Request
<1> DEFINE done == [step |-> "done", intent |-> i, result |-> After(entry[d], i, u)]
<1>4. /\ DOMAIN task' = Documents
      /\ \A x \in Documents : task'[x] = task[x] \/
           (x = d /\ task'[x] = done /\ task[x].step = "sent")
  BY DEF IInv, Types
<1>5. /\ After(entry[d], i, u) \in Row
      /\ i.action # "delete" => Present(After(entry[d], i, u))
  BY <1>1, PerformMovesOn DEF IInv, Types
<1>6. Types'
  <2>1. \A x \in Documents :
          /\ task'[x].step \in {"sent", "done", "refused"} => task'[x].intent \in Intent
          /\ task'[x].step = "done" => task'[x].result \in Row
          /\ task'[x].step = "done" /\ task'[x].intent.action # "delete" =>
               Present(task'[x].result)
          /\ task'[x].step \in {"audit", "decide"} => task'[x].seen \in Row
    BY <1>4, <1>5 DEF IInv, Types
  <2> QED
    BY <1>1, <1>3, <1>4, <2>1 DEF IInv, Types
<1>7. RevisionsReached'
  <2>1. (\A r \in adrift : Reached(r.document, r.intent.revision))'
    BY <1>2, DocumentListAssumption DEF IInv, Types, RevisionsReached, Request, Intent
  <2>2. (selected # NoDetail => Reached(selected.document, selected.entry.revision))'
    BY <1>2 DEF IInv, Types, RevisionsReached, Entry
  <2>3. ASSUME NEW x \in Documents
        PROVE  (/\ Reached(x, unknown[x].revision)
                /\ task[x].step \in {"sent", "done", "refused"} =>
                     Reached(x, task[x].intent.revision)
                /\ task[x].step = "done" /\ Present(task[x].result) =>
                     Reached(x, task[x].result.revision)
                /\ task[x].step \in {"audit", "decide"} /\ Present(task[x].seen) =>
                     Reached(x, task[x].seen.revision))'
    <3>1. unknown[x].revision \in Nat
      BY DocumentListAssumption DEF IInv, Types, Intent, NoIntent
    <3>2. task[x].step \in {"sent", "done", "refused"} => task[x].intent.revision \in Nat
      BY DocumentListAssumption DEF IInv, Types, Intent
    <3>3. /\ task[x].step = "done" => task[x].result.revision \in Nat
          /\ task[x].step \in {"audit", "decide"} => task[x].seen.revision \in Nat
      BY DEF IInv, Types, Row, Entry, AbsentEntry
    <3>4. \A n \in Nat : Reached(x, n) => Reached(x, n)'
      BY <1>2
    <3>5. Reached(x, unknown[x].revision)'
      BY <3>1, <3>4 DEF IInv, RevisionsReached, Reached
    <3>6. CASE task'[x] = task[x]
      BY <3>2, <3>3, <3>4, <3>5, <3>6 DEF IInv, RevisionsReached, Reached
    <3>7. CASE x = d /\ task'[x] = done /\ task[x].step = "sent"
      <4>1. Reached(d, i.revision)' /\ \A n \in Nat : n <= After(entry[d], i, u).revision => Reached(d, n)'
        BY <1>1, PerformOvertakes
      <4>2. After(entry[d], i, u).revision \in Nat
        BY <1>5 DEF Row, Entry, AbsentEntry
      <4> QED
        BY <3>5, <3>7, <4>1, <4>2 DEF Reached
    <3> QED
      BY <1>4, <3>6, <3>7
  <2> QED
    BY <2>1, <2>2, <2>3 DEF RevisionsReached
<1>8. TrailIsOver'
  <2>1. \A r \in carried' : Event(r) \in trail'
    BY <1>3 DEF IInv, TrailIsOver, Event
  <2>2. \A event \in trail' : Over(event.request)'
    BY <1>2, <1>3 DEF IInv, Types, TrailIsOver
  <2>3. \A v \in told' : ~v.written => Over(v.request)'
    BY <1>2 DEF IInv, Types, TrailIsOver
  <2> QED
    BY <2>1, <2>2, <2>3 DEF TrailIsOver
<1>9. ~Over(r0)
  <2>1. Present(entry[d]) /\ i.revision = entry[d].revision /\ i.revision \in Nat
    BY <1>1, PerformMovesOn, DocumentListAssumption DEF Intent
  <2> QED
    BY <2>1 DEF Over
<1>10. (current => \A x \in Documents : Found(x))'
  <2>1. SUFFICES ASSUME current, NEW x \in Documents
                 PROVE  Found(x)'
    OBVIOUS
  <2>2. Found(x)
    BY <2>1 DEF IInv
  <2>3. CASE task'[x] = done
    BY <2>3 DEF Found
  <2>4. CASE task'[x] = task[x]
    <3>1. ASSUME task[x].step = "decide", ~task[x].written, Present(task[x].seen),
                 task[x].seen.revision # unknown[x].revision
          PROVE  Own(x) # r0
      <4>1. unknown[x].revision <= task[x].seen.revision
            /\ Reached(x, task[x].seen.revision)
        BY <2>2, <3>1 DEF Found, IInv, RevisionsReached
      <4>2. /\ unknown[x].revision \in Nat /\ task[x].seen.revision \in Nat
            /\ entry[x].revision \in Nat
        BY <1>1, <3>1, DocumentListAssumption DEF IInv, Types, Intent, NoIntent, Row, Entry, AbsentEntry
      <4>3. Over(Own(x))
        BY <3>1, <4>1, <4>2 DEF Over, Own, Reached
      <4> QED
        BY <1>9, <4>3
    <3> QED
      BY <1>3, <2>2, <2>4, <3>1 DEF Found, Own, Event
  <2> QED
    BY <1>4, <2>3, <2>4
<1>11. VerdictsAreTrue'
  BY <1>3, <1>9 DEF IInv, VerdictsAreTrue, TrailIsOver
<1>12. NoSecondDecision'
  <2>1. SUFFICES ASSUME current, NEW r \in adrift,
                        Present(entry'[r.document]),
                        entry'[r.document].revision = r.intent.revision
                 PROVE  unknown[r.document] = r.intent
                        /\ task'[r.document].step \notin {"sent", "done", "refused"}
    BY DEF NoSecondDecision
  <2>2. r \in Request /\ r.document \in Documents /\ r.intent.revision \in Nat
        /\ Reached(r.document, r.intent.revision)
    BY DocumentListAssumption DEF IInv, Types, Request, Intent, RevisionsReached
  <2>3. ~Over(r)'
    BY <2>1, <2>2 DEF Over
  <2>4. r.document # d /\ entry'[r.document] = entry[r.document]
    BY <1>2, <2>2, <2>3
  <2> QED
    BY <1>4, <2>1, <2>2, <2>4 DEF IInv, NoSecondDecision
<1>13. DialogHeld' /\ DetailIsTheOpened'
  BY <1>4 DEF IInv, DialogHeld, DetailIsTheOpened, DialogOpen
<1> QED
  BY <1>6, <1>7, <1>8, <1>10, <1>11, <1>12, <1>13 DEF IInv

LEMMA ServerSteps ==
  ASSUME IInv,
         \/ \E d \in Documents, i \in Intent, u \in Users : DecideElsewhere(d, i, u)
         \/ \E r \in adrift : ArriveLate(r)
         \/ \E d \in Documents : ServeDecision(d)
  PROVE  IInv'
<1> USE DEF listVars, lockVars, historyVars
<1>1. ASSUME NEW d \in Documents, NEW i \in Intent, NEW u \in Users,
             DecideElsewhere(d, i, u)
      PROVE  IInv'
  BY <1>1, PerformHolds DEF DecideElsewhere
<1>2. ASSUME NEW r \in adrift, ArriveLate(r)
      PROVE  IInv'
  <2>1. /\ r.document \in Documents /\ r.intent \in Intent
        /\ r = [document |-> r.document, intent |-> r.intent]
    BY DEF IInv, Types, Request
  <2>2. CASE Perform(r.document, r.intent, Me) /\ carried' = carried \cup {r}
    BY <1>2, <2>1, <2>2, PerformHolds, DocumentListAssumption DEF ArriveLate
  <2>3. CASE UNCHANGED <<entry, trail, carried>>
    <3>1. /\ adrift' \subseteq adrift
          /\ UNCHANGED <<entry, trail, carried, rows, detailVars, lockVars, told, current>>
      BY <1>2, <2>3 DEF ArriveLate
    <3>2. Types' /\ RevisionsReached'
      BY <3>1 DEF detailVars, IInv, Types, RevisionsReached, Reached
    <3>3. TrailIsOver' /\ VerdictsAreTrue' /\ NoSecondDecision'
      BY <3>1 DEF IInv, TrailIsOver, Over, VerdictsAreTrue, NoSecondDecision
    <3>4. (current => \A x \in Documents : Found(x))'
      BY <3>1 DEF IInv, Found, Own
    <3>5. DialogHeld' /\ DetailIsTheOpened'
      BY <3>1 DEF detailVars, IInv, DialogHeld, DetailIsTheOpened, DialogOpen
    <3> QED
      BY <3>2, <3>3, <3>4, <3>5 DEF IInv
  <2> QED
    BY <1>2, <2>2, <2>3 DEF ArriveLate
<1>3. ASSUME NEW d \in Documents, ServeDecision(d)
      PROVE  IInv'
  <2>1. task[d].intent \in Intent /\ task[d].step = "sent"
    BY <1>3 DEF IInv, Types, ServeDecision
  <2>2. CASE Perform(d, task[d].intent, Me)
             /\ carried' = carried \cup {[document |-> d, intent |-> task[d].intent]}
             /\ task' = [task EXCEPT ![d] =
                            [step |-> "done", intent |-> task[d].intent,
                             result |-> After(entry[d], task[d].intent, Me)]]
    BY <1>3, <2>1, <2>2, PerformHolds, DocumentListAssumption DEF ServeDecision
  <2>3. CASE task' = [task EXCEPT ![d] = [step |-> "refused", intent |-> task[d].intent]]
             /\ UNCHANGED <<entry, trail, carried>>
    <3>1. UNCHANGED <<entry, trail, carried, adrift, rows, detailVars, pending,
                      unknown, told, current>>
      BY <1>3, <2>3 DEF ServeDecision
    <3>2. DOMAIN task' = Documents
          /\ \A x \in Documents : task'[x] = task[x] \/
               (x = d /\ task'[x] = [step |-> "refused", intent |-> task[d].intent])
      BY <2>3 DEF IInv, Types
    <3>3. Types'
      BY <2>1, <3>1, <3>2 DEF detailVars, IInv, Types
    <3>4. RevisionsReached'
      BY <2>1, <3>1, <3>2 DEF detailVars, IInv, RevisionsReached, Reached
    <3>5. TrailIsOver' /\ VerdictsAreTrue'
      BY <3>1 DEF IInv, TrailIsOver, Over, VerdictsAreTrue
    <3>6. NoSecondDecision'
      BY <2>1, <3>1, <3>2 DEF IInv, Types, Request, NoSecondDecision
    <3>7. (current => \A x \in Documents : Found(x))'
      BY <3>1, <3>2 DEF IInv, Found, Own
    <3>8. DialogHeld' /\ DetailIsTheOpened'
      BY <2>1, <3>1, <3>2 DEF detailVars, IInv, DialogHeld, DetailIsTheOpened, DialogOpen
    <3> QED
      BY <3>3, <3>4, <3>5, <3>6, <3>7, <3>8 DEF IInv
  <2> QED
    BY <1>3, <2>2, <2>3 DEF ServeDecision
<1> QED
  BY <1>1, <1>2, <1>3

-------------------------------------------------------------------------------
(* Steps of the decisions and verifications of a document.                  *)
LEMMA TaskMoves ==
  ASSUME IInv, NEW d \in Documents, NEW t, task' = [task EXCEPT ![d] = t],
         UNCHANGED <<serverVars, rows, detailVars, unknown, told, current>>,
         t.step \in {"sent", "get", "audit", "decide", "latest"},
         UNCHANGED pending \/ (current /\ pending' = pending \cup {d}),
         current => d \in pending' /\ selected.document = d /\ Found(d)',
         t.step = "sent" => /\ t.intent \in Intent
                            /\ Reached(d, t.intent.revision)
                            /\ unknown[d] = NoIntent,
         t.step \in {"audit", "decide"} =>
           t.seen \in Row /\ (Present(t.seen) => Reached(d, t.seen.revision))
  PROVE  IInv'
<1> USE DEF serverVars, detailVars
<1>1. /\ DOMAIN task' = Documents /\ task'[d] = t
      /\ \A x \in Documents \ {d} : task'[x] = task[x]
  BY DEF IInv, Types
<1>2. Types'
  BY <1>1 DEF IInv, Types
<1>3. RevisionsReached'
  BY <1>1 DEF IInv, RevisionsReached, Reached
<1>4. TrailIsOver' /\ VerdictsAreTrue'
  BY DEF IInv, TrailIsOver, Over, VerdictsAreTrue
<1>5. (current => \A x \in Documents : Found(x))'
  BY <1>1 DEF IInv, Found, Own
<1>6. NoSecondDecision'
  <2>1. \A r \in adrift : r.document \in Documents /\ r.intent # NoIntent
    BY DocumentListAssumption DEF IInv, Types, Request, Intent, NoIntent
  <2> QED
    BY <1>1, <2>1 DEF IInv, NoSecondDecision
<1>7. DialogHeld' /\ DetailIsTheOpened'
  BY <1>1 DEF IInv, DialogHeld, DetailIsTheOpened, DialogOpen
<1> QED
  BY <1>2, <1>3, <1>4, <1>5, <1>6, <1>7 DEF IInv

LEMMA DecideHolds ==
  ASSUME IInv, NEW i \in Intent, Decide(i)
  PROVE  IInv'
<1>1. PICK d \in Documents : selected # NoDetail /\ selected.document = d
  BY DEF Decide, CanDecide, Offered, IInv, Types
<1> DEFINE t == [step |-> "sent", intent |-> i]
<1>2. Reached(d, i.revision) /\ unknown[d] = NoIntent
  BY <1>1 DEF Decide, CanDecide, Offered, IInv, RevisionsReached
<1>3. /\ task' = [task EXCEPT ![d] = t] /\ pending' = pending \cup {d} /\ current
      /\ UNCHANGED <<serverVars, rows, detailVars, unknown, told, current>>
  BY <1>1 DEF Decide, listVars, historyVars
<1>4. Found(d)'
  BY <1>1, <1>3 DEF Found, IInv, Types
<1> QED
  BY <1>1, <1>2, <1>3, <1>4, TaskMoves

LEMMA VerifyHolds ==
  ASSUME IInv, NEW d \in Documents, Verify(d)
  PROVE  IInv'
<1>1. Found(d)'
  BY DEF Verify, Found, IInv, Types
<1> QED
  BY <1>1, TaskMoves DEF Verify, listVars, historyVars

LEMMA VerifyGetHolds ==
  ASSUME IInv, NEW d \in Documents, VerifyGet(d)
  PROVE  IInv'
<1>1. UNCHANGED <<serverVars, rows, detailVars, unknown, told, current>>
  BY DEF VerifyGet, listVars, historyVars
<1>2. CASE EndTask(d)
  BY <1>1, <1>2, TaskEnds
<1>3. CASE task' = [task EXCEPT ![d] = [step |-> "audit", seen |-> entry[d]]]
           /\ UNCHANGED pending
  <2>1. entry[d] \in Row /\ entry[d].revision \in Nat /\ Reached(d, entry[d].revision)
    BY DEF IInv, Types, Row, Entry, AbsentEntry, Reached
  <2>2. current => d \in pending' /\ selected.document = d
    BY <1>3 DEF VerifyGet, IInv, DialogHeld
  <2>3. current => Found(d)'
    <3>1. current => unknown[d] # NoIntent /\ Reached(d, unknown[d].revision)
      BY DEF VerifyGet, IInv, Found, RevisionsReached
    <3> QED
      BY <1>1, <1>3, <3>1 DEF Found, Reached, IInv, Types
  <2> QED
    BY <1>1, <1>3, <2>1, <2>2, <2>3, TaskMoves
<1> QED
  BY <1>2, <1>3 DEF VerifyGet

LEMMA VerifyAuditHolds ==
  ASSUME IInv, NEW d \in Documents, VerifyAudit(d)
  PROVE  IInv'
<1> DEFINE written == Event(Own(d)) \in trail
<1>1. UNCHANGED <<serverVars, rows, detailVars, unknown, told, current, pending>>
  BY DEF VerifyAudit, listVars, historyVars
<1>2. task' = [task EXCEPT ![d] = [step |-> "decide", seen |-> task[d].seen,
                                   written |-> written]]
  BY DEF VerifyAudit, Event, Own
<1>3. /\ task[d].seen \in Row
      /\ Present(task[d].seen) => Reached(d, task[d].seen.revision)
      /\ current => d \in pending /\ selected.document = d
  BY DEF VerifyAudit, IInv, Types, RevisionsReached, DialogHeld
<1>4. current => Found(d)'
  <2>1. Event(Own(d))' = Event(Own(d)) /\ trail' = trail
    BY <1>1 DEF Event, Own, serverVars
  <2>2. task'[d] = [step |-> "decide", seen |-> task[d].seen, written |-> written]
    BY <1>2 DEF IInv, Types
  <2>3. current => /\ unknown[d] # NoIntent
                   /\ Present(task[d].seen) => unknown[d].revision <= task[d].seen.revision
    BY DEF VerifyAudit, IInv, Found
  <2> HIDE DEF written
  <2>4. /\ task'[d].step = "decide" /\ task'[d].seen = task[d].seen
        /\ task'[d].written = written
    BY <2>2
  <2>5. task'[d].written <=> Event(Own(d))' \in trail'
    BY <2>1, <2>4, Zenon DEF written
  <2>6. unknown' = unknown
    BY <1>1
  <2> QED
    BY <2>3, <2>4, <2>5, <2>6 DEF Found
<1> QED
  BY <1>1, <1>2, <1>3, <1>4, TaskMoves

LEMMA VerifyFailHolds ==
  ASSUME IInv, NEW d \in Documents, VerifyFail(d)
  PROVE  IInv'
BY TaskEnds DEF VerifyFail, listVars, historyVars

LEMMA VerifyLatestHolds ==
  ASSUME IInv, NEW d \in Documents, VerifyLatest(d)
  PROVE  IInv'
<1>1. CASE current /\ Present(entry[d]) /\ Unlock(d, TRUE) /\ Refresh(d, FALSE, entry[d])
  <2>1. entry[d] \in Row /\ Reached(d, entry[d].revision)
    BY DEF IInv, Types, Row, Entry, AbsentEntry, Reached
  <2>2. Event(Own(d)) \in trail /\ task[d].step = "latest"
    BY <1>1 DEF VerifyLatest, IInv, Found
  <2> QED
    BY <1>1, <2>1, <2>2, RefreshShowsIt DEF VerifyLatest
<1>2. CASE EndTask(d) /\ UNCHANGED <<listVars, detailVars, unknown, historyVars>>
  BY <1>2, TaskEnds DEF VerifyLatest, listVars, historyVars
<1> QED
  BY <1>1, <1>2 DEF VerifyLatest

LEMMA AnswerDecisionHolds ==
  ASSUME IInv, NEW d \in Documents, AnswerDecision(d)
  PROVE  IInv'
<1> DEFINE deleted == task[d].intent.action = "delete"
<1>1. CASE current /\ task[d].step = "done" /\ Refresh(d, deleted, task[d].result)
  <2>1. /\ task[d].result \in Row /\ deleted \in BOOLEAN
        /\ ~deleted => Present(task[d].result) /\ Reached(d, task[d].result.revision)
    BY <1>1 DEF IInv, Types, RevisionsReached
  <2> HIDE DEF deleted
  <2> QED
    BY <1>1, <2>1, RefreshShowsIt DEF AnswerDecision
<1>2. CASE EndTask(d) /\ UNCHANGED <<listVars, detailVars, confirmed>>
  BY <1>2, TaskEnds DEF AnswerDecision, listVars
<1> QED
  BY <1>1, <1>2 DEF AnswerDecision

LEMMA LoseDecisionHolds ==
  ASSUME IInv, NEW d \in Documents, LoseDecision(d)
  PROVE  IInv'
<1> DEFINE r == [document |-> d, intent |-> task[d].intent]
<1>1. /\ UNCHANGED <<entry, trail, carried, rows, detailVars, told, current>>
      /\ adrift' \subseteq adrift \cup {r}
      /\ unknown' = IF current THEN [unknown EXCEPT ![d] = task[d].intent] ELSE unknown
      /\ task[d].step \in {"sent", "done", "refused"}
  BY DEF LoseDecision, listVars, historyVars
<1>2. task[d].intent \in Intent /\ r \in Request /\ Reached(d, task[d].intent.revision)
  BY <1>1 DEF IInv, Types, Request, RevisionsReached
<1>3. /\ DOMAIN task' = Documents /\ task'[d].step = "idle"
      /\ \A x \in Documents \ {d} : task'[x] = task[x]
  BY DEF LoseDecision, EndTask, Idle, IInv, Types
<1>4. /\ unknown' \in [Documents -> Intent \cup {NoIntent}]
      /\ \A x \in Documents \ {d} : unknown'[x] = unknown[x]
      /\ unknown'[d] = unknown[d] \/ unknown'[d] = task[d].intent
      /\ current => unknown'[d] = task[d].intent
  BY <1>1, <1>2 DEF IInv, Types
<1>5. pending' = pending \/ (current /\ pending' = pending \ {d})
  BY DEF LoseDecision, EndTask
<1>6. Types'
  BY <1>1, <1>2, <1>3, <1>4 DEF detailVars, IInv, Types
<1>7. RevisionsReached'
  BY <1>1, <1>2, <1>3, <1>4 DEF detailVars, IInv, RevisionsReached, Reached
<1>8. TrailIsOver' /\ VerdictsAreTrue'
  BY <1>1 DEF IInv, TrailIsOver, Over, VerdictsAreTrue
<1>9. (current => \A x \in Documents : Found(x))'
  BY <1>1, <1>3, <1>4 DEF IInv, Found, Own
<1>10. NoSecondDecision'
  <2>1. SUFFICES ASSUME current, NEW q \in adrift',
                        Present(entry[q.document]),
                        entry[q.document].revision = q.intent.revision
                 PROVE  unknown'[q.document] = q.intent
                        /\ task'[q.document].step \notin {"sent", "done", "refused"}
    BY <1>1 DEF NoSecondDecision
  <2>2. q.document \in Documents
    BY <1>6 DEF Types, Request
  <2>3. CASE q = r
    BY <1>3, <1>4, <2>1, <2>3
  <2>4. CASE q \in adrift
    <3>1. q.document # d
      BY <1>1, <2>1, <2>4 DEF IInv, NoSecondDecision
    <3> QED
      BY <1>3, <1>4, <2>1, <2>2, <2>4, <3>1 DEF IInv, NoSecondDecision
  <2> QED
    BY <1>1, <2>3, <2>4
<1>11. DialogHeld' /\ DetailIsTheOpened'
  BY <1>1, <1>3, <1>5 DEF detailVars, IInv, DialogHeld, DetailIsTheOpened, DialogOpen
<1> QED
  BY <1>6, <1>7, <1>8, <1>9, <1>10, <1>11 DEF IInv

LEMMA LeaveHolds ==
  ASSUME IInv, Leave
  PROVE  IInv'
<1> USE DEF Leave, serverVars, CloseDetail, historyVars
<1>1. opens' \subseteq [document : Documents, fresh : BOOLEAN]
      /\ \A o \in opens' : ~o.fresh
  BY StaleCalls DEF IInv, Types
<1>2. Types'
  BY <1>1 DEF IInv, Types
<1>3. RevisionsReached'
  <2>1. \A x \in Documents : entry[x].revision \in Nat
    BY DEF IInv, Types, Row, Entry, AbsentEntry
  <2> QED
    BY <2>1 DEF IInv, RevisionsReached, Reached, NoIntent
<1>4. TrailIsOver' /\ VerdictsAreTrue' /\ NoSecondDecision'
  BY DEF IInv, TrailIsOver, Over, VerdictsAreTrue, NoSecondDecision
<1>5. DialogHeld' /\ DetailIsTheOpened'
  BY <1>1 DEF DialogHeld, DetailIsTheOpened, DialogOpen
<1> QED
  BY <1>2, <1>3, <1>4, <1>5 DEF IInv

(* "Not written": the revision has moved on, and the event is not there.    *)
LEMMA RefutedHolds ==
  ASSUME IInv, current, NEW d \in Documents, task[d].step = "decide",
         ~task[d].written, Present(task[d].seen),
         task[d].seen.revision # unknown[d].revision,
         Unlock(d, FALSE), EndTask(d),
         selected' = [document |-> d, entry |-> task[d].seen],
         UNCHANGED <<serverVars, listVars, opens, detailLoading, detailError,
                     opened, confirmed, current>>
  PROVE  IInv'
<1> USE DEF serverVars, listVars
<1>1. /\ Found(d) /\ d \in pending /\ selected.document = d
      /\ task[d].seen \in Row /\ Reached(d, task[d].seen.revision)
  BY DEF IInv, DialogHeld, Types, RevisionsReached
<1>2. /\ unknown[d] \in Intent /\ Own(d) \in Request
      /\ unknown[d].revision \in Nat
      /\ task[d].seen.revision \in Nat /\ entry[d].revision \in Nat
  BY <1>1, DocumentListAssumption
     DEF Found, IInv, Types, Own, Request, Intent, Row, Entry, AbsentEntry
<1>3. Over(Own(d)) /\ Own(d) \notin carried
  <2>1. unknown[d].revision < task[d].seen.revision
    BY <1>1, <1>2 DEF Found
  <2>2. Over(Own(d))
    BY <1>1, <1>2, <2>1 DEF Over, Own, Reached
  <2>3. Event(Own(d)) \notin trail
    BY <1>1 DEF Found
  <2> QED
    BY <2>2, <2>3 DEF IInv, TrailIsOver
<1>4. /\ DOMAIN task' = Documents /\ task'[d].step = "idle"
      /\ \A x \in Documents \ {d} : task'[x] = task[x]
  BY DEF EndTask, Idle, IInv, Types
<1>5. /\ unknown' \in [Documents -> Intent \cup {NoIntent}]
      /\ unknown'[d] = NoIntent
      /\ \A x \in Documents \ {d} : unknown'[x] = unknown[x]
      /\ told' = told \cup {[request |-> Own(d), written |-> FALSE]}
  BY DEF Unlock, Own, IInv, Types
<1>6. Types'
  <2>1. selected' \in [document : Documents, entry : Entry] \cup {NoDetail}
    BY <1>1 DEF Row, Present, AbsentEntry
  <2>2. \A v \in told' : v.request \in Request
    BY <1>2, <1>5 DEF IInv, Types
  <2> QED
    BY <1>4, <1>5, <2>1, <2>2 DEF IInv, Types
<1>7. RevisionsReached'
  BY <1>1, <1>2, <1>4, <1>5 DEF IInv, RevisionsReached, Reached, NoIntent
<1>8. TrailIsOver'
  BY <1>3, <1>5 DEF IInv, TrailIsOver, Over
<1>9. VerdictsAreTrue'
  BY <1>3, <1>5 DEF IInv, VerdictsAreTrue
<1>10. (current => \A x \in Documents : Found(x))'
  BY <1>4, <1>5 DEF IInv, Found, Own
<1>11. NoSecondDecision'
  <2>1. SUFFICES ASSUME NEW r \in adrift,
                        Present(entry[r.document]),
                        entry[r.document].revision = r.intent.revision
                 PROVE  unknown'[r.document] = r.intent
                        /\ task'[r.document].step \notin {"sent", "done", "refused"}
    BY DEF NoSecondDecision
  <2>2. r.document \in Documents
    BY DEF IInv, Types, Request
  <2>3. r.document # d
    BY <1>2, <1>3, <2>1 DEF IInv, NoSecondDecision, Over, Own
  <2> QED
    BY <1>4, <1>5, <2>1, <2>2, <2>3 DEF IInv, NoSecondDecision
<1>12. DialogHeld' /\ DetailIsTheOpened'
  <2>1. selected # NoDetail /\ ~detailLoading /\ opened = d
    BY <1>1, DocumentListAssumption DEF NoDetail, IInv, DialogHeld, DetailIsTheOpened
  <2>2. selected' # NoDetail
    BY DocumentListAssumption DEF NoDetail
  <2>3. \A x \in Documents \ {d} : task[x].step \in {"idle", "refresh"}
    BY <1>1 DEF IInv, DialogHeld
  <2> QED
    BY <1>4, <2>1, <2>2, <2>3 DEF IInv, DialogHeld, DetailIsTheOpened, DialogOpen
<1> QED
  BY <1>6, <1>7, <1>8, <1>9, <1>10, <1>11, <1>12 DEF IInv

LEMMA VerifyConcludeHolds ==
  ASSUME IInv, NEW d \in Documents, VerifyConclude(d)
  PROVE  IInv'
<1> USE DEF VerifyConclude, Conclude, historyVars
<1>1. CASE EndTask(d) /\ UNCHANGED <<listVars, detailVars, unknown, historyVars>>
  BY <1>1, TaskEnds DEF listVars
<1>2. CASE /\ current /\ task[d].written
           /\ Unlock(d, TRUE) /\ Refresh(d, TRUE, AbsentEntry)
  <2>1. Event(Own(d)) \in trail
    BY <1>2 DEF IInv, Found
  <2> QED
    BY <1>2, <2>1, RefreshShowsIt DEF Row
<1>3. CASE /\ current /\ task[d].written
           /\ task' = [task EXCEPT ![d] = [step |-> "latest"]]
           /\ UNCHANGED <<listVars, detailVars, pending, unknown, historyVars>>
  <2>1. /\ d \in pending /\ selected.document = d
        /\ Event(Own(d)) \in trail /\ unknown[d] # NoIntent
    BY <1>3 DEF IInv, Found, DialogHeld
  <2>2. Found(d)'
    BY <1>3, <2>1 DEF Found, Own, Event, IInv, Types, serverVars
  <2> QED
    BY <1>3, <2>1, <2>2, TaskMoves DEF listVars
<1>4. CASE /\ current /\ ~task[d].written /\ Present(task[d].seen)
           /\ task[d].seen.revision # unknown[d].revision
           /\ Unlock(d, FALSE) /\ EndTask(d)
           /\ selected' = [document |-> d, entry |-> task[d].seen]
           /\ UNCHANGED <<listVars, opens, detailLoading, detailError, opened,
                          confirmed>>
  BY <1>4, RefutedHolds
<1> QED
  BY <1>1, <1>2, <1>3, <1>4
-------------------------------------------------------------------------------
LEMMA Initially == Init => IInv
<1> SUFFICES ASSUME Init PROVE IInv
  OBVIOUS
<1> USE DEF Init
<1>1. Types
  BY DocumentListAssumption DEF Types, NewEntry, Row, Entry, ApprovalStatus, Idle
<1>2. RevisionsReached
  BY DEF RevisionsReached, Reached, NewEntry, NoIntent, Idle
<1>3. TrailIsOver /\ VerdictsAreTrue /\ NoSecondDecision
  BY DEF TrailIsOver, VerdictsAreTrue, NoSecondDecision
<1>4. \A d \in Documents : Found(d)
  BY DEF Found, Idle
<1>5. DialogHeld /\ DetailIsTheOpened
  BY DEF DialogHeld, DetailIsTheOpened, DialogOpen, Idle
<1> QED
  BY <1>1, <1>2, <1>3, <1>4, <1>5 DEF IInv

LEMMA Stutters == ASSUME IInv, UNCHANGED vars PROVE IInv'
<1> USE DEF vars, serverVars, listVars, detailVars, lockVars, historyVars
<1>1. Types' /\ RevisionsReached'
  BY DEF IInv, Types, RevisionsReached, Reached
<1>2. TrailIsOver' /\ VerdictsAreTrue' /\ NoSecondDecision'
  BY DEF IInv, TrailIsOver, Over, VerdictsAreTrue, NoSecondDecision
<1>3. (current => \A x \in Documents : Found(x))'
  BY DEF IInv, Found, Own
<1>4. DialogHeld' /\ DetailIsTheOpened'
  BY DEF IInv, DialogHeld, DetailIsTheOpened, DialogOpen
<1> QED
  BY <1>1, <1>2, <1>3, <1>4 DEF IInv

LEMMA StepHolds == IInv /\ [Next]_vars => IInv'
<1> SUFFICES ASSUME IInv, [Next]_vars PROVE IInv'
  OBVIOUS
<1>1. ASSUME NEW d \in Documents, TaskStep(d) PROVE IInv'
  BY <1>1, ServerSteps, AnswerDecisionHolds, LoseDecisionHolds, VerifyGetHolds,
     VerifyAuditHolds, VerifyConcludeHolds, VerifyLatestHolds, VerifyFailHolds
     DEF TaskStep
<1>2. ASSUME NEW d \in Documents, Open(d) \/ Verify(d) PROVE IInv'
  BY <1>2, OpenStepHolds, VerifyHolds
<1>3. ASSUME NEW d \in Documents, NEW i \in Intent, NEW u \in Users,
             DecideElsewhere(d, i, u)
      PROVE  IInv'
  BY <1>3, ServerSteps
<1>4. ASSUME NEW r \in adrift, ArriveLate(r) PROVE IInv'
  BY <1>4, ServerSteps
<1>5. ASSUME NEW i \in Intent, Decide(i) PROVE IInv'
  BY <1>5, DecideHolds
<1>6. ASSUME NEW q \in queries, QueryStep(q) PROVE IInv'
  BY <1>6, ListSteps
<1>7. ASSUME NEW o \in opens, OpenStep(o) PROVE IInv'
  BY <1>7, AnswerOpenHolds
<1>8. CASE Query \/ Close \/ Leave
  BY <1>8, ListSteps, CloseHolds, LeaveHolds
<1>9. CASE UNCHANGED vars
  BY <1>9, Stutters
<1> QED
  BY <1>1, <1>2, <1>3, <1>4, <1>5, <1>6, <1>7, <1>8, <1>9 DEF Next
-------------------------------------------------------------------------------
(* The inductive invariant of the page: revisions only move on, and what a  *)
(* verification has found stays so until it concludes.                      *)
THEOREM PageInvariant == Spec => []IInv
BY Initially, StepHolds, PTL DEF Spec

(* verifyOutcome never tells the user that a decision was made that was not, *)
(* nor that one was not made that was or still may be.                      *)
THEOREM VerdictsHold == Spec => []VerdictsAreTrue
<1>1. IInv => VerdictsAreTrue
  BY DEF IInv
<1> QED
  BY <1>1, PageInvariant, PTL

(* As long as a decision that was given up may still be carried out, the    *)
(* page makes no other on the same document.                                *)
THEOREM OneDecisionAtATime == Spec => []NoSecondDecision
<1>1. IInv => NoSecondDecision
  BY DEF IInv
<1> QED
  BY <1>1, PageInvariant, PTL

(* The dialog shows what was opened last, and a page that was left nothing. *)
THEOREM DetailNeverOvertaken == Spec => []DetailIsTheOpened
<1>1. IInv => DetailIsTheOpened
  BY DEF IInv
<1> QED
  BY <1>1, PageInvariant, PTL
-------------------------------------------------------------------------------
(* The list, and the types of everything.  A change that the page knows of  *)
(* is not newer than what the server has, and a deletion is for good; so a  *)
(* list that was read after the change was known shows it, and any other is *)
(* stale by then.                                                           *)

TaskRow == {Idle, [step |-> "get"], [step |-> "latest"], [step |-> "refresh"]}
             \cup [step : {"sent", "refused"}, intent : Intent]
             \cup [step : {"done"}, intent : Intent, result : Row]
             \cup [step : {"audit"}, seen : Row]
             \cup [step : {"decide"}, seen : Row, written : BOOLEAN]

QueryRow == [by : Documents \cup {NoDocument}, fresh : BOOLEAN, rows : [Documents -> 0..Gone]]

(* What Types leaves out.                                                   *)
Rest ==
  /\ trail \subseteq [request : Request, actor : Users]
  /\ carried \subseteq Request
  /\ queries \subseteq QueryRow
  /\ rows \in [Documents -> 0..Gone] /\ confirmed \in [Documents -> 0..Gone]
  /\ loading \in BOOLEAN /\ queryError \in BOOLEAN /\ detailLoading \in BOOLEAN
  /\ detailError \in BOOLEAN /\ current \in BOOLEAN
  /\ pending \subseteq Documents
  /\ opened \in Documents \cup {NoDocument}
  /\ told \subseteq [request : Request, written : BOOLEAN]
  /\ \A d \in Documents : task[d] \in TaskRow

(* Decisions are only made where a revision is left for their outcome.      *)
Fits(i) == i.action # "delete" => i.revision < MaxRevision

Bounded ==
  /\ \A d \in Documents : entry[d].revision <= MaxRevision
  /\ \A d \in Documents : task[d].step \in {"sent", "done", "refused"} => Fits(task[d].intent)
  /\ \A d \in Documents : task[d].step = "done" => task[d].result.revision <= MaxRevision
  /\ \A r \in adrift : Fits(r.intent)

DeletedForGood ==
  /\ \A event \in trail :
       event.request.intent.action = "delete" => ~ Present(entry[event.request.document])
  /\ \A d \in Documents : task[d].step = "done" /\ task[d].intent.action = "delete" =>
       ~ Present(entry[d])

ListKnown ==
  /\ \A d \in Documents : confirmed[d] <= Listed(entry[d])
  /\ \A q \in queries : q.fresh /\ q.rows # NoRows =>
       \A d \in Documents : q.rows[d] >= confirmed[d]
  /\ ListKeepsUp

ListInv == Rest /\ Bounded /\ DeletedForGood /\ ListKnown

(* A change by anybody keeps within the bound and never lowers what a list  *)
(* would show.                                                              *)
LEMMA PerformKeepsUp ==
  ASSUME entry \in [Documents -> Row], \A x \in Documents : entry[x].revision <= MaxRevision,
         NEW d \in Documents, NEW i \in Intent, NEW u \in Users, Perform(d, i, u), Fits(i)
  PROVE  /\ \A x \in Documents : entry'[x].revision <= MaxRevision
         /\ \A x \in Documents : ~ Present(entry[x]) => ~ Present(entry'[x])
         /\ i.action = "delete" => ~ Present(entry'[d])
         /\ \A x \in Documents : Listed(entry[x]) <= Listed(entry'[x])
         /\ After(entry[d], i, u) \in Row /\ After(entry[d], i, u).revision <= MaxRevision
         /\ trail' = trail \cup {[request |-> [document |-> d, intent |-> i], actor |-> u]}
         /\ [request |-> [document |-> d, intent |-> i], actor |-> u]
              \in [request : Request, actor : Users]
<1> DEFINE e == After(entry[d], i, u)
<1>1. /\ entry' \in [Documents -> Row] /\ entry' = [entry EXCEPT ![d] = e]
      /\ Present(entry[d]) /\ i.revision = entry[d].revision
      /\ i.action # "delete" => Present(e)
      /\ Present(e) => e.revision = entry[d].revision + 1
  BY PerformMovesOn
<1>2. i.action = "delete" => e = AbsentEntry /\ ~ Present(e)
  BY DEF After, AbsentEntry, Present
<1>3. \A x \in Documents : entry[x] \in Row /\ entry[x].revision \in Nat
                            /\ entry'[x].revision \in Nat
  BY <1>1 DEF Row, Entry, AbsentEntry
<1>4. i.revision \in Nat /\ MaxRevision \in Nat /\ AbsentEntry.revision = 0
  BY DocumentListAssumption DEF Intent, AbsentEntry
<1> HIDE DEF e
<1>5. entry'[d] = e /\ \A x \in Documents \ {d} : entry'[x] = entry[x]
  BY <1>1
<1>6. e.revision <= MaxRevision
  BY <1>1, <1>2, <1>4 DEF Fits
<1>7. Listed(entry[d]) <= Listed(e)
  BY <1>1, <1>3, <1>4, <1>5, <1>6 DEF Listed, Gone
<1>8. \A x \in Documents : Listed(entry[x]) <= Listed(entry[x])
  BY <1>3, <1>4 DEF Listed, Gone
<1>9. \A x \in Documents : Listed(entry[x]) <= Listed(entry'[x])
  BY <1>5, <1>7, <1>8
<1>10. e \in Row
  BY <1>1, <1>5
<1>11. /\ trail' = trail \cup {[request |-> [document |-> d, intent |-> i], actor |-> u]}
       /\ [request |-> [document |-> d, intent |-> i], actor |-> u]
             \in [request : Request, actor : Users]
  BY DEF Perform, Request
<1> QED
  BY <1>1, <1>2, <1>5, <1>6, <1>9, <1>10, <1>11 DEF e

LEMMA StaleQueries ==
  ASSUME queries \subseteq QueryRow
  PROVE  \A q \in Stale(queries) : q \in QueryRow /\ ~q.fresh
<1>1. ASSUME NEW c \in queries
      PROVE  [c EXCEPT !.fresh = FALSE] \in QueryRow /\ ~[c EXCEPT !.fresh = FALSE].fresh
  <2>1. c \in [by : Documents \cup {NoDocument}, fresh : BOOLEAN, rows : [Documents -> 0..Gone]]
    BY DEF QueryRow
  <2>2. [c EXCEPT !.fresh = FALSE].fresh = FALSE
    BY <2>1
  <2>3. [c EXCEPT !.fresh = FALSE] \in QueryRow
    BY <2>1 DEF QueryRow
  <2> QED
    BY <2>2, <2>3
<1> QED
  BY <1>1 DEF Stale

LEMMA ListBounds ==
  /\ NoRows \in [Documents -> 0..Gone]
  /\ \A by \in Documents \cup {NoDocument} : Ask(by) \in QueryRow
<1>1. 0 \in 0..Gone
  BY DocumentListAssumption DEF Gone
<1>2. NoRows \in [Documents -> 0..Gone]
  BY <1>1 DEF NoRows
<1> QED
  BY <1>2 DEF Ask, QueryRow

(* What a list shows of the server, now.                                    *)
LEMMA ListedRows ==
  ASSUME entry \in [Documents -> Row], \A d \in Documents : entry[d].revision <= MaxRevision
  PROVE  \A d \in Documents : /\ Listed(entry[d]) \in 0..Gone
                              /\ Present(entry[d]) => Listed(entry[d]) = entry[d].revision
                              /\ ~ Present(entry[d]) => Listed(entry[d]) = Gone
<1>1. \A d \in Documents : entry[d].revision \in Nat
  BY DEF Row, Entry, AbsentEntry
<1> QED
  BY <1>1, DocumentListAssumption DEF Listed, Gone

(* Steps on which the server stays as it is.                                *)
LEMMA QuietServer ==
  ASSUME ListInv, UNCHANGED <<entry, trail, carried>>,
         \A r \in adrift' : Fits(r.intent),
         \A x \in Documents :
           \/ task'[x] = task[x]
           \/ /\ task'[x] \in TaskRow /\ task'[x].step # "done"
              /\ task'[x].step \in {"sent", "refused"} => Fits(task'[x].intent)
  PROVE  /\ Bounded' /\ DeletedForGood'
         /\ \A x \in Documents : task'[x] \in TaskRow
<1>1. Bounded'
  BY DEF ListInv, Bounded, Fits
<1>2. DeletedForGood'
  BY DEF ListInv, DeletedForGood
<1> QED
  BY <1>1, <1>2 DEF ListInv, Rest

(* Steps on which the list stays as it is, and shows no change by itself.   *)
LEMMA QuietList ==
  ASSUME ListInv, UNCHANGED <<entry, listVars, confirmed>>, current' => current
  PROVE  /\ ListKnown'
         /\ queries' \subseteq QueryRow /\ rows' \in [Documents -> 0..Gone]
         /\ confirmed' \in [Documents -> 0..Gone]
         /\ loading' \in BOOLEAN /\ queryError' \in BOOLEAN
BY DEF listVars, ListInv, ListKnown, ListKeepsUp, Rest

(* A step of a task, without news for the list.                             *)
LEMMA TaskKeepsList ==
  ASSUME ListInv, NEW d \in Documents, NEW t \in TaskRow,
         DOMAIN task = Documents, task' = [task EXCEPT ![d] = t],
         t.step # "done", t.step \in {"sent", "refused"} => Fits(t.intent),
         UNCHANGED <<entry, trail, carried, listVars, confirmed, opened, detailLoading,
                     detailError, current>>,
         \A r \in adrift' : Fits(r.intent),
         pending' \subseteq Documents, told' \subseteq [request : Request, written : BOOLEAN]
  PROVE  ListInv'
<1>1. \A x \in Documents : task'[x] = task[x] \/ (x = d /\ task'[x] = t)
  OBVIOUS
<1>2. \A x \in Documents :
        \/ task'[x] = task[x]
        \/ /\ task'[x] \in TaskRow /\ task'[x].step # "done"
           /\ task'[x].step \in {"sent", "refused"} => Fits(task'[x].intent)
  BY <1>1
<1>3. Bounded' /\ DeletedForGood' /\ \A x \in Documents : task'[x] \in TaskRow
  BY <1>2, QuietServer
<1>4. /\ ListKnown'
      /\ queries' \subseteq QueryRow /\ rows' \in [Documents -> 0..Gone]
      /\ confirmed' \in [Documents -> 0..Gone]
      /\ loading' \in BOOLEAN /\ queryError' \in BOOLEAN
  BY QuietList
<1>5. Rest'
  BY <1>3, <1>4 DEF ListInv, Rest
<1> QED
  BY <1>3, <1>4, <1>5 DEF ListInv

LEMMA EndedTask ==
  ASSUME ListInv, NEW d \in Documents, EndTask(d)
  PROVE  /\ task' = [task EXCEPT ![d] = Idle] /\ Idle \in TaskRow
         /\ Idle.step = "idle" /\ pending' \subseteq Documents
BY DEF EndTask, TaskRow, Idle, ListInv, Rest

LEMMA EndingKeepsList ==
  ASSUME ListInv, NEW d \in Documents, EndTask(d), DOMAIN task = Documents,
         UNCHANGED <<entry, trail, carried, listVars, confirmed, opened, detailLoading,
                     detailError, current>>,
         \A r \in adrift' : Fits(r.intent),
         told' \subseteq [request : Request, written : BOOLEAN]
  PROVE  ListInv'
<1>1. /\ task' = [task EXCEPT ![d] = Idle] /\ Idle \in TaskRow
      /\ Idle.step = "idle" /\ pending' \subseteq Documents
  BY EndedTask
<1> QED
  BY <1>1, TaskKeepsList

(* What a verification tells of is a request.                               *)
LEMMA ToldIsTyped ==
  ASSUME ListInv, Types', NEW d \in Documents, NEW written \in BOOLEAN, Unlock(d, written)
  PROVE  told' \subseteq [request : Request, written : BOOLEAN]
<1>1. told \subseteq [request : Request, written : BOOLEAN]
  BY DEF ListInv, Rest
<1>2. told' = told \cup {[request |-> Own(d), written |-> written]}
  BY DEF Unlock, Own
<1>3. [request |-> Own(d), written |-> written] \in told'
  BY <1>2
<1>4. [request |-> Own(d), written |-> written].request \in Request
  BY <1>3 DEF Types
<1>5. Own(d) \in Request
  BY <1>4
<1> QED
  BY <1>1, <1>2, <1>5

(* The page knows of a change that the server has made: its list is asked   *)
(* for again, and every list that is still on its way is too old.           *)
LEMMA RefreshKeepsUp ==
  ASSUME IInv, ListInv, current, NEW d \in Documents, NEW deleted \in BOOLEAN, NEW e \in Row,
         deleted => ~ Present(entry[d]),
         ~ deleted => Present(e) /\ e.revision <= MaxRevision /\ Reached(d, e.revision),
         Refresh(d, deleted, e), UNCHANGED <<serverVars, current>>,
         told' \subseteq [request : Request, written : BOOLEAN]
  PROVE  ListInv'
<1> DEFINE n == IF deleted THEN Gone ELSE e.revision
<1>1. /\ confirmed' = [confirmed EXCEPT ![d] = n]
      /\ queries' = Stale(queries) \cup {Ask(d)}
      /\ loading' = TRUE /\ queryError' = FALSE /\ rows' = rows
      /\ task' = [task EXCEPT ![d] = [step |-> "refresh"]] /\ pending' = pending
  BY DEF Refresh, SendQuery
<1>2. detailLoading' \in BOOLEAN /\ detailError' \in BOOLEAN
      /\ opened' \in Documents \cup {NoDocument}
  BY DEF Refresh, CloseDetail, ListInv, Rest
<1>3. entry \in [Documents -> Row] /\ \A x \in Documents : entry[x].revision <= MaxRevision
  BY DEF IInv, Types, ListInv, Bounded
<1>4. n \in 0..Gone /\ n <= Listed(entry[d])
  <2>1. e.revision \in Nat /\ MaxRevision \in Nat
    BY DocumentListAssumption DEF Row, Entry, AbsentEntry
  <2>2. /\ Present(entry[d]) => Listed(entry[d]) = entry[d].revision
        /\ ~ Present(entry[d]) => Listed(entry[d]) = Gone
    BY <1>3, ListedRows
  <2> QED
    BY <2>1, <2>2 DEF Gone, Reached
<1> HIDE DEF n
<1>5. confirmed \in [Documents -> 0..Gone] /\ confirmed' \in [Documents -> 0..Gone]
  BY <1>1, <1>4 DEF ListInv, Rest
<1>6. /\ queries' \subseteq QueryRow
      /\ \A q \in queries' : q.fresh => q.rows = NoRows
  <2>1. queries \subseteq QueryRow
    BY DEF ListInv, Rest
  <2>2. Ask(d) \in QueryRow /\ Ask(d).rows = NoRows
    BY ListBounds DEF Ask
  <2> QED
    BY <1>1, <2>1, <2>2, StaleQueries
<1>7. ListKnown'
  <2>1. \A x \in Documents : confirmed'[x] <= Listed(entry'[x])
    BY <1>1, <1>4, <1>5 DEF serverVars, ListInv, ListKnown
  <2>2. ListKeepsUp'
    BY <1>1 DEF ListKeepsUp
  <2> QED
    BY <1>6, <2>1, <2>2 DEF ListKnown
<1>8. [step |-> "refresh"] \in TaskRow
  BY DEF TaskRow
<1>9. \A x \in Documents : task'[x] = task[x] \/ task'[x] = [step |-> "refresh"]
  BY <1>1 DEF IInv, Types
<1>10. Bounded' /\ DeletedForGood' /\ \A x \in Documents : task'[x] \in TaskRow
  <2>1. \A r \in adrift' : Fits(r.intent)
    BY DEF serverVars, ListInv, Bounded
  <2>2. \A x \in Documents :
          \/ task'[x] = task[x]
          \/ /\ task'[x] \in TaskRow /\ task'[x].step # "done"
             /\ task'[x].step \in {"sent", "refused"} => Fits(task'[x].intent)
    BY <1>8, <1>9
  <2> QED
    BY <2>1, <2>2, QuietServer DEF serverVars
<1>11. Rest'
  BY <1>1, <1>2, <1>5, <1>6, <1>10 DEF serverVars, ListInv, Rest
<1> QED
  BY <1>7, <1>10, <1>11 DEF ListInv

(* Steps of the server: a change shows in every list that is read later.    *)
LEMMA PerformKeepsList ==
  ASSUME IInv, ListInv, NEW d \in Documents, NEW i \in Intent, NEW u \in Users,
         Perform(d, i, u), Fits(i), adrift' \subseteq adrift,
         UNCHANGED <<listVars, confirmed, opened, detailLoading, detailError, pending, told,
                     current>>,
         carried' \subseteq carried \cup {[document |-> d, intent |-> i]},
         \/ UNCHANGED task
         \/ task' = [task EXCEPT ![d] = [step |-> "done", intent |-> i,
                                         result |-> After(entry[d], i, u)]]
  PROVE  ListInv'
<1> DEFINE done == [step |-> "done", intent |-> i, result |-> After(entry[d], i, u)]
           event == [request |-> [document |-> d, intent |-> i], actor |-> u]
<1>1. entry \in [Documents -> Row] /\ \A x \in Documents : entry[x].revision <= MaxRevision
  BY DEF IInv, Types, ListInv, Bounded
<1>2. /\ \A x \in Documents : entry'[x].revision <= MaxRevision
      /\ \A x \in Documents : ~ Present(entry[x]) => ~ Present(entry'[x])
      /\ i.action = "delete" => ~ Present(entry'[d])
      /\ \A x \in Documents : Listed(entry[x]) <= Listed(entry'[x])
      /\ After(entry[d], i, u) \in Row /\ After(entry[d], i, u).revision <= MaxRevision
      /\ trail' = trail \cup {event}
      /\ event \in [request : Request, actor : Users]
  BY <1>1, PerformKeepsUp
<1>3. \A x \in Documents : task'[x] = task[x] \/ (x = d /\ task'[x] = done)
  BY DEF IInv, Types
<1>4. done \in TaskRow /\ done.step = "done" /\ done.intent = i
      /\ done.result = After(entry[d], i, u)
  BY <1>2 DEF TaskRow
<1> HIDE DEF done
<1>5. Bounded'
  <2>1. \A x \in Documents :
          task'[x].step \in {"sent", "done", "refused"} => Fits(task'[x].intent)
    BY <1>3, <1>4 DEF ListInv, Bounded
  <2>2. \A x \in Documents : task'[x].step = "done" => task'[x].result.revision <= MaxRevision
    BY <1>2, <1>3, <1>4 DEF ListInv, Bounded
  <2>3. \A r \in adrift' : Fits(r.intent)
    BY DEF ListInv, Bounded
  <2> QED
    BY <1>2, <2>1, <2>2, <2>3 DEF Bounded, Fits
<1>6. DeletedForGood'
  <2>1. \A x \in trail : x.request \in Request
    BY DEF IInv, Types
  <2>2. \A x \in trail' : x.request.intent.action = "delete" =>
          ~ Present(entry'[x.request.document])
    BY <1>2, <2>1 DEF ListInv, DeletedForGood, Request
  <2>3. \A x \in Documents : task'[x].step = "done" /\ task'[x].intent.action = "delete" =>
          ~ Present(entry'[x])
    BY <1>2, <1>3, <1>4 DEF ListInv, DeletedForGood
  <2> QED
    BY <2>2, <2>3 DEF DeletedForGood
<1>7. ListKnown'
  <2>1. \A x \in Documents : confirmed[x] <= Listed(entry'[x])
    <3>1. ASSUME NEW x \in Documents PROVE confirmed[x] <= Listed(entry'[x])
      <4>1. confirmed[x] <= Listed(entry[x]) /\ Listed(entry[x]) <= Listed(entry'[x])
        BY <1>2 DEF ListInv, ListKnown
      <4>2. entry' \in [Documents -> Row]
        BY <1>1, PerformMovesOn
      <4>3. confirmed[x] \in Nat /\ Listed(entry[x]) \in Nat /\ Listed(entry'[x]) \in Nat
        BY <1>1, <4>2, DocumentListAssumption
           DEF ListInv, Rest, Listed, Gone, Row, Entry, AbsentEntry
      <4> QED
        BY <4>1, <4>3
    <3> QED
      BY <3>1
  <2> QED
    BY <2>1 DEF listVars, ListInv, ListKnown, ListKeepsUp
<1>8. Rest'
  <2>1. trail' \subseteq [request : Request, actor : Users] /\ carried' \subseteq Request
    BY <1>2 DEF ListInv, Rest, Request
  <2>2. \A x \in Documents : task'[x] \in TaskRow
    BY <1>3, <1>4 DEF ListInv, Rest
  <2> QED
    BY <2>1, <2>2 DEF listVars, ListInv, Rest
<1> QED
  BY <1>5, <1>6, <1>7, <1>8 DEF ListInv

LEMMA ServerKeepsList ==
  ASSUME IInv, ListInv,
         \/ \E d \in Documents, i \in Intent, u \in Users : DecideElsewhere(d, i, u)
         \/ \E r \in adrift : ArriveLate(r)
         \/ \E d \in Documents : ServeDecision(d)
  PROVE  ListInv'
<1> USE DEF lockVars, historyVars, detailVars
<1>1. ASSUME NEW d \in Documents, NEW i \in Intent, NEW u \in Users,
             DecideElsewhere(d, i, u)
      PROVE  ListInv'
  BY <1>1, PerformKeepsList DEF DecideElsewhere, Fits
<1>2. ASSUME NEW r \in adrift, ArriveLate(r)
      PROVE  ListInv'
  <2>1. /\ r.document \in Documents /\ r.intent \in Intent
        /\ r = [document |-> r.document, intent |-> r.intent]
        /\ Fits(r.intent)
    BY DEF IInv, Types, Request, ListInv, Bounded
  <2>2. CASE Perform(r.document, r.intent, Me) /\ carried' = carried \cup {r}
    BY <1>2, <2>1, <2>2, PerformKeepsList, DocumentListAssumption DEF ArriveLate
  <2>3. CASE UNCHANGED <<entry, trail, carried>>
    <3>1. UNCHANGED <<listVars, confirmed, opened, detailLoading, detailError, pending,
                      told, task, current>>
      BY <1>2 DEF ArriveLate
    <3>2. \A x \in adrift' : Fits(x.intent)
      BY <1>2 DEF ArriveLate, ListInv, Bounded
    <3>3. Bounded' /\ DeletedForGood' /\ \A x \in Documents : task'[x] \in TaskRow
      BY <2>3, <3>1, <3>2, QuietServer
    <3>4. ListKnown'
      BY <2>3, <3>1, QuietList
    <3>5. Rest'
      BY <2>3, <3>1, <3>3 DEF listVars, ListInv, Rest
    <3> QED
      BY <3>3, <3>4, <3>5 DEF ListInv
  <2> QED
    BY <1>2, <2>2, <2>3 DEF ArriveLate
<1>3. ASSUME NEW d \in Documents, ServeDecision(d)
      PROVE  ListInv'
  <2>1. task[d].intent \in Intent /\ task[d].step = "sent" /\ Fits(task[d].intent)
    BY <1>3 DEF IInv, Types, ServeDecision, ListInv, Bounded
  <2>2. UNCHANGED <<adrift, listVars, confirmed, opened, detailLoading, detailError, pending,
                    told, current>>
    BY <1>3 DEF ServeDecision
  <2>3. CASE Perform(d, task[d].intent, Me)
             /\ carried' = carried \cup {[document |-> d, intent |-> task[d].intent]}
             /\ task' = [task EXCEPT ![d] =
                            [step |-> "done", intent |-> task[d].intent,
                             result |-> After(entry[d], task[d].intent, Me)]]
    BY <2>1, <2>2, <2>3, PerformKeepsList, DocumentListAssumption
  <2>4. CASE task' = [task EXCEPT ![d] = [step |-> "refused", intent |-> task[d].intent]]
             /\ UNCHANGED <<entry, trail, carried>>
    <3>1. [step |-> "refused", intent |-> task[d].intent] \in TaskRow
      BY <2>1 DEF TaskRow
    <3>2. pending' \subseteq Documents /\ told' \subseteq [request : Request, written : BOOLEAN]
          /\ \A r \in adrift' : Fits(r.intent)
      BY <2>2 DEF ListInv, Rest, Bounded
    <3>3. DOMAIN task = Documents
      BY DEF IInv, Types
    <3> QED
      BY <2>1, <2>2, <2>4, <3>1, <3>2, <3>3, TaskKeepsList
  <2> QED
    BY <1>3, <2>3, <2>4 DEF ServeDecision
<1> QED
  BY <1>1, <1>2, <1>3

-------------------------------------------------------------------------------
(* Steps of the list.                                                       *)
LEMMA ListMoves ==
  ASSUME IInv, ListInv, UNCHANGED <<serverVars, detailVars, unknown, historyVars, current>>,
         UNCHANGED <<task, pending>> \/ \E d \in Documents : EndTask(d),
         queries' \subseteq QueryRow, rows' \in [Documents -> 0..Gone],
         loading' \in BOOLEAN, queryError' \in BOOLEAN,
         \A q \in queries' : q.fresh /\ q.rows # NoRows =>
           \A d \in Documents : q.rows[d] >= confirmed[d],
         ListKeepsUp'
  PROVE  ListInv'
<1> USE DEF serverVars, detailVars, historyVars
<1>1. /\ \A x \in Documents : task'[x] = task[x] \/ task'[x] = Idle
      /\ pending' \subseteq Documents
  BY DEF EndTask, IInv, Types, ListInv, Rest
<1>2. Idle \in TaskRow /\ Idle.step = "idle"
  BY DEF TaskRow, Idle
<1>3. \A r \in adrift' : Fits(r.intent)
  BY DEF ListInv, Bounded
<1>4. Bounded' /\ DeletedForGood' /\ \A x \in Documents : task'[x] \in TaskRow
  BY <1>1, <1>2, <1>3, QuietServer
<1>5. ListKnown'
  BY DEF ListInv, ListKnown
<1>6. Rest'
  BY <1>1, <1>4 DEF ListInv, Rest
<1> QED
  BY <1>4, <1>5, <1>6 DEF ListInv

LEMMA QueryKeepsList ==
  ASSUME IInv, ListInv, Query
  PROVE  ListInv'
<1>1. /\ queries' = Stale(queries) \cup {Ask(NoDocument)}
      /\ loading' = TRUE /\ queryError' = FALSE /\ rows' = rows
      /\ UNCHANGED <<serverVars, detailVars, unknown, historyVars, task, pending, current>>
  BY DEF Query, SendQuery, lockVars
<1>2. queries \subseteq QueryRow /\ rows \in [Documents -> 0..Gone]
  BY DEF ListInv, Rest
<1>3. Ask(NoDocument) \in QueryRow /\ Ask(NoDocument).rows = NoRows
  BY ListBounds DEF Ask
<1>4. queries' \subseteq QueryRow /\ \A q \in queries' : q.fresh => q.rows = NoRows
  BY <1>1, <1>2, <1>3, StaleQueries
<1>5. ListKeepsUp'
  BY <1>1 DEF ListKeepsUp
<1> QED
  BY <1>1, <1>2, <1>4, <1>5, ListMoves

LEMMA ServeQueryKeepsList ==
  ASSUME IInv, ListInv, NEW q \in queries, ServeQuery(q)
  PROVE  ListInv'
<1> DEFINE p == [q EXCEPT !.rows = [d \in Documents |-> Listed(entry[d])]]
<1>1. /\ queries' = (queries \ {q}) \cup {p}
      /\ UNCHANGED <<serverVars, rows, loading, queryError, detailVars, unknown, historyVars,
                     task, pending, current>>
  BY DEF ServeQuery, lockVars
<1>2. queries \subseteq QueryRow /\ rows \in [Documents -> 0..Gone]
      /\ loading \in BOOLEAN /\ queryError \in BOOLEAN
  BY DEF ListInv, Rest
<1>3. [d \in Documents |-> Listed(entry[d])] \in [Documents -> 0..Gone]
  BY ListedRows DEF IInv, Types, ListInv, Bounded
<1>4. p \in QueryRow /\ p.rows = [d \in Documents |-> Listed(entry[d])]
  BY <1>2, <1>3 DEF QueryRow
<1> HIDE DEF p
<1>5. \A d \in Documents : p.rows[d] >= confirmed[d]
  <2>1. \A d \in Documents : confirmed[d] <= Listed(entry[d]) /\ confirmed[d] \in 0..Gone
    BY DEF ListInv, ListKnown, Rest
  <2>2. \A d \in Documents : Listed(entry[d]) \in 0..Gone
    BY <1>3
  <2> QED
    BY <1>4, <2>1, <2>2
<1>6. queries' \subseteq QueryRow
  BY <1>1, <1>2, <1>4
<1>7. \A c \in queries' : c.fresh /\ c.rows # NoRows =>
        \A d \in Documents : c.rows[d] >= confirmed[d]
  BY <1>1, <1>5 DEF ListInv, ListKnown
<1>8. ListKeepsUp'
  BY <1>1 DEF historyVars, ListInv, ListKnown, ListKeepsUp
<1> QED
  BY <1>1, <1>2, <1>6, <1>7, <1>8, ListMoves

LEMMA AnswerQueryKeepsList ==
  ASSUME IInv, ListInv, NEW q \in queries, AnswerQuery(q) \/ FailQuery(q)
  PROVE  ListInv'
<1>1. /\ queries' = queries \ {q}
      /\ UNCHANGED <<serverVars, detailVars, unknown, historyVars, current>>
      /\ UNCHANGED <<task, pending>> \/ \E d \in Documents : EndTask(d)
  BY DEF AnswerQuery, FailQuery, EndAwaiting
<1>2. queries \subseteq QueryRow /\ rows \in [Documents -> 0..Gone]
      /\ loading \in BOOLEAN /\ queryError \in BOOLEAN /\ q.rows \in [Documents -> 0..Gone]
  BY DEF ListInv, Rest, QueryRow
<1>3. \/ UNCHANGED <<rows, loading, queryError>>
      \/ queryError' = TRUE /\ loading' = FALSE /\ rows' = rows
      \/ /\ q.fresh /\ q.rows # NoRows
         /\ rows' = q.rows /\ loading' = FALSE /\ queryError' = queryError
  BY DEF AnswerQuery, FailQuery
<1>4. rows' \in [Documents -> 0..Gone] /\ loading' \in BOOLEAN /\ queryError' \in BOOLEAN
  BY <1>2, <1>3
<1>5. queries' \subseteq QueryRow
      /\ \A c \in queries' : c.fresh /\ c.rows # NoRows =>
           \A d \in Documents : c.rows[d] >= confirmed[d]
  BY <1>1, <1>2 DEF ListInv, ListKnown
<1>6. ListKeepsUp'
  <2>1. q.fresh /\ q.rows # NoRows => \A d \in Documents : q.rows[d] >= confirmed[d]
    BY DEF ListInv, ListKnown
  <2> QED
    BY <1>1, <1>3, <2>1 DEF historyVars, ListInv, ListKnown, ListKeepsUp
<1> QED
  BY <1>1, <1>4, <1>5, <1>6, ListMoves
-------------------------------------------------------------------------------
(* Steps of the detail dialog, and the page's end.                          *)
LEMMA DetailKeepsList ==
  ASSUME ListInv, UNCHANGED <<serverVars, listVars, lockVars, historyVars, current>>,
         opened' \in Documents \cup {NoDocument},
         detailLoading' \in BOOLEAN, detailError' \in BOOLEAN
  PROVE  ListInv'
<1> USE DEF serverVars, lockVars, historyVars
<1>1. \A r \in adrift' : Fits(r.intent)
  BY DEF ListInv, Bounded
<1>2. Bounded' /\ DeletedForGood' /\ \A x \in Documents : task'[x] \in TaskRow
  BY <1>1, QuietServer
<1>3. ListKnown'
  BY QuietList
<1>4. Rest'
  BY <1>2 DEF listVars, ListInv, Rest
<1> QED
  BY <1>2, <1>3, <1>4 DEF ListInv

LEMMA DialogKeepsList ==
  ASSUME ListInv, \/ \E d \in Documents : Open(d)
                  \/ \E o \in opens : OpenStep(o)
                  \/ Close
  PROVE  ListInv'
<1>1. ASSUME NEW d \in Documents, Open(d) PROVE ListInv'
  BY <1>1, DetailKeepsList DEF Open, ListInv, Rest
<1>2. ASSUME NEW o \in opens, OpenStep(o) PROVE ListInv'
  <2>1. /\ UNCHANGED <<serverVars, listVars, opened, lockVars, historyVars, current>>
        /\ detailLoading' = detailLoading \/ detailLoading' = FALSE
        /\ detailError' = detailError \/ detailError' = TRUE
    BY <1>2 DEF OpenStep, AnswerOpen, FailOpen, Show
  <2> QED
    BY <2>1, DetailKeepsList DEF ListInv, Rest
<1>3. CASE Close
  BY <1>3, DetailKeepsList DEF Close, CloseDetail
<1> QED
  BY <1>1, <1>2, <1>3

LEMMA LeaveKeepsList ==
  ASSUME IInv, ListInv, Leave
  PROVE  ListInv'
<1>1. UNCHANGED <<entry, trail, adrift, carried, queryError, task, told, confirmed>>
  BY DEF Leave, serverVars, historyVars
<1>2. /\ current' = FALSE /\ queries' = Stale(queries) /\ opened' = NoDocument
      /\ rows' = NoRows /\ loading' = FALSE /\ pending' = {}
      /\ detailLoading' = FALSE /\ detailError' = FALSE
  BY DEF Leave, CloseDetail
<1>3. queries \subseteq QueryRow
  BY DEF ListInv, Rest
<1>4. queries' \subseteq QueryRow /\ \A q \in queries' : ~q.fresh
  BY <1>2, <1>3, StaleQueries
<1>5. \A r \in adrift' : Fits(r.intent)
  BY <1>1 DEF ListInv, Bounded
<1>6. Bounded' /\ DeletedForGood' /\ \A x \in Documents : task'[x] \in TaskRow
  BY <1>1, <1>5, QuietServer
<1>7. ListKnown'
  BY <1>1, <1>2, <1>4 DEF ListInv, ListKnown, ListKeepsUp
<1>8. Rest'
  BY <1>1, <1>2, <1>4, <1>6, ListBounds DEF ListInv, Rest
<1> QED
  BY <1>6, <1>7, <1>8 DEF ListInv

-------------------------------------------------------------------------------
(* Steps of the decisions and verifications.                                *)
LEMMA AskingKeepsList ==
  ASSUME IInv, ListInv,
         \/ \E i \in Intent : Decide(i)
         \/ \E d \in Documents : Verify(d) \/ VerifyGet(d) \/ VerifyAudit(d) \/ VerifyFail(d)
  PROVE  ListInv'
<1> USE DEF serverVars, historyVars, detailVars
<1>1. /\ DOMAIN task = Documents
      /\ \A r \in adrift : Fits(r.intent)
      /\ pending \subseteq Documents /\ told \subseteq [request : Request, written : BOOLEAN]
  BY DEF IInv, Types, ListInv, Bounded, Rest
<1>2. ASSUME NEW i \in Intent, Decide(i) PROVE ListInv'
  <2>1. PICK d \in Documents : selected.document = d
    BY <1>2 DEF Decide, CanDecide, Offered, IInv, Types
  <2>2. [step |-> "sent", intent |-> i] \in TaskRow /\ Fits(i)
    BY <1>2 DEF TaskRow, Decide, Fits
  <2>3. /\ task' = [task EXCEPT ![d] = [step |-> "sent", intent |-> i]]
        /\ pending' = pending \cup {d}
        /\ UNCHANGED <<serverVars, listVars, detailVars, historyVars, current>>
    BY <1>2, <2>1 DEF Decide
  <2> QED
    BY <1>1, <2>2, <2>3, TaskKeepsList
<1>3. ASSUME NEW d \in Documents, Verify(d) PROVE ListInv'
  <2>1. [step |-> "get"] \in TaskRow
    BY DEF TaskRow
  <2> QED
    BY <1>1, <1>3, <2>1, TaskKeepsList DEF Verify
<1>4. ASSUME NEW d \in Documents, VerifyGet(d) PROVE ListInv'
  <2>1. [step |-> "audit", seen |-> entry[d]] \in TaskRow
    BY DEF TaskRow, IInv, Types
  <2>2. CASE EndTask(d)
    BY <1>1, <1>4, <2>2, EndingKeepsList DEF VerifyGet
  <2>3. CASE task' = [task EXCEPT ![d] = [step |-> "audit", seen |-> entry[d]]]
             /\ UNCHANGED pending
    BY <1>1, <1>4, <2>1, <2>3, TaskKeepsList DEF VerifyGet
  <2> QED
    BY <1>4, <2>2, <2>3 DEF VerifyGet
<1>5. ASSUME NEW d \in Documents, VerifyAudit(d) PROVE ListInv'
  <2> DEFINE written == [request |-> [document |-> d, intent |-> unknown[d]],
                         actor |-> Me] \in trail
             t == [step |-> "decide", seen |-> task[d].seen, written |-> written]
  <2>1. written \in BOOLEAN /\ task[d].seen \in Row
    BY <1>5 DEF VerifyAudit, IInv, Types
  <2>2. /\ task' = [task EXCEPT ![d] = t]
        /\ UNCHANGED <<serverVars, listVars, detailVars, pending, historyVars, current>>
    BY <1>5 DEF VerifyAudit
  <2> HIDE DEF written
  <2>3. t \in TaskRow /\ t.step = "decide"
    BY <2>1 DEF TaskRow
  <2> HIDE DEF t
  <2> QED
    BY <1>1, <2>2, <2>3, TaskKeepsList
<1>6. ASSUME NEW d \in Documents, VerifyFail(d) PROVE ListInv'
  BY <1>1, <1>6, EndingKeepsList DEF VerifyFail
<1> QED
  BY <1>2, <1>3, <1>4, <1>5, <1>6

LEMMA AnsweredKeepsList ==
  ASSUME IInv, ListInv, NEW d \in Documents, AnswerDecision(d) \/ LoseDecision(d)
  PROVE  ListInv'
<1> USE DEF serverVars, detailVars
<1>1. /\ DOMAIN task = Documents
      /\ \A r \in adrift : Fits(r.intent)
      /\ told \subseteq [request : Request, written : BOOLEAN]
  BY DEF IInv, Types, ListInv, Bounded, Rest
<1> DEFINE deleted == task[d].intent.action = "delete"
<1>2. CASE current /\ task[d].step = "done" /\ Refresh(d, deleted, task[d].result)
           /\ UNCHANGED <<serverVars, told, current>>
  <2>1. /\ task[d].result \in Row /\ deleted \in BOOLEAN
        /\ ~deleted => Present(task[d].result) /\ Reached(d, task[d].result.revision)
    BY <1>2 DEF IInv, Types, RevisionsReached
  <2>2. /\ deleted => ~ Present(entry[d])
        /\ task[d].result.revision <= MaxRevision
    BY <1>2 DEF ListInv, Bounded, DeletedForGood
  <2> HIDE DEF deleted
  <2> QED
    BY <1>1, <1>2, <2>1, <2>2, RefreshKeepsUp
<1>3. CASE AnswerDecision(d) /\ EndTask(d) /\ UNCHANGED <<listVars, detailVars, confirmed>>
  BY <1>1, <1>3, EndingKeepsList DEF AnswerDecision
<1>4. CASE LoseDecision(d)
  <2>1. /\ EndTask(d)
        /\ UNCHANGED <<entry, trail, carried, listVars, detailVars, told, confirmed, current>>
    BY <1>4 DEF LoseDecision, historyVars
  <2>2. \A r \in adrift' : Fits(r.intent)
    <3>1. Fits(task[d].intent)
      BY <1>4 DEF LoseDecision, ListInv, Bounded
    <3>2. [document |-> d, intent |-> task[d].intent].intent = task[d].intent
      OBVIOUS
    <3> QED
      BY <1>1, <1>4, <3>1, <3>2 DEF LoseDecision
  <2> QED
    BY <1>1, <2>1, <2>2, EndingKeepsList
<1> QED
  BY <1>2, <1>3, <1>4 DEF AnswerDecision

LEMMA VerdictKeepsList ==
  ASSUME IInv, IInv', ListInv, NEW d \in Documents, VerifyConclude(d) \/ VerifyLatest(d)
  PROVE  ListInv'
<1> USE DEF serverVars, detailVars, historyVars
<1>1. /\ DOMAIN task = Documents /\ Types'
      /\ \A r \in adrift : Fits(r.intent)
      /\ told \subseteq [request : Request, written : BOOLEAN]
  BY DEF IInv, Types, ListInv, Bounded, Rest
<1>2. UNCHANGED <<serverVars, current>>
  BY DEF VerifyConclude, Conclude, VerifyLatest
<1>3. CASE EndTask(d) /\ UNCHANGED <<listVars, detailVars, historyVars>>
  BY <1>1, <1>2, <1>3, EndingKeepsList
<1>4. CASE /\ current /\ task[d].step = "decide" /\ task[d].written
           /\ unknown[d].action = "delete"
           /\ Unlock(d, TRUE) /\ Refresh(d, TRUE, AbsentEntry)
  <2>1. Event(Own(d)) \in trail
    BY <1>4 DEF IInv, Found
  <2>2. ~ Present(entry[d])
    BY <1>4, <2>1 DEF ListInv, DeletedForGood, Event, Own
  <2>3. told' \subseteq [request : Request, written : BOOLEAN]
    BY <1>1, <1>4, ToldIsTyped
  <2>4. AbsentEntry \in Row
    BY DEF Row
  <2> QED
    BY <1>2, <1>4, <2>2, <2>3, <2>4, RefreshKeepsUp
<1>5. CASE /\ task' = [task EXCEPT ![d] = [step |-> "latest"]]
           /\ UNCHANGED <<listVars, detailVars, pending, historyVars>>
  <2>1. [step |-> "latest"] \in TaskRow /\ pending \subseteq Documents
    BY DEF TaskRow, ListInv, Rest
  <2> QED
    BY <1>1, <1>2, <1>5, <2>1, TaskKeepsList
<1>6. CASE /\ Unlock(d, FALSE) /\ EndTask(d)
           /\ UNCHANGED <<listVars, opens, detailLoading, detailError, opened, confirmed>>
  <2>1. told' \subseteq [request : Request, written : BOOLEAN]
    BY <1>1, <1>6, ToldIsTyped
  <2> QED
    BY <1>1, <1>2, <1>6, <2>1, EndingKeepsList
<1>7. CASE current /\ Present(entry[d]) /\ Unlock(d, TRUE) /\ Refresh(d, FALSE, entry[d])
  <2>1. entry[d] \in Row /\ Reached(d, entry[d].revision) /\ entry[d].revision <= MaxRevision
    BY DEF IInv, Types, Row, Entry, AbsentEntry, Reached, ListInv, Bounded
  <2>2. told' \subseteq [request : Request, written : BOOLEAN]
    BY <1>1, <1>7, ToldIsTyped
  <2> QED
    BY <1>2, <1>7, <2>1, <2>2, RefreshKeepsUp
<1>8. VerifyConclude(d) => \/ EndTask(d) /\ UNCHANGED <<listVars, detailVars, historyVars>>
                           \/ /\ current /\ task[d].step = "decide" /\ task[d].written
                              /\ unknown[d].action = "delete"
                              /\ Unlock(d, TRUE) /\ Refresh(d, TRUE, AbsentEntry)
                           \/ /\ task' = [task EXCEPT ![d] = [step |-> "latest"]]
                              /\ UNCHANGED <<listVars, detailVars, pending, historyVars>>
                           \/ /\ Unlock(d, FALSE) /\ EndTask(d)
                              /\ UNCHANGED <<listVars, opens, detailLoading, detailError,
                                             opened, confirmed>>
  BY DEF VerifyConclude, Conclude
<1>9. VerifyLatest(d) => \/ EndTask(d) /\ UNCHANGED <<listVars, detailVars, historyVars>>
                         \/ current /\ Present(entry[d]) /\ Unlock(d, TRUE)
                            /\ Refresh(d, FALSE, entry[d])
  BY DEF VerifyLatest
<1> QED
  BY <1>3, <1>4, <1>5, <1>6, <1>7, <1>8, <1>9

LEMMA InitList == Init => ListInv
<1> SUFFICES ASSUME Init PROVE ListInv
  OBVIOUS
<1>1. NoRows \in [Documents -> 0..Gone] /\ Ask(NoDocument) \in QueryRow
      /\ Ask(NoDocument).rows = NoRows
  BY ListBounds DEF Ask
<1>2. Rest
  BY <1>1 DEF Init, Rest, TaskRow
<1>3. Bounded
  BY DocumentListAssumption DEF Init, Bounded, NewEntry, Idle
<1>4. DeletedForGood
  BY DEF Init, DeletedForGood, Idle
<1>5. ListKnown
  <2>1. \A d \in Documents : NoRows[d] <= Listed(entry[d])
    BY DocumentListAssumption DEF Init, NoRows, Listed, Gone, NewEntry, Present
  <2> QED
    BY <1>1, <2>1 DEF Init, ListKnown, ListKeepsUp
<1> QED
  BY <1>2, <1>3, <1>4, <1>5 DEF ListInv

LEMMA ListStep == IInv /\ ListInv /\ [Next]_vars => ListInv'
<1> SUFFICES ASSUME IInv, ListInv, [Next]_vars PROVE ListInv'
  OBVIOUS
<1>1. IInv'
  BY StepHolds
<1>2. ASSUME NEW d \in Documents, TaskStep(d) PROVE ListInv'
  BY <1>1, <1>2, ServerKeepsList, AskingKeepsList, AnsweredKeepsList, VerdictKeepsList
     DEF TaskStep
<1>3. ASSUME NEW d \in Documents, Open(d) \/ Verify(d) PROVE ListInv'
  BY <1>3, DialogKeepsList, AskingKeepsList
<1>4. ASSUME NEW d \in Documents, NEW i \in Intent, NEW u \in Users,
             DecideElsewhere(d, i, u)
      PROVE  ListInv'
  BY <1>4, ServerKeepsList
<1>5. ASSUME NEW r \in adrift, ArriveLate(r) PROVE ListInv'
  BY <1>5, ServerKeepsList
<1>6. ASSUME NEW i \in Intent, Decide(i) PROVE ListInv'
  BY <1>6, AskingKeepsList
<1>7. ASSUME NEW q \in queries, QueryStep(q) PROVE ListInv'
  BY <1>7, ServeQueryKeepsList, AnswerQueryKeepsList DEF QueryStep
<1>8. ASSUME NEW o \in opens, OpenStep(o) PROVE ListInv'
  BY <1>8, DialogKeepsList
<1>9. CASE Query \/ Close \/ Leave
  BY <1>9, QueryKeepsList, DialogKeepsList, LeaveKeepsList
<1>10. CASE UNCHANGED vars
  BY <1>10, DetailKeepsList DEF vars, detailVars, ListInv, Rest
<1> QED
  BY <1>2, <1>3, <1>4, <1>5, <1>6, <1>7, <1>8, <1>9, <1>10 DEF Next

LEMMA ListInvariant == Spec => [](IInv /\ ListInv)
BY Initially, InitList, StepHolds, ListStep, PTL DEF Spec

(* The page, the server and what is between them stay of their types; no    *)
(* document passes the bound of its revisions.                              *)
THEOREM PageTypeCorrect == Spec => []TypeOK
<1>1. IInv /\ ListInv => TypeOK
  BY DEF IInv, ListInv, Types, Rest, TypeOK, TaskRow, QueryRow
<1> QED
  BY <1>1, ListInvariant, PTL

(* A list at rest never shows a document as it was before a change that the *)
(* page has made or verified itself, however answers are overtaken or lost. *)
THEOREM ListShowsOwnChanges == Spec => []ListKeepsUp
<1>1. ListInv => ListKeepsUp
  BY DEF ListInv, ListKnown
<1> QED
  BY <1>1, ListInvariant, PTL
===============================================================================
