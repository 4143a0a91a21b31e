----------------------------- MODULE DocumentList -----------------------------
(***************************************************************************)
(* The list page of one document kind, as one account has it open in one    *)
(* window: frontend/src/target/components/document-page/list-runtime.ts,    *)
(* with the guards of DocumentPage.vue, over the approval rules of the      *)
(* server.  Every request has a way to the server and an answer with a way  *)
(* back, and either can be lost.  A list or detail that was asked for early *)
(* can arrive late; a decision whose answer was lost may or may not have    *)
(* been carried out, or still be carried out later.                         *)
(*                                                                         *)
(* A document has one submission, which its identity stands for.  The list  *)
(* is one page of all documents, and shows a revision for each; filters,    *)
(* payloads and the confirmation dialogs are left out.                      *)
(***************************************************************************)
EXTENDS Approval, FiniteSets

CONSTANTS
  Documents, NoDocument,
  Me,             \* the account; it may have other windows, too
  SubmittedBy,    \* SubmittedBy[d]: who submitted d
  MaxRevision,    \* bound of a document's revision
  MaxLists,       \* bound: lists on their way that the user has asked for
  MaxDetails      \* bound: details on their way at a time

ASSUME DocumentListAssumption ==
  /\ NoDocument \notin Documents
  /\ Me \in Users
  /\ SubmittedBy \in [Documents -> Users]
  /\ {MaxRevision, MaxLists, MaxDetails} \subseteq Nat \ {0}

VARIABLES
  entry,          \* server: entry[d], the row of approval_entries
  trail,          \* server: the events of approval_events
  adrift,         \* requests of this page, given up, that may still arrive
  queries,        \* lists on their way
  opens,          \* details on their way
  rows,           \* items: the revision the list shows for each document
  loading, queryError,
  selected,       \* the document in the detail dialog, as it was read
  detailLoading, detailError,
  pending,        \* documents with a decision or a verification under way
  unknown,        \* unknown[d]: the decision on d whose outcome is not known
  task,           \* task[d]: what review, deleteSelected or verifyOutcome does
  current,        \* is the page still the page of the session?
  opened,         \* history: the document the user has opened and not left
  carried,        \* history: requests of this page that were carried out
  told,           \* history: what verifications have told the user
  confirmed       \* history: confirmed[d], the newest change of d the page knows

serverVars == <<entry, trail, adrift, carried>>
listVars   == <<queries, rows, loading, queryError>>
detailVars == <<opens, selected, detailLoading, detailError, opened>>
lockVars   == <<pending, unknown, task>>
historyVars == <<told, confirmed>>
vars == <<serverVars, listVars, detailVars, lockVars, historyVars, current>>

Decision == ApprovalAction \cup {"delete"}
Intent   == [action : Decision, revision : 1..MaxRevision]
NoIntent == [action |-> "none", revision |-> 0]
Request  == [document : Documents, intent : Intent]

(* A revision in the list; one above all for a document that is gone.       *)
Gone      == MaxRevision + 1
Listed(e) == IF Present(e) THEN e.revision ELSE Gone

NoDetail == [document |-> NoDocument, entry |-> AbsentEntry]
Idle     == [step |-> "idle"]

TypeOK ==
  /\ entry \in [Documents -> Row]
  /\ trail \subseteq [request : Request, actor : Users]
  /\ adrift \subseteq Request /\ carried \subseteq Request
  /\ queries \subseteq [by : Documents \cup {NoDocument}, fresh : BOOLEAN,
                        rows : [Documents -> 0..Gone]]
  /\ opens \subseteq [document : Documents, fresh : BOOLEAN]
  /\ rows \in [Documents -> 0..Gone] /\ confirmed \in [Documents -> 0..Gone]
  /\ {loading, queryError, detailLoading, detailError, current} \subseteq BOOLEAN
  /\ selected \in [document : Documents, entry : Entry] \cup {NoDetail}
  /\ pending \subseteq Documents
  /\ unknown \in [Documents -> Intent \cup {NoIntent}]
  /\ opened \in Documents \cup {NoDocument}
  /\ told \subseteq [request : Request, written : BOOLEAN]
  /\ \A d \in Documents :
       task[d] \in {Idle, [step |-> "get"], [step |-> "latest"], [step |-> "refresh"]}
          \cup [step : {"sent", "refused"}, intent : Intent]
          \cup [step : {"done"}, intent : Intent, result : Row]
          \cup [step : {"audit"}, seen : Row]
          \cup [step : {"decide"}, seen : Row, written : BOOLEAN]

NoRows == [d \in Documents |-> 0]
Ask(by) == [by |-> by, fresh |-> TRUE, rows |-> NoRows]

(* initialize: the page asks for its list when it is mounted.               *)
Init ==
  /\ entry = [d \in Documents |-> NewEntry(SubmittedBy[d])]
  /\ trail = {} /\ adrift = {} /\ carried = {}
  /\ queries = {Ask(NoDocument)} /\ rows = NoRows
  /\ loading = TRUE /\ queryError = FALSE
  /\ opens = {} /\ selected = NoDetail
  /\ detailLoading = FALSE /\ detailError = FALSE /\ opened = NoDocument
  /\ pending = {} /\ unknown = [d \in Documents |-> NoIntent]
  /\ task = [d \in Documents |-> Idle]
  /\ told = {} /\ confirmed = NoRows
  /\ current = TRUE

-------------------------------------------------------------------------------
(* The server.                                                              *)
Allowed(e, i, u) ==
  IF i.action = "delete"
    THEN DeleteAllowed(e, u, i.revision)
    ELSE DecideApproval(e, i.action, u, i.revision,
           IF i.action \in {"reject", "unapprove"} THEN "text" ELSE "absent")

After(e, i, u) ==
  IF i.action = "delete" THEN AbsentEntry ELSE NextEntry(e, i.action, u)

(* review and delete: the entry and its event in one transaction.           *)
Perform(d, i, u) ==
  /\ Present(entry[d]) /\ Allowed(entry[d], i, u)
  /\ entry' = [entry EXCEPT ![d] = After(@, i, u)]
  /\ trail' = trail \cup {[request |-> [document |-> d, intent |-> i], actor |-> u]}

(* Anybody in another window, this account as well.                         *)
DecideElsewhere(d, i, u) ==
  /\ current
  /\ i.action # "delete" => i.revision < MaxRevision
  /\ Perform(d, i, u)
  /\ UNCHANGED <<adrift, carried, listVars, detailVars, lockVars, historyVars,
                 current>>

(* A request that the page has given up arrives after all.                  *)
ArriveLate(r) ==
  /\ r \in adrift
  /\ adrift' = adrift \ {r}
  /\ IF Present(entry[r.document]) /\ Allowed(entry[r.document], r.intent, Me)
       THEN /\ Perform(r.document, r.intent, Me)
            /\ carried' = carried \cup {r}
       ELSE UNCHANGED <<entry, trail, carried>>
  /\ UNCHANGED <<listVars, detailVars, lockVars, historyVars, current>>

-------------------------------------------------------------------------------
(* The list.                                                                *)
Stale(calls) == { [c EXCEPT !.fresh = FALSE] : c \in calls }

(* query, up to its first await.                                            *)
SendQuery(by, others) ==
  /\ queries' = Stale(others) \cup {Ask(by)}
  /\ loading' = TRUE /\ queryError' = FALSE
  /\ UNCHANGED rows

DialogOpen == selected # NoDetail \/ detailLoading \/ detailError

(* submitSearch and goToPage; the detail dialog covers the list.            *)
Query ==
  /\ current /\ ~DialogOpen
  /\ Cardinality({ q \in queries : q.by = NoDocument }) < MaxLists
  /\ SendQuery(NoDocument, queries)
  /\ UNCHANGED <<serverVars, detailVars, lockVars, historyVars, current>>

ServeQuery(q) ==
  /\ q \in queries /\ q.rows = NoRows
  /\ queries' = (queries \ {q})
                  \cup {[q EXCEPT !.rows = [d \in Documents |-> Listed(entry[d])]]}
  /\ UNCHANGED <<serverVars, rows, loading, queryError, detailVars, lockVars,
                 historyVars, current>>

(* What if a task ended with its answers still in hand?                     *)
EndTaskKeepingAnswers(d) ==
  /\ task' = [task EXCEPT ![d].step = "idle"]
  /\ pending' = IF current THEN pending \ {d} ELSE pending

EndTask(d) ==
  /\ task' = [task EXCEPT ![d] = Idle]
  /\ pending' = IF current THEN pending \ {d} ELSE pending

(* The write that awaits the refreshed list has come to its end.            *)
EndAwaiting(by) ==
  IF by \in Documents THEN EndTask(by) ELSE UNCHANGED <<task, pending>>

(* What if a list were shown although a later one has been asked for?       *)
AnswerQueryAnyOrder(q) ==
  /\ q \in queries /\ q.rows # NoRows
  /\ queries' = queries \ {q}
  /\ IF current
       THEN rows' = q.rows /\ loading' = FALSE /\ UNCHANGED queryError
       ELSE UNCHANGED <<rows, loading, queryError>>
  /\ EndAwaiting(q.by)
  /\ UNCHANGED <<serverVars, detailVars, unknown, historyVars, current>>

(* What if a write whose refreshed list was overtaken kept its lock?        *)
AnswerQueryForgetful(q) ==
  /\ q \in queries /\ q.rows # NoRows
  /\ queries' = queries \ {q}
  /\ IF current /\ q.fresh
       THEN /\ rows' = q.rows /\ loading' = FALSE /\ UNCHANGED queryError
            /\ EndAwaiting(q.by)
       ELSE UNCHANGED <<rows, loading, queryError, task, pending>>
  /\ UNCHANGED <<serverVars, detailVars, unknown, historyVars, current>>

(* query, from its await on: only the latest request may show its answer.   *)
AnswerQuery(q) ==
  /\ q \in queries /\ q.rows # NoRows
  /\ queries' = queries \ {q}
  /\ IF current /\ q.fresh
       THEN rows' = q.rows /\ loading' = FALSE /\ UNCHANGED queryError
       ELSE UNCHANGED <<rows, loading, queryError>>
  /\ EndAwaiting(q.by)
  /\ UNCHANGED <<serverVars, detailVars, unknown, historyVars, current>>

FailQuery(q) ==
  /\ q \in queries
  /\ queries' = queries \ {q}
  /\ IF current /\ q.fresh
       THEN queryError' = TRUE /\ loading' = FALSE /\ UNCHANGED rows
       ELSE UNCHANGED <<rows, loading, queryError>>
  /\ EndAwaiting(q.by)
  /\ UNCHANGED <<serverVars, detailVars, unknown, historyVars, current>>

-------------------------------------------------------------------------------
(* The detail dialog.                                                       *)
Open(d) ==
  /\ current /\ ~DialogOpen
  /\ rows[d] \in 1..MaxRevision /\ d \notin pending
  /\ Cardinality(opens) < MaxDetails
  /\ opens' = Stale(opens) \cup {[document |-> d, fresh |-> TRUE]}
  /\ detailLoading' = TRUE /\ opened' = d
  /\ UNCHANGED <<serverVars, listVars, selected, detailError, lockVars,
                 historyVars, current>>

(* The answer for the document d.  The server has read it some time before, *)
(* which is as if others had changed it after the answer.  An absent        *)
(* document answers with an error.                                          *)
Show(d) ==
  /\ detailLoading' = FALSE
  /\ IF Present(entry[d])
       THEN /\ selected' = [document |-> d, entry |-> entry[d]]
            /\ UNCHANGED detailError
       ELSE detailError' = TRUE /\ UNCHANGED selected

(* What if a detail were shown although another has been opened since?      *)
AnswerOpenAnyOrder(o) ==
  /\ o \in opens
  /\ opens' = opens \ {o}
  /\ IF current THEN Show(o.document)
                ELSE UNCHANGED <<selected, detailLoading, detailError>>
  /\ UNCHANGED <<serverVars, listVars, opened, lockVars, historyVars, current>>

AnswerOpen(o) ==
  /\ o \in opens
  /\ opens' = opens \ {o}
  /\ IF current /\ o.fresh
       THEN Show(o.document) ELSE UNCHANGED <<selected, detailLoading, detailError>>
  /\ UNCHANGED <<serverVars, listVars, opened, lockVars, historyVars, current>>

FailOpen(o) ==
  /\ o \in opens
  /\ opens' = opens \ {o}
  /\ IF current /\ o.fresh
       THEN detailLoading' = FALSE /\ detailError' = TRUE
       ELSE UNCHANGED <<detailLoading, detailError>>
  /\ UNCHANGED <<serverVars, listVars, selected, opened, lockVars, historyVars,
                 current>>

CloseDetail ==
  /\ opens' = Stale(opens)
  /\ selected' = NoDetail /\ detailLoading' = FALSE /\ detailError' = FALSE

(* The user closes the dialog, which holds while its document is pending.   *)
Close ==
  /\ current /\ DialogOpen
  /\ selected.document \notin pending
  /\ CloseDetail /\ opened' = NoDocument
  /\ UNCHANGED <<serverVars, listVars, lockVars, historyVars, current>>

-------------------------------------------------------------------------------
(* Decisions.  The server offers what availableApprovalActions and canDelete *)
(* find for the state it has sent, and the page what it has not locked.     *)
Offered(i) ==
  /\ selected # NoDetail
  /\ i.revision = selected.entry.revision
  /\ Allowed(selected.entry, i, Me)

(* What if an unknown outcome did not lock its document?                    *)
CanDecideUnlessPending(i) ==
  Offered(i) /\ selected.document \notin pending

(* canReview, canDelete                                                     *)
CanDecide(i) ==
  /\ Offered(i)
  /\ selected.document \notin pending
  /\ unknown[selected.document] = NoIntent

(* review and deleteSelected, up to the request.                            *)
Decide(i) ==
  LET d == selected.document IN
  /\ current /\ CanDecide(i)
  /\ i.action # "delete" => i.revision < MaxRevision
  /\ pending' = pending \cup {d}
  /\ task' = [task EXCEPT ![d] = [step |-> "sent", intent |-> i]]
  /\ UNCHANGED <<serverVars, listVars, detailVars, unknown, historyVars, current>>

ServeDecision(d) ==
  /\ task[d].step = "sent"
  /\ \/ /\ Perform(d, task[d].intent, Me)
        /\ carried' = carried \cup {[document |-> d, intent |-> task[d].intent]}
        /\ task' = [task EXCEPT ![d] =
                      [step |-> "done", intent |-> task[d].intent,
                       result |-> After(entry[d], task[d].intent, Me)]]
     \/ \* refused for the revision, or for a rule of the documents
        /\ task' = [task EXCEPT ![d] = [step |-> "refused", intent |-> task[d].intent]]
        /\ UNCHANGED <<entry, trail, carried>>
  /\ UNCHANGED <<adrift, listVars, detailVars, pending, unknown, historyVars,
                 current>>

(* The change is known: show it, and have the list read again.              *)
Refresh(d, deleted, e) ==
  /\ confirmed' = [confirmed EXCEPT ![d] = IF deleted THEN Gone ELSE e.revision]
  /\ IF deleted
       THEN /\ CloseDetail
            /\ opened' = IF opened = d THEN NoDocument ELSE opened
       ELSE /\ selected' = [document |-> d, entry |-> e]
            /\ UNCHANGED <<opens, detailLoading, detailError, opened>>
  /\ SendQuery(d, queries)
  /\ task' = [task EXCEPT ![d] = [step |-> "refresh"]]
  /\ UNCHANGED pending

AnswerDecision(d) ==
  /\ task[d].step \in {"done", "refused"}
  /\ IF current /\ task[d].step = "done"
       THEN Refresh(d, task[d].intent.action = "delete", task[d].result)
       ELSE EndTask(d) /\ UNCHANGED <<listVars, detailVars, confirmed>>
  /\ UNCHANGED <<serverVars, unknown, told, current>>

(* No answer, or an internal error: the request may be anywhere.            *)
LoseDecision(d) ==
  /\ task[d].step \in {"sent", "done", "refused"}
  /\ adrift' = IF task[d].step = "sent"
                 THEN adrift \cup {[document |-> d, intent |-> task[d].intent]}
                 ELSE adrift
  /\ unknown' = IF current THEN [unknown EXCEPT ![d] = task[d].intent] ELSE unknown
  /\ EndTask(d)
  /\ UNCHANGED <<entry, trail, carried, listVars, detailVars, historyVars, current>>

-------------------------------------------------------------------------------
(* verifyOutcome: the detail, then the trail; the next request is sent when *)
(* the answer before it is there, so that its reading is one step with it.  *)
Verify(d) ==
  /\ current /\ selected.document = d
  /\ unknown[d] # NoIntent /\ d \notin pending
  /\ pending' = pending \cup {d}
  /\ task' = [task EXCEPT ![d] = [step |-> "get"]]
  /\ UNCHANGED <<serverVars, listVars, detailVars, unknown, historyVars, current>>

VerifyGet(d) ==
  /\ task[d].step = "get"
  /\ IF Present(entry[d]) \/ unknown[d].action = "delete"
       THEN /\ task' = [task EXCEPT ![d] = [step |-> "audit", seen |-> entry[d]]]
            /\ UNCHANGED pending
       ELSE EndTask(d)
  /\ UNCHANGED <<serverVars, listVars, detailVars, unknown, historyVars, current>>

(* Is there the event of exactly this decision, from exactly this revision? *)
VerifyAudit(d) ==
  /\ task[d].step = "audit"
  /\ task' = [task EXCEPT ![d] =
       [step |-> "decide", seen |-> task[d].seen,
        written |-> [request |-> [document |-> d, intent |-> unknown[d]],
                     actor |-> Me] \in trail]]
  /\ UNCHANGED <<serverVars, listVars, detailVars, pending, unknown, historyVars,
                 current>>

Unlock(d, written) ==
  /\ unknown' = [unknown EXCEPT ![d] = NoIntent]
  /\ told' = told \cup {[request |-> [document |-> d, intent |-> unknown[d]],
                         written |-> written]}

(* What the two answers say, given the detail e.                            *)
Conclude(d, e) ==
  /\ task[d].step = "decide"
  /\ IF ~current
       THEN EndTask(d) /\ UNCHANGED <<listVars, detailVars, unknown, historyVars>>
     ELSE IF task[d].written /\ unknown[d].action = "delete"
       THEN Unlock(d, TRUE) /\ Refresh(d, TRUE, AbsentEntry)
     ELSE IF task[d].written
       THEN /\ task' = [task EXCEPT ![d] = [step |-> "latest"]]
            /\ UNCHANGED <<listVars, detailVars, pending, unknown, historyVars>>
     ELSE IF Present(e) /\ e.revision # unknown[d].revision
       THEN /\ Unlock(d, FALSE)
            /\ selected' = [document |-> d, entry |-> e]
            /\ EndTask(d)
            /\ UNCHANGED <<listVars, opens, detailLoading, detailError, opened,
                           confirmed>>
     ELSE EndTask(d) /\ UNCHANGED <<listVars, detailVars, unknown, historyVars>>
  /\ UNCHANGED <<serverVars, current>>

(* What if the trail were read before the detail?                           *)
VerifyConcludeOnLaterDetail(d) == Conclude(d, entry[d])

VerifyConclude(d) == Conclude(d, task[d].seen)

VerifyLatest(d) ==
  /\ task[d].step = "latest"
  /\ IF current /\ Present(entry[d])
       THEN Unlock(d, TRUE) /\ Refresh(d, FALSE, entry[d])
       ELSE EndTask(d) /\ UNCHANGED <<listVars, detailVars, unknown, historyVars>>
  /\ UNCHANGED <<serverVars, current>>

(* A read of the verification fails, or its answer is lost.                 *)
VerifyFail(d) ==
  /\ task[d].step \in {"get", "audit", "decide", "latest"}
  /\ EndTask(d)
  /\ UNCHANGED <<serverVars, listVars, detailVars, unknown, historyVars, current>>

-------------------------------------------------------------------------------
(* dispose: another session, or another page.  Requests stay on their way.  *)
Leave ==
  /\ current
  /\ current' = FALSE
  /\ queries' = Stale(queries)
  /\ CloseDetail /\ opened' = NoDocument
  /\ rows' = NoRows /\ loading' = FALSE
  /\ pending' = {} /\ unknown' = [d \in Documents |-> NoIntent]
  /\ UNCHANGED <<serverVars, queryError, task, historyVars>>

TaskStep(d) ==
  \/ ServeDecision(d) \/ AnswerDecision(d) \/ LoseDecision(d)
  \/ VerifyGet(d) \/ VerifyAudit(d) \/ VerifyConclude(d) \/ VerifyLatest(d)
  \/ VerifyFail(d)
QueryStep(q) == ServeQuery(q) \/ AnswerQuery(q) \/ FailQuery(q)
OpenStep(o)  == AnswerOpen(o) \/ FailOpen(o)

Next ==
  \/ \E d \in Documents :
       \/ TaskStep(d) \/ Open(d) \/ Verify(d)
       \/ \E i \in Intent, u \in Users : DecideElsewhere(d, i, u)
  \/ \E i \in Intent : Decide(i)
  \/ \E q \in queries : QueryStep(q)
  \/ \E o \in opens : OpenStep(o)
  \/ \E r \in adrift : ArriveLate(r)
  \/ Query \/ Close \/ Leave

(* A request that was sent is answered or fails; users do as they like, and *)
(* what was given up need not arrive.                                       *)
Fairness ==
  /\ \A d \in Documents : WF_vars(TaskStep(d))
  /\ \A by \in Documents : WF_vars(\E q \in queries : q.by = by /\ QueryStep(q))
  /\ WF_vars(\E o \in opens : o.fresh /\ OpenStep(o))

Spec == Init /\ [][Next]_vars /\ Fairness
-------------------------------------------------------------------------------
(* sale-order.md 19: a later query prevails, and the list is read again     *)
(* after a write.  When the list is at rest, it shows no document as it was *)
(* before a change that the page itself has made or verified.               *)
ListKeepsUp ==
  current /\ ~loading /\ ~queryError =>
    \A d \in Documents : rows[d] >= confirmed[d]

(* sale-order.md 19: after closing, switching or another session, old       *)
(* requests do not write into the page.  The dialog shows the document that *)
(* the user has opened last, and a page that was left shows nothing.        *)
DetailIsTheOpened ==
  /\ selected # NoDetail => selected.document = opened /\ current
  /\ ~current => rows = NoRows /\ ~DialogOpen /\ pending = {}
  /\ opened # NoDocument => DialogOpen

(* vou.md 526: an unknown outcome is verified by the exact trail.  "Written" *)
(* is said only of what this account has done, and "not written" only of a  *)
(* request that has not been carried out, and never is.                     *)
VerdictsAreTrue ==
  \A v \in told :
    IF v.written THEN [request |-> v.request, actor |-> Me] \in trail
                 ELSE v.request \notin carried

(* vou.md 526: an unknown decision is never sent again by itself, and locks *)
(* the document.  As long as a request that was given up could still be     *)
(* carried out, the page has no other decision on the document under way.   *)
NoSecondDecision ==
  current => \A r \in adrift :
    LET d == r.document IN
    Present(entry[d]) /\ entry[d].revision = r.intent.revision =>
      unknown[d] = r.intent /\ task[d].step \notin {"sent", "done", "refused"}

(* The page waits for no answer for ever: every decision, verification and  *)
(* detail comes to an end, whichever answers are lost or overtaken.         *)
WaitsEnd ==
  /\ \A d \in Documents : d \in pending ~> d \notin pending
  /\ detailLoading ~> ~detailLoading
===============================================================================
