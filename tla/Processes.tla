------------------------------ MODULE Processes -------------------------------
(***************************************************************************)
(* The running workflow instances of WflService (apps/api/src/wfl/           *)
(* service.ts) over the documents of Vouchers.  An instance belongs to its   *)
(* root document and keeps the graph of the definition it was started with.  *)
(*                                                                           *)
(* A node action locks the row of its instance and reads the process         *)
(* (Begin...), then enters the voucher's write path, which waits for the     *)
(* control book.  What others do to the documents in between is seen by      *)
(* the second step only as far as that step looks again.  The reversal of a  *)
(* root document writes an audit row that refers to the instance, so it      *)
(* waits for a node action under way; each then waits for what the other     *)
(* holds, and the database ends one of them (GiveUp).                        *)
(*                                                                           *)
(* Left out: permissions, the conditions of a script (every edge may match), *)
(* OPEN_DOCUMENT, and the results a review of a node leaves, which nothing   *)
(* reads.                                                                    *)
(***************************************************************************)
EXTENDS Vouchers

CONSTANTS
  Definitions,   \* graphs: entity of each node key, root key, edges (a tree)
  Keys,          \* node keys
  NoKey,
  NoInstance,
  RequestKeys,   \* request keys the clients of create-child use
  NoRequest

ASSUME ProcessesAssumption ==
  /\ NoInstance \notin Definitions
  /\ NoKey \notin Keys
  /\ NoRequest \notin RequestKeys
  /\ \A g \in Definitions : /\ g.entity \in [Keys -> Entities]
                            /\ g.root \in Keys
                            /\ g.edges \subseteq Keys \X (Keys \ {g.root})

VARIABLES
  instance,   \* wfl_instances: the graph started for a root document
  node,       \* wfl_instance_nodes, by instance and the document it was made for
  result,     \* wfl_action_results of the edges, by instance, node and target key
  created,    \* wfl_runtime_audits CREATE_CHILD
  act         \* the node action under way in each instance

processVars == <<instance, node, result, created, act>>
vars == <<documents, entry, instance, node, result, created, act>>

NoNode   == [key |-> NoKey, parent |-> NoDocument, holds |-> FALSE]
NoResult == [request |-> NoRequest, target |-> NoDocument, active |-> FALSE]
NoAct    == [kind |-> "none", node |-> NoDocument, key |-> NoKey,
             request |-> NoRequest, stable |-> 0, revision |-> 0]

NodeRow   == [key    : Keys \cup {NoKey},
              parent : Documents \cup {NoDocument},
              holds  : BOOLEAN]
ResultRow == [request : RequestKeys \cup {NoRequest},
              target  : Documents \cup {NoDocument},
              active  : BOOLEAN]

NodeReview == {"approve", "reject", "unreject", "cancel"}

TypeOK ==
  /\ VouchersTypeOK
  /\ instance \in [Documents -> Definitions \cup {NoInstance}]
  /\ node \in [Documents -> [Documents -> NodeRow]]
  /\ result \in [Documents -> [Documents -> [Keys -> ResultRow]]]
  /\ created \subseteq [root : Documents, source : Documents, key : Keys,
                        request : RequestKeys, child : Documents]
  /\ act \in [Documents -> [kind     : NodeReview \cup {"create", "none"},
                            node     : Documents \cup {NoDocument},
                            key      : Keys \cup {NoKey},
                            request  : RequestKeys \cup {NoRequest},
                            stable   : Nat,
                            revision : Nat]]

Init ==
  /\ VouchersInit
  /\ instance = [r \in Documents |-> NoInstance]
  /\ node = [r \in Documents |-> [d \in Documents |-> NoNode]]
  /\ result = [r \in Documents |-> [d \in Documents |-> [k \in Keys |-> NoResult]]]
  /\ created = {}
  /\ act = [r \in Documents |-> NoAct]

-------------------------------------------------------------------------------
Started(r)     == instance[r] # NoInstance
Held(r, d)     == node[r][d].holds
HeldChild(r, d) == Held(r, d) /\ node[r][d].parent # NoDocument
Children(r, n, k) ==
  {c \in Documents : Held(r, c) /\ node[r][c].parent = n /\ node[r][c].key = k}

(* WflService.apply, approve: a document that has an instance keeps it,     *)
(* otherwise no definition or one matches (two refuse the approval).        *)
Start(d) ==
  IF Started(d) THEN UNCHANGED <<instance, node>>
  ELSE \/ UNCHANGED <<instance, node>>
       \/ \E g \in Definitions :
            /\ g.entity[g.root] = documents[d].entity
            /\ instance' = [instance EXCEPT ![d] = g]
            /\ node' = [node EXCEPT ![d][d] = [key |-> g.root, parent |-> NoDocument,
                                               holds |-> TRUE]]

(* What if nothing made the reversal wait for a node action?                *)
ReverseUnwaited(d) ==
  IF ~ Started(d) THEN UNCHANGED result
  ELSE /\ \A c \in Documents : ~ HeldChild(d, c)
       /\ result' = [result EXCEPT ![d] = [n \in Documents |-> [k \in Keys |->
                       [result[d][n][k] EXCEPT !.active = FALSE]]]]

(* WflService.apply, unapprove: only the root's own instance counts.        *)
Reverse(d) ==
  IF ~ Started(d) THEN UNCHANGED result
  ELSE /\ act[d] = NoAct
       /\ \A c \in Documents : ~ HeldChild(d, c)
       /\ result' = [result EXCEPT ![d] = [n \in Documents |-> [k \in Keys |->
                       [result[d][n][k] EXCEPT !.active = FALSE]]]]

(* What the voucher's review does to the processes.                         *)
Effects(d, action) ==
  /\ IF action = "approve"   THEN Start(d)   ELSE UNCHANGED <<instance, node>>
  /\ IF action = "unapprove" THEN Reverse(d) ELSE UNCHANGED result

-------------------------------------------------------------------------------
(* The routes of the vouchers themselves.                                   *)
SubmitVoucher ==
  \E d \in Documents, e \in Entities, p \in Documents \cup {NoDocument},
     ls \in SUBSET Documents :
    /\ Submit(d, e, p, ls, FALSE)
    /\ UNCHANGED processVars

ReviewVoucher ==
  \E d \in Documents, action \in Rules!ApprovalAction :
    /\ Review(d, action)
    /\ Effects(d, action)
    /\ UNCHANGED <<created, act>>

DeleteVoucher ==
  \E d \in Documents : Delete(d) /\ UNCHANGED processVars

-------------------------------------------------------------------------------
(* executeNodeAction up to the call of the voucher: the instance is locked, *)
(* the process read, the action available in what was read.                 *)
Idle(r) == Started(r) /\ act[r] = NoAct

(* A free position below an approved node.                                  *)
BeginCreate(r) ==
  \E n \in Documents, k \in Keys, q \in RequestKeys :
    /\ Idle(r)
    /\ Held(r, n) /\ Approved(n)
    /\ <<node[r][n].key, k>> \in instance[r].edges
    /\ ~ result[r][n][k].active
    /\ act' = [act EXCEPT ![r] = [NoAct EXCEPT !.kind = "create", !.node = n,
                                               !.key = k, !.request = q]]
    /\ UNCHANGED <<documents, entry, instance, node, result, created>>

(* availableActions of a child node, and the revision the client saw.       *)
BeginReview(r) ==
  \E c \in Documents, kind \in NodeReview :
    /\ Idle(r)
    /\ HeldChild(r, c)
    /\ \/ entry[c].status = "PENDING"  /\ kind \in {"approve", "reject", "cancel"}
       \/ entry[c].status = "REJECTED" /\ kind \in {"unreject", "cancel"}
    /\ act' = [act EXCEPT ![r] = [NoAct EXCEPT !.kind = kind, !.node = c,
                                               !.stable = documents[c].stable,
                                               !.revision = entry[c].revision]]
    /\ UNCHANGED <<documents, entry, instance, node, result, created>>

Done(r) == act' = [act EXCEPT ![r] = NoAct]

(* What if a consumed request key were forgotten with its result?           *)
KeyAlwaysFree(r, n, k, q) == TRUE

(* createChild: the key is looked up once the position has a row.           *)
KeyFree(r, n, k, q) ==
  result[r][n][k].request # NoRequest =>
    \A c \in created : ~ (c.root = r /\ c.request = q)

CreateChild(r) ==
  LET n == act[r].node
      k == act[r].key
      q == act[r].request IN
  \E d \in Documents :
    /\ act[r].kind = "create"
    /\ KeyFree(r, n, k, q)
    /\ documents[d].entity = "none"
    /\ Submit(d, instance[r].entity[k], n, {}, TRUE)
    /\ node' = [node EXCEPT ![r][d] = [key |-> k, parent |-> n, holds |-> TRUE]]
    /\ result' = [result EXCEPT ![r][n][k] = [request |-> q, target |-> d, active |-> TRUE]]
    /\ created' = created \cup {[root |-> r, source |-> n, key |-> k,
                                 request |-> q, child |-> d]}
    /\ Done(r)
    /\ UNCHANGED instance

(* The document is still in the submission and revision that was read.      *)
SameRevision(r, c) ==
  Live(c) /\ documents[c].stable = act[r].stable /\ entry[c].revision = act[r].revision

ReviewChild(r) ==
  LET c == act[r].node IN
  /\ act[r].kind \in NodeReview \ {"cancel"}
  /\ SameRevision(r, c)
  /\ Review(c, act[r].kind)
  /\ Effects(c, act[r].kind)
  /\ Done(r)
  /\ UNCHANGED created

(* What if the cancellation kept the node's document?                       *)
CancelChildKeepingNode(r) ==
  LET c == act[r].node IN
  /\ act[r].kind = "cancel"
  /\ SameRevision(r, c)
  /\ Delete(c)
  /\ result' = [x \in Documents |-> [n \in Documents |-> [k \in Keys |->
                  IF result[x][n][k].target = c
                  THEN [result[x][n][k] EXCEPT !.active = FALSE, !.target = NoDocument]
                  ELSE result[x][n][k]]]]
  /\ Done(r)
  /\ UNCHANGED <<instance, node, created>>

(* CANCEL_CHILD: results that point at the document are switched off, the   *)
(* node lets go of it, then it is deleted like any other.                   *)
CancelChild(r) ==
  LET c == act[r].node IN
  /\ act[r].kind = "cancel"
  /\ SameRevision(r, c)
  /\ Delete(c)
  /\ result' = [x \in Documents |-> [n \in Documents |-> [k \in Keys |->
                  IF result[x][n][k].target = c
                  THEN [result[x][n][k] EXCEPT !.active = FALSE, !.target = NoDocument]
                  ELSE result[x][n][k]]]]
  /\ node' = [node EXCEPT ![r][c].holds = FALSE]
  /\ Done(r)
  /\ UNCHANGED <<instance, created>>

(* Any refusal after the process was read, and the loser of a deadlock.     *)
GiveUp(r) ==
  /\ act[r] # NoAct
  /\ Done(r)
  /\ UNCHANGED <<documents, entry, instance, node, result, created>>

Next ==
  \/ SubmitVoucher
  \/ ReviewVoucher
  \/ DeleteVoucher
  \/ \E r \in Documents : \/ BeginCreate(r)
                          \/ BeginReview(r)
                          \/ CreateChild(r)
                          \/ ReviewChild(r)
                          \/ CancelChild(r)
                          \/ GiveUp(r)

Spec == Init /\ [][Next]_vars

-------------------------------------------------------------------------------
(* wfl.md 4: one instance, source node and script position keep one valid   *)
(* result.  The tables of results and of nodes agree: a position with an    *)
(* active result has the one child the result names, any other has none.    *)
OneChildPerPosition ==
  \A r, n \in Documents, k \in Keys :
    Started(r) =>
      Children(r, n, k) = IF result[r][n][k].active THEN {result[r][n][k].target} ELSE {}

(* wfl/service.ts 974-985: a root that is not approved has no children in   *)
(* its process, also when the reversal meets a creation half way.           *)
OpenRootHoldsNothing ==
  \A r \in Documents : Started(r) /\ ~ Approved(r) =>
    \A c \in Documents : ~ HeldChild(r, c)

(* wfl.md 4: once the old result is deleted the old key does not rebuild    *)
(* it: at one position a request key has made one child at most.            *)
RequestBuildsOnce ==
  \A a, b \in created :
    a.root = b.root /\ a.source = b.source /\ a.key = b.key /\ a.request = b.request
    => a = b

(* wfl.md 4: a result that was deleted can be built again at its position;  *)
(* so a result that bars the position stands for a document that is there.  *)
ActiveResultStands ==
  \A r, n \in Documents, k \in Keys :
    result[r][n][k].active => Live(result[r][n][k].target)

===============================================================================
