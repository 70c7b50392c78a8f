------------------------------ MODULE WorkBoard ------------------------------
(***************************************************************************)
(* The work board of a project (projects.service.ts): work items, their     *)
(* assignments, runs and reviews, with the default status flow.  A handler  *)
(* is a call whose steps are its awaited statements; between two of them    *)
(* other handlers write the same rows.  ProjectBoard adds the goals.        *)
(***************************************************************************)
EXTENDS Integers, FiniteSets

CONSTANTS Items, Runs, Goals, NoGoal, NoItem,
          MaxAsg,        \* bound: assignments ever placed, numbered in the order of creation
          MaxReviews,    \* bound: reviews ever written
          MaxOpen,       \* max_active_items of the project
          Calls,         \* bound: handlers under way at a time
          ByHand,        \* bound: the statuses people and agents set directly
          ReviewRouted   \* the template routes feedback items to a reviewer

ASSUME BoardAssumption ==
  /\ NoGoal \notin Goals /\ NoItem \notin Items /\ IsFiniteSet(Items) /\ IsFiniteSet(Goals)
  /\ MaxAsg \in Nat /\ MaxReviews \in Nat /\ MaxOpen \in Nat
  /\ ReviewRouted \in BOOLEAN

VARIABLES item,     \* project_work_items: status, goal, the goal of its feature (under), created by a
                    \* runtime under an identity (auto)
          asg,      \* project_assignments
          run,      \* project_runs
          review,   \* project_reviews
          call,     \* the handlers under way
          alone     \* history: nobody else wrote since this handler began

boardVars == <<item, asg, run, review, call, alone>>
--------------------------------------------------------------------------------
(***************************************************************************)
(* The default status flow.                                                *)
(***************************************************************************)
Initial == "READY"
Active == "ASSIGNED"
Handoff == "IN_REVIEW"
Revision == "NEEDS_REVISION"
Closed == "REJECTED"
Claimable == {"DRAFT", "READY", "NEEDS_REVISION"}
Completed == {"ACCEPTED", "DONE"}
Terminal == Completed \cup {"REJECTED", "CANCELLED", "CLOSED"}
Statuses == Claimable \cup {"ASSIGNED", "IN_PROGRESS", "IN_REVIEW"} \cup Terminal
ASSUME ByHandAssumption == ByHand \subseteq Statuses

\* Where a review's verdict, and a run's new status, puts the item.
Verdicts == {"APPROVED", "CHANGES_REQUESTED", "REJECTED"}
ByVerdict == [APPROVED |-> "ACCEPTED", CHANGES_REQUESTED |-> Revision, REJECTED |-> Closed]
\* Mutant.
ByRunItself == [QUEUED |-> Active, RUNNING |-> Active, SUCCEEDED |-> "SUCCEEDED", FAILED |-> "FAILED"]
ByRun == [QUEUED |-> Active, RUNNING |-> Active, SUCCEEDED |-> Handoff, FAILED |-> Revision]

AsgStatuses == {"PROPOSED", "ACTIVE", "PAUSED", "COMPLETED", "RELEASED", "FAILED"}
RunStatuses == {"QUEUED", "RUNNING", "SUCCEEDED", "FAILED", "CANCELLED"}
Roles == {"WORKER", "REVIEW"}
Asgs == 1 .. MaxAsg
Open == {"PROPOSED", "ACTIVE", "PAUSED"}
Unfinished == {"QUEUED", "RUNNING"}

Exists(i) == item[i].st # "none"
Placed == {a \in Asgs : asg[a].st # "none"}
OpenOn(i) == {a \in Asgs : asg[a].item = i /\ asg[a].st \in Open}
OpenItems == {i \in Items : item[i].st \notin Terminal \cup {"none"}}
\* The open assignments under an item that is over.
StaleOpen == {a \in Asgs : asg[a].st \in Open /\ item[asg[a].item].st \in Terminal}

\* A reviewer's assignment never moves the item; a completion leaves an item its worker
\* put back into the queue where it is.
AsgMoves(role, st) == (role # "REVIEW" /\ st \in {"ACTIVE", "COMPLETED"}) \/ st = "FAILED"
Target(st, current) ==
  CASE st = "ACTIVE" -> Active
    [] st = "COMPLETED" -> IF current \in Claimable \ {Initial, Revision} THEN current ELSE Handoff
    [] OTHER -> Revision
--------------------------------------------------------------------------------
(***************************************************************************)
(* Handlers.  op is the operation, step the next statement; asg and to an   *)
(* assignment and the status it gets, role that of one to be placed or of   *)
(* the runtime that asks, put the status the item gets, todo what a loop    *)
(* has read; goal and auto belong to an item to be created.                 *)
(***************************************************************************)
Idle == [op |-> "none", step |-> "none", item |-> NoItem, asg |-> 0, to |-> "none",
         role |-> "WORKER", put |-> "none", todo |-> {}, goal |-> NoGoal, auto |-> FALSE]

Begins(c, h) == /\ call[c] = Idle
                /\ call' = [call EXCEPT ![c] = h]
                /\ alone' = [alone EXCEPT ![c] = TRUE]
Goes(c, h) == call' = [call EXCEPT ![c] = h]
Is(c, s) == call[c].step = s
\* Every other handler has been overtaken.
Writes(c) == alone' = [d \in Calls |-> d = c /\ alone[c]]
Unseen == UNCHANGED alone

\* What follows updateAssignment, or one round of the reconciliation, in its caller.
After(h) == CASE h.op = "dispatch" -> [h EXCEPT !.step = "place"]
              [] h.op = "reconcile" /\ h.todo # {} -> [h EXCEPT !.step = "inspect"]
              [] OTHER -> Idle
--------------------------------------------------------------------------------
(***************************************************************************)
(* Work items.                                                             *)
(***************************************************************************)
\* createWorkItemInternal looks for an unfinished item of the same identity (then there is
\* nothing to do), counts the open items, and inserts.
CreateStart(c, g, auto, st) ==
  /\ auto => /\ g # NoGoal
             /\ ~ \E i \in OpenItems : item[i].auto /\ item[i].goal = g
  /\ Begins(c, [Idle EXCEPT !.op = "create", !.goal = g, !.auto = auto, !.put = st,
                            !.step = IF st \in Terminal THEN "insert" ELSE "capacity"])
  /\ UNCHANGED <<item, asg, run, review>>

\* Mutant.
CreateCountsTooFew(c) ==
  /\ Is(c, "capacity")
  /\ Goes(c, IF Cardinality(OpenItems) > MaxOpen THEN Idle
             ELSE [call[c] EXCEPT !.step = "insert"])
  /\ Unseen /\ UNCHANGED <<item, asg, run, review>>
CreateCapacity(c) ==
  /\ Is(c, "capacity")
  /\ Goes(c, IF Cardinality(OpenItems) >= MaxOpen THEN Idle
             ELSE [call[c] EXCEPT !.step = "insert"])
  /\ Unseen /\ UNCHANGED <<item, asg, run, review>>

\* Without a goal of its own an item takes that of its feature.
CreateInsert(c, i, under) ==
  /\ Is(c, "insert") /\ ~ Exists(i)
  /\ call[c].goal = NoGoal => under = NoGoal
  /\ item' = [item EXCEPT ![i] = [st |-> call[c].put, goal |-> call[c].goal, under |-> under,
                                  auto |-> call[c].auto]]
  /\ Goes(c, Idle) /\ Writes(c) /\ UNCHANGED <<asg, run, review>>

\* updateWorkItem: what it read before only describes the event it records.
OwnerSets(i, st) ==
  /\ Exists(i) /\ st # item[i].st
  /\ item' = [item EXCEPT ![i].st = st]
  /\ alone' = [d \in Calls |-> FALSE]
  /\ UNCHANGED <<asg, run, review, call>>

\* Mutant.
NeedsReviewInReview(i, v) ==
  /\ ReviewRouted /\ item[i].st = Handoff
  /\ ~ \E r \in review : r.item = i /\ r.verdict = v
\* A status that is a verdict needs the review that says so, if the item has a reviewer or
\* its status is routed to one.
NeedsReview(i, v) ==
  /\ \/ \E a \in Asgs : asg[a].item = i /\ asg[a].role = "REVIEW"
     \/ ReviewRouted /\ item[i].st = Handoff
  /\ ~ \E r \in review : r.item = i /\ r.verdict = v
\* updateWorkItemFromRuntime asks for that review only if the status is all the agent sends:
\* an edit of further fields takes the status along unasked.  The workspace service writes.
RuntimeSets(c, i, st, statusOnly) ==
  /\ Exists(i)
  /\ statusOnly => \A v \in Verdicts : ByVerdict[v] = st => ~ NeedsReview(i, v)
  /\ Begins(c, [Idle EXCEPT !.op = IF statusOnly THEN "runtime" ELSE "edit",
                            !.item = i, !.put = st, !.step = "setItem"])
  /\ UNCHANGED <<item, asg, run, review>>
--------------------------------------------------------------------------------
(***************************************************************************)
(* Assignments.                                                            *)
(***************************************************************************)
\* The workspace service inserts the assignment; the item moves when it becomes active.
Place(i, role) ==
  LET a == Cardinality(Placed) + 1 IN
  /\ a \in Asgs
  /\ asg' = [asg EXCEPT ![a] = [item |-> i, role |-> role, st |-> "PROPOSED"]]

\* createAssignment by a manager, who may place as many as he likes.
ManagerAssigns(i, role) ==
  /\ Exists(i) /\ Place(i, role)
  /\ alone' = [d \in Calls |-> FALSE]
  /\ UNCHANGED <<item, run, review, call>>

\* claimWorkItemFromRuntime: one read, then the insert.
ClaimStart(c, i) ==
  /\ item[i].st \in Claimable /\ OpenOn(i) = {}
  /\ Begins(c, [Idle EXCEPT !.op = "claim", !.item = i, !.step = "placeOne"])
  /\ UNCHANGED <<item, asg, run, review>>
ClaimPlace(c) ==
  /\ Is(c, "placeOne") /\ Place(call[c].item, call[c].role)
  /\ Goes(c, Idle) /\ Writes(c) /\ UNCHANGED <<item, run, review>>

\* updateAssignment by a manager, or by the assignee's runtime (a lead may fail any).  A
\* runtime that is a reviewer, whatever the assignment, completes only what it reviewed.
UpdateAssignment(c, a, st, role) ==
  /\ a \in Placed /\ st # asg[a].st
  /\ role \in Roles => st \in {"ACTIVE", "PAUSED", "COMPLETED", "FAILED"}
  /\ role = "REVIEW" /\ st = "COMPLETED" => \E r \in review : r.asg = a
  /\ Begins(c, [Idle EXCEPT !.op = IF role \in Roles THEN "assignment" ELSE "manager",
                            !.role = IF role \in Roles THEN role ELSE @,
                            !.asg = a, !.item = asg[a].item, !.to = st, !.step = "write"])
  /\ UNCHANGED <<item, asg, run, review>>

AssignmentWrite(c) ==
  LET h == call[c] IN
  /\ Is(c, "write")
  /\ asg' = [asg EXCEPT ![h.asg].st = h.to]
  /\ Goes(c, IF ~ AsgMoves(asg[h.asg].role, h.to) THEN After(h)
             ELSE [h EXCEPT !.step = IF h.to = "FAILED" THEN "countOpen" ELSE "fetch"])
  /\ Writes(c) /\ UNCHANGED <<item, run, review>>

\* Who fails an assignment looks whether another is open.  Only updateAssignment then looks
\* at the item again.
\* Mutant.
CountNothing(c) ==
  LET h == call[c] IN
  /\ Is(c, "countOpen")
  /\ Goes(c, IF h.op \in {"reconcile", "message"}
             THEN [h EXCEPT !.step = "setItem", !.put = Revision]
             ELSE [h EXCEPT !.step = "fetch"])
  /\ Unseen /\ UNCHANGED <<item, asg, run, review>>
CountOpen(c) ==
  LET h == call[c] IN
  /\ Is(c, "countOpen")
  /\ Goes(c, IF OpenOn(h.item) # {} THEN After(h)
             ELSE IF h.op \in {"reconcile", "message"}
             THEN [h EXCEPT !.step = "setItem", !.put = Revision]
             ELSE [h EXCEPT !.step = "fetch"])
  /\ Unseen /\ UNCHANGED <<item, asg, run, review>>

\* Mutant.
FetchUnchecked(c) ==
  LET h == call[c] IN
  /\ Is(c, "fetch")
  /\ Goes(c, [h EXCEPT !.step = "setItem", !.put = Target(h.to, item[h.item].st)])
  /\ Unseen /\ UNCHANGED <<item, asg, run, review>>
Fetch(c) ==
  LET h == call[c] IN
  /\ Is(c, "fetch")
  /\ Goes(c, IF item[h.item].st \in Terminal THEN After(h)
             ELSE [h EXCEPT !.step = "setItem", !.put = Target(h.to, item[h.item].st)])
  /\ Unseen /\ UNCHANGED <<item, asg, run, review>>

\* The last statement of every handler that moves an item.
SetItem(c) ==
  LET h == call[c] IN
  /\ Is(c, "setItem")
  /\ item' = [item EXCEPT ![h.item].st = h.put]
  /\ Goes(c, After(h)) /\ Writes(c) /\ UNCHANGED <<asg, run, review>>

\* failAssignmentForRuntimeMessageRefs: the message behind an assignment failed.
MessageFails(c, a) ==
  /\ asg[a].st \in Open
  /\ Begins(c, [Idle EXCEPT !.op = "message", !.asg = a, !.item = asg[a].item,
                            !.to = "FAILED", !.step = "write"])
  /\ UNCHANGED <<item, asg, run, review>>
--------------------------------------------------------------------------------
(***************************************************************************)
(* Dispatch by a lead agent.                                               *)
(***************************************************************************)
DispatchStart(c, i, role) ==
  /\ Exists(i)
  /\ Begins(c, [Idle EXCEPT !.op = "dispatch", !.item = i, !.role = role,
                            !.step = IF item[i].st \in Terminal THEN "findOpen" ELSE "existing"])
  /\ UNCHANGED <<item, asg, run, review>>

\* markOpenAssignmentsFailedForTerminalWorkItem
DispatchFindOpen(c) ==
  LET h == call[c]
      found == {a \in OpenOn(h.item) : asg[a].role = h.role} IN
  /\ Is(c, "findOpen")
  /\ Goes(c, IF found = {} THEN Idle
             ELSE [h EXCEPT !.step = "mark", !.todo = {[asg |-> a, over |-> TRUE] : a \in found}])
  /\ Unseen /\ UNCHANGED <<item, asg, run, review>>
DispatchMark(c, t) ==
  LET h == call[c] IN
  /\ Is(c, "mark") /\ t \in h.todo
  /\ asg' = [asg EXCEPT ![t.asg].st = "FAILED"]
  /\ Goes(c, IF h.todo = {t} THEN Idle ELSE [h EXCEPT !.todo = @ \ {t}])
  /\ Writes(c) /\ UNCHANGED <<item, run, review>>

\* The latest assignment of the role that is open or completed answers the call if its
\* agent is there, or if a new agent was asked for; otherwise it is failed and replaced.
DispatchExisting(c) ==
  LET h == call[c]
      mine == {a \in Asgs : /\ asg[a].item = h.item /\ asg[a].role = h.role
                            /\ asg[a].st \in Open \cup {"COMPLETED"}} IN
  /\ Is(c, "existing")
  /\ IF mine = {} THEN Goes(c, [h EXCEPT !.step = "place"])
     ELSE \/ Goes(c, Idle)
          \/ Goes(c, [h EXCEPT !.step = "write", !.to = "FAILED",
                               !.asg = CHOOSE a \in mine : \A b \in mine : b <= a])
  /\ Unseen /\ UNCHANGED <<item, asg, run, review>>

\* Capacity, an assignee or a launch may be missing; otherwise the assignment is placed,
\* maybe minutes after the item was looked at, and its agent is woken.  When the project's
\* agents or models are used up the owner gets an item of his own.
DispatchPlace(c) ==
  LET h == call[c] IN
  /\ Is(c, "place")
  /\ \/ /\ Goes(c, Idle) /\ Unseen /\ UNCHANGED asg
     \/ /\ Goes(c, [Idle EXCEPT !.op = "create", !.put = Initial, !.step = "capacity"])
        /\ Unseen /\ UNCHANGED asg
     \/ /\ Place(h.item, h.role)
        /\ Goes(c, [h EXCEPT !.step = "wake", !.asg = Cardinality(Placed) + 1])
        /\ Writes(c)
  /\ UNCHANGED <<item, run, review>>
DispatchWake(c) ==
  /\ Is(c, "wake")
  /\ \/ Goes(c, Idle)
     \/ Goes(c, [call[c] EXCEPT !.step = "write", !.to = "FAILED"])
  /\ Unseen /\ UNCHANGED <<item, asg, run, review>>
--------------------------------------------------------------------------------
(***************************************************************************)
(* Runs and reviews: a row of their own, then the item, whatever its status.*)
(***************************************************************************)
CreateRun(c, r, i) ==
  /\ run[r].st = "none" /\ Exists(i)
  /\ run' = [run EXCEPT ![r] = [item |-> i, st |-> "QUEUED"]]
  /\ call[c] = Idle
  /\ Goes(c, [Idle EXCEPT !.op = "run", !.item = i, !.put = Active, !.step = "setItem"])
  /\ alone' = [d \in Calls |-> d = c] /\ UNCHANGED <<item, asg, review>>

UpdateRun(c, r, st) ==
  /\ run[r].st # "none" /\ st # run[r].st
  /\ run' = [run EXCEPT ![r].st = st]
  /\ call[c] = Idle
  /\ Goes(c, IF st \notin {"RUNNING", "SUCCEEDED", "FAILED"} THEN Idle
             ELSE [Idle EXCEPT !.op = "run", !.item = run[r].item, !.put = ByRun[st],
                               !.step = "setItem"])
  /\ alone' = [d \in Calls |-> d = c] /\ UNCHANGED <<item, asg, review>>

CreateReview(c, i, a, v) ==
  /\ Exists(i) /\ Cardinality(review) < MaxReviews
  /\ a # 0 => asg[a].item = i
  /\ review' = review \cup {[item |-> i, asg |-> a, verdict |-> v]}
  /\ call[c] = Idle
  /\ Goes(c, [Idle EXCEPT !.op = "review", !.item = i, !.put = ByVerdict[v], !.step = "setItem"])
  /\ alone' = [d \in Calls |-> d = c] /\ UNCHANGED <<item, asg, run>>
--------------------------------------------------------------------------------
(***************************************************************************)
(* reconcileStaleOpenAssignments, called when the runtimes are listed, by   *)
(* the polling sweep and by every coordinator tick: one query, then a loop. *)
(* An assignment is stale if its item is over or its agent is gone or idle. *)
(***************************************************************************)
\* Mutant.
ReconcileOnlyDead(c) ==
  LET found == {a \in Asgs : asg[a].st \in Open} IN
  /\ found # {}
  /\ Begins(c, [Idle EXCEPT !.op = "reconcile", !.step = "inspect",
                            !.todo = {[asg |-> a, over |-> FALSE] : a \in found}])
  /\ UNCHANGED <<item, asg, run, review>>
ReconcileStart(c) ==
  LET found == {a \in Asgs : asg[a].st \in Open} IN
  /\ found # {}
  /\ Begins(c, [Idle EXCEPT !.op = "reconcile", !.step = "inspect",
                            !.todo = {[asg |-> a, over |-> a \in StaleOpen] : a \in found}])
  /\ UNCHANGED <<item, asg, run, review>>

\* The agent behind t is there and busy.
ReconcileSkips(c, t) ==
  LET h == call[c] IN
  /\ Is(c, "inspect") /\ t \in h.todo /\ ~ t.over
  /\ Goes(c, After([h EXCEPT !.todo = @ \ {t}]))
  /\ Unseen /\ UNCHANGED <<item, asg, run, review>>
ReconcileFails(c, t) ==
  LET h == [call[c] EXCEPT !.todo = @ \ {t}] IN
  /\ Is(c, "inspect") /\ t \in call[c].todo
  /\ asg' = [asg EXCEPT ![t.asg].st = "FAILED"]
  /\ Goes(c, IF t.over THEN After(h)
             ELSE [h EXCEPT !.step = "countOpen", !.item = asg[t.asg].item])
  /\ Writes(c) /\ UNCHANGED <<item, run, review>>
--------------------------------------------------------------------------------
\* A statement throws, or the answer is lost.  dispatch catches a failed updateAssignment,
\* the reconciliation a failed update of the item; every other handler ends.
StatementFails(c) ==
  LET h == call[c] IN
  /\ h # Idle
  /\ Goes(c, CASE h.op = "dispatch" /\ h.step \in {"write", "countOpen", "fetch", "setItem"} -> After(h)
               [] h.op = "reconcile" /\ h.step = "setItem" -> After(h)
               [] OTHER -> Idle)
  /\ Unseen /\ UNCHANGED <<item, asg, run, review>>

BoardInit ==
  /\ item = [i \in Items |-> [st |-> "none", goal |-> NoGoal, under |-> NoGoal, auto |-> FALSE]]
  /\ asg = [a \in Asgs |-> [item |-> NoItem, role |-> "WORKER", st |-> "none"]]
  /\ run = [r \in Runs |-> [item |-> NoItem, st |-> "none"]]
  /\ review = {}
  /\ call = [c \in Calls |-> Idle]
  /\ alone = [c \in Calls |-> FALSE]

\* The handlers' first statements, the ones after, and the handlers of one statement;
\* ReconcileStart and StatementFails come to these.
Starts(c) ==
  \/ \E g \in Goals \cup {NoGoal}, auto \in BOOLEAN, st \in {Initial, "DRAFT", Closed} \cap (ByHand \cup {Initial}) :
       CreateStart(c, g, auto, st)
  \/ \E i \in Items :
       \/ \E st \in ByHand, statusOnly \in BOOLEAN : RuntimeSets(c, i, st, statusOnly)
       \/ ClaimStart(c, i)
       \/ \E role \in Roles : DispatchStart(c, i, role)
       \/ \E a \in Asgs \cup {0}, v \in Verdicts : CreateReview(c, i, a, v)
       \/ \E r \in Runs : CreateRun(c, r, i)
  \/ \E a \in Asgs :
       \/ \E st \in AsgStatuses, role \in Roles \cup {"manager"} : UpdateAssignment(c, a, st, role)
       \/ MessageFails(c, a)
  \/ \E r \in Runs, st \in RunStatuses : UpdateRun(c, r, st)
Continues(c) ==
  \/ CreateCapacity(c) \/ \E i \in Items, under \in Goals \cup {NoGoal} : CreateInsert(c, i, under)
  \/ ClaimPlace(c)
  \/ AssignmentWrite(c) \/ CountOpen(c) \/ Fetch(c) \/ SetItem(c)
  \/ DispatchFindOpen(c) \/ DispatchExisting(c) \/ DispatchPlace(c) \/ DispatchWake(c)
  \/ \E t \in call[c].todo : DispatchMark(c, t) \/ ReconcileSkips(c, t) \/ ReconcileFails(c, t)
Direct ==
  \E i \in Items :
    \/ \E st \in ByHand : OwnerSets(i, st)
    \/ \E role \in Roles : ManagerAssigns(i, role)
=============================================================================
