----------------------------- MODULE ProjectBoard -----------------------------
(***************************************************************************)
(* The work board with the goals it serves.  A goal that ends takes its     *)
(* unfinished work with it in one transaction, whose reads are those of the *)
(* snapshot taken with its first query.                                    *)
(***************************************************************************)
EXTENDS WorkBoard

CONSTANTS MaxGoals,     \* maxActiveGoals of the project
          MaxRequests   \* bound: requests ever made, reconciliations not counted

ASSUME GoalAssumption == MaxGoals \in Nat /\ MaxRequests \in Nat

VARIABLES goal,         \* project_goals
          cascade,      \* what a closing transaction has read
          requests      \* requests made so far

vars == <<boardVars, goal, cascade, requests>>

GoalStatuses == {"OPEN", "IN_PROGRESS", "BLOCKED", "DONE", "CANCELLED"}
ActiveStatuses == {"IN_PROGRESS", "BLOCKED"}
ActiveGoals == {g \in Goals : goal[g] \in ActiveStatuses}
Nothing == [to |-> "none", goal |-> NoGoal, items |-> {}, asgs |-> {}, runs |-> {}]
ItemsOf(g) == {i \in Items : Exists(i) /\ item[i].goal = g}
\* What the runtimes' updates of a goal count; items under its features do not count.
OpenWork(g) == ItemsOf(g) \cap OpenItems

BoardOnly == UNCHANGED boardVars
Tables == <<item, asg, run, review>>
--------------------------------------------------------------------------------
CreateGoal(g) ==
  /\ goal[g] = "none" /\ goal' = [goal EXCEPT ![g] = "OPEN"]
  /\ alone' = [d \in Calls |-> FALSE] /\ UNCHANGED <<Tables, call, cascade>>

\* updateGoal and updateGoalFromRuntime with an active status: a goal that is not active yet
\* needs room, then it is written whatever it is by then.
StartGoal(c, g, st) ==
  /\ goal[g] # "none" /\ st \in ActiveStatuses
  /\ goal[g] \notin ActiveStatuses => Cardinality(ActiveGoals) < MaxGoals
  /\ Begins(c, [Idle EXCEPT !.op = "goal", !.goal = g, !.to = st, !.step = "setGoal"])
  /\ UNCHANGED <<Tables, goal, cascade>>

\* Back to OPEN, which nothing limits.
ParkGoal(g) ==
  /\ goal[g] \notin {"none", "OPEN"} /\ goal' = [goal EXCEPT ![g] = "OPEN"]
  /\ alone' = [d \in Calls |-> FALSE] /\ UNCHANGED <<Tables, call, cascade>>

\* updateGoalFromRuntime with DONE: an agent may not end a goal with work left.
FinishGoal(c, g) ==
  /\ goal[g] # "none" /\ OpenWork(g) = {}
  /\ Begins(c, [Idle EXCEPT !.op = "goal", !.goal = g, !.to = "DONE", !.step = "setGoal"])
  /\ UNCHANGED <<Tables, goal, cascade>>

SetGoal(c) ==
  /\ Is(c, "setGoal")
  /\ goal[call[c].goal] # "none"
  /\ goal' = [goal EXCEPT ![call[c].goal] = call[c].to]
  /\ Goes(c, Idle) /\ Writes(c) /\ UNCHANGED <<Tables, cascade>>

\* What goes with goal g when it becomes st, with the items linked to it by a feature that is
\* not over: an owner's DONE and a deletion take what is not terminal, a close what is not
\* completed.
Affected(g, st, linked) ==
  {i \in ItemsOf(g) \cup linked : item[i].st \notin IF st = "CANCELLED" THEN Completed ELSE Terminal}

\* updateGoal with DONE, closeGoal, deleteGoal: the snapshot ...  A close and a deletion may
\* ask for no cascade.
CloseSnapshot(c, g, st, cascading, linked) ==
  LET items == IF cascading THEN Affected(g, st, linked) ELSE {} IN
  /\ linked \subseteq {i \in Items : Exists(i) /\ item[i].under = g}
  /\ goal[g] # "none"
  /\ st = "CANCELLED" => goal[g] \notin {"DONE", "CANCELLED"}
  /\ st = "DONE" => cascading
  /\ Begins(c, [Idle EXCEPT !.op = "close", !.goal = g, !.auto = cascading, !.step = "commit"])
  /\ cascade' = [cascade EXCEPT ![c] =
       [to |-> st, goal |-> g, items |-> items,
        asgs |-> {a \in Asgs : asg[a].item \in items /\ asg[a].st \in Open},
        runs |-> {r \in Runs : run[r].item \in items /\ run[r].st \in Unfinished}]]
  /\ UNCHANGED <<Tables, goal>>

\* Mutant.
CommitKeepsRuns(c) ==
  LET k == cascade[c] IN
  /\ Is(c, "commit") /\ goal[k.goal] # "none"
  /\ goal' = [goal EXCEPT ![k.goal] = k.to]
  /\ item' = [i \in Items |->
       [item[i] EXCEPT !.st = IF i \in k.items THEN Closed ELSE @,
                       !.goal = IF k.to = "none" /\ @ = k.goal THEN NoGoal ELSE @,
                       !.under = IF k.to = "none" /\ @ = k.goal THEN NoGoal ELSE @]]
  /\ asg' = [a \in Asgs |-> [asg[a] EXCEPT !.st = IF a \in k.asgs THEN "RELEASED" ELSE @]]
  /\ cascade' = [cascade EXCEPT ![c] = Nothing]
  /\ Goes(c, Idle) /\ Writes(c) /\ UNCHANGED <<review, run>>
\* ... and the commit.  A deletion detaches every item and feature the goal has by then.
CloseCommit(c) ==
  LET k == cascade[c] IN
  /\ Is(c, "commit") /\ goal[k.goal] # "none"
  /\ goal' = [goal EXCEPT ![k.goal] = k.to]
  /\ item' = [i \in Items |->
       [item[i] EXCEPT !.st = IF i \in k.items THEN Closed ELSE @,
                       !.goal = IF k.to = "none" /\ @ = k.goal THEN NoGoal ELSE @,
                       !.under = IF k.to = "none" /\ @ = k.goal THEN NoGoal ELSE @]]
  /\ asg' = [a \in Asgs |-> [asg[a] EXCEPT !.st = IF a \in k.asgs THEN "RELEASED" ELSE @]]
  /\ run' = [r \in Runs |-> [run[r] EXCEPT !.st = IF r \in k.runs THEN "CANCELLED" ELSE @]]
  /\ cascade' = [cascade EXCEPT ![c] = Nothing]
  /\ Goes(c, Idle) /\ Writes(c) /\ UNCHANGED review
--------------------------------------------------------------------------------
Init == /\ BoardInit /\ goal = [g \in Goals |-> "none"]
        /\ cascade = [c \in Calls |-> Nothing] /\ requests = 0

GoalRequest(g) ==
  \/ CreateGoal(g) \/ ParkGoal(g)
  \/ \E c \in Calls :
       \/ \E st \in ActiveStatuses : StartGoal(c, g, st)
       \/ FinishGoal(c, g)
       \/ \E st \in {"DONE", "CANCELLED", "none"}, cascading \in BOOLEAN, linked \in SUBSET Items :
            CloseSnapshot(c, g, st, cascading, linked)
\* The board's handlers refer to goals that exist: they look before they begin, and the
\* foreign key of an item holds at its insert.
OnBoard(A) ==
  /\ A /\ UNCHANGED goal
  /\ \A i \in Items, g \in Goals : g \in {item'[i].goal, item'[i].under} => goal[g] # "none"
  /\ \A c \in Calls : call[c] = Idle /\ call'[c].goal \in Goals => goal[call'[c].goal] # "none"
  /\ cascade' = [c \in Calls |-> IF call'[c] = Idle THEN Nothing ELSE cascade[c]]
BoardRequest == OnBoard(Direct \/ \E c \in Calls : Starts(c))

Request == /\ requests < MaxRequests /\ requests' = requests + 1
           /\ BoardRequest \/ \E g \in Goals : GoalRequest(g)
Advance(c) == /\ OnBoard(Continues(c)) \/ SetGoal(c) \/ CloseCommit(c)
              /\ UNCHANGED requests
Reconcile(c) == OnBoard(ReconcileStart(c)) /\ UNCHANGED requests
Repair(c, a) == OnBoard(ReconcileFails(c, [asg |-> a, over |-> TRUE])) /\ UNCHANGED requests
Throw(c) == OnBoard(StatementFails(c)) /\ UNCHANGED requests
Next == Request \/ \E c \in Calls : Advance(c) \/ Reconcile(c) \/ Throw(c)

Spec == Init /\ [][Next]_vars

\* Handlers go on; the runtimes are listed, swept and ticked again and again, and the
\* reconciliation's write does not throw every time.
Fairness ==
  \A c \in Calls :
    /\ WF_vars(Advance(c) \/ Throw(c))
    /\ SF_vars(Reconcile(c))
    /\ \A a \in Asgs : SF_vars(Repair(c, a))
FairSpec == Spec /\ Fairness
--------------------------------------------------------------------------------
(***************************************************************************)
(* Properties.                                                             *)
(***************************************************************************)
Ops == {"none", "create", "runtime", "edit", "claim", "manager", "assignment", "message", "dispatch",
        "run", "review", "reconcile", "goal", "close"}
Steps == {"none", "capacity", "insert", "setItem", "placeOne", "write", "countOpen", "fetch", "findOpen",
          "mark", "existing", "place", "wake", "inspect", "setGoal", "commit"}
Handlers == [op : Ops, step : Steps, item : Items \cup {NoItem}, asg : Asgs \cup {0},
             to : AsgStatuses \cup GoalStatuses \cup {"none"}, role : Roles, put : Statuses \cup {"none"},
             todo : SUBSET [asg : Asgs, over : BOOLEAN], goal : Goals \cup {NoGoal}, auto : BOOLEAN]
Cascades == [to : GoalStatuses \cup {"none"}, goal : Goals \cup {NoGoal},
             items : SUBSET Items, asgs : SUBSET Asgs, runs : SUBSET Runs]
ItemRows == [st : Statuses \cup {"none"}, goal : Goals \cup {NoGoal},
             under : Goals \cup {NoGoal}, auto : BOOLEAN]
AsgRows == [item : Items \cup {NoItem}, role : Roles, st : AsgStatuses \cup {"none"}]
RunRows == [item : Items \cup {NoItem}, st : RunStatuses \cup {"none"}]
ReviewRows == [item : Items, asg : Asgs \cup {0}, verdict : Verdicts]
\* Tables and handlers have the shapes declared.
TypeOK ==
  /\ item \in [Items -> ItemRows] /\ asg \in [Asgs -> AsgRows] /\ run \in [Runs -> RunRows]
  /\ review \subseteq ReviewRows /\ call \in [Calls -> Handlers] /\ alone \in [Calls -> BOOLEAN]
  /\ goal \in [Goals -> GoalStatuses \cup {"none"}] /\ cascade \in [Calls -> Cascades]
  /\ requests \in 0 .. MaxRequests

\* c has just taken the step s of operation op.
Took(c, op, s) == call[c].op \in op /\ call[c].step = s /\ call'[c] # call[c]
Reopens(i) == item[i].st \in Terminal /\ item'[i].st \notin Terminal

\* updateAssignment, dispatch and the reconciliation never take an item out of a terminal
\* status, however old the assignment they act on is, unless somebody else wrote to the
\* board meanwhile.
StaleDoesNotReopen ==
  [][\A c \in Calls, i \in Items :
       Took(c, {"manager", "assignment", "dispatch", "reconcile"}, "setItem") /\ Reopens(i)
         => ~ alone[c]]_vars

\* An item is sent back for revision over a failed assignment or message only when nobody
\* else is at work on it: an agent does not lose its item because another agent's message failed.
SentBackWhenNobodyWorks ==
  [][\A c \in Calls :
       /\ Took(c, {"manager", "assignment", "dispatch", "reconcile", "message"}, "setItem")
       /\ item' # item /\ call[c].put = Revision
       => OpenOn(call[c].item) = {} \/ ~ alone[c]]_vars

\* createWorkItem does not take the board over its limit of open items, and a claim does not
\* put a second worker on an item, unless another handler came between check and insert.
LimitsKept ==
  [][\A c \in Calls :
       /\ Took(c, {"create"}, "insert") /\ call[c].put \notin Terminal /\ item' # item
            => Cardinality(OpenItems') <= MaxOpen \/ ~ alone[c]
       /\ Took(c, {"claim"}, "placeOne") /\ asg' # asg
            => OpenOn(call[c].item) = {} \/ ~ alone[c]]_vars

\* A verdict that an agent sends as a status and nothing else comes after that verdict of a
\* reviewer, if the item has one; an agent that is a reviewer completes an assignment only
\* after a review under it.
ReviewGate ==
  [][\A c \in Calls :
       /\ Took(c, {"runtime"}, "setItem") /\ item' # item
            => \/ ~ alone[c]
               \/ \A a \in Asgs : asg[a].item # call[c].item \/ asg[a].role # "REVIEW"
               \/ \A v \in Verdicts : ByVerdict[v] = call[c].put
                    => \E r \in review : r.item = call[c].item /\ r.verdict = v
       /\ Took(c, {"assignment"}, "write") /\ call[c].to = "COMPLETED" /\ asg' # asg
            => call[c].role = "WORKER" \/ \E r \in review : r.asg = call[c].asg]_vars

\* A goal that ends with its work leaves no open item, and no open assignment or unfinished
\* run under an item it closed; an agent ends a goal only when nothing was left to do.
GoalEndsClean ==
  [][\A c \in Calls :
       LET g == call[c].goal IN
       /\ Took(c, {"close"}, "commit") /\ goal' # goal /\ call[c].auto /\ alone[c]
            => /\ \A i \in OpenWork(g) : item'[i].st \in Terminal
               /\ \A a \in Asgs : asg[a].st \in Open /\ asg[a].item \in OpenWork(g)
                    => asg'[a].st \notin Open
               /\ \A r \in Runs : run[r].st \in Unfinished /\ run[r].item \in OpenWork(g)
                    => run'[r].st \notin Unfinished
       /\ Took(c, {"goal"}, "setGoal") /\ goal' # goal /\ alone[c]
            => IF call[c].to = "DONE" THEN OpenWork(g) = {}
               ELSE goal[g] \in ActiveStatuses \/ Cardinality(ActiveGoals') <= MaxGoals]_vars

\* An assignment still open under an item that is over does not stay so.
StaleAssignmentEnds == \A a \in Asgs : (a \in StaleOpen) ~> (a \notin StaleOpen)
--------------------------------------------------------------------------------
(***************************************************************************)
(* The inductive invariant of the safety properties.                        *)
(***************************************************************************)
\* Rows refer to rows; assignments are numbered in the order of their creation.
RowsOK ==
  /\ \A a \in Placed : asg[a].item \in Items /\ Exists(asg[a].item)
  /\ \A r \in Runs : run[r].st # "none" => run[r].item \in Items /\ Exists(run[r].item)
  /\ \E n \in 0 .. MaxAsg : Placed = 1 .. n

\* Whose updates of an assignment move its item after looking at it once more.
Updaters == {"manager", "assignment", "dispatch"}
Senders == Updaters \cup {"message", "reconcile"}
\* What a handler at a step has in hand.
Fits(h) ==
  /\ h.op = "create" <=> h.step \in {"capacity", "insert"}
  /\ h.op = "claim" <=> h.step = "placeOne"
  /\ h.op = "goal" <=> h.step = "setGoal"
  /\ h.op = "close" <=> h.step = "commit"
  /\ h.op \in {"runtime", "edit", "run", "review"} => h.step = "setItem"
  /\ h.step \in {"findOpen", "mark", "existing", "place", "wake"} => h.op = "dispatch"
  /\ h.step = "inspect" => h.op = "reconcile"
  /\ h.step = "write" => h.op \in Updaters \cup {"message"} /\ h.to \in AsgStatuses
  /\ h.step = "countOpen" => h.op \in Senders /\ (h.op # "reconcile" => h.to = "FAILED")
  /\ h.step = "fetch" => h.op \in Updaters /\ h.to \in {"ACTIVE", "COMPLETED", "FAILED"}
  /\ h.step = "setItem" => h.op \in Senders \cup {"runtime", "edit", "run", "review"}
  /\ h.step = "write" /\ h.op \in {"message", "dispatch"} => h.to = "FAILED"
  /\ h.step = "setItem" /\ h.op \in {"message", "reconcile"} => h.put = Revision
  /\ h.step \in {"setItem", "capacity", "insert"} => h.put \in Statuses
  /\ h.step = "setGoal" => h.goal \in Goals /\ h.to \in GoalStatuses
  /\ h.step = "commit" => h.goal \in Goals
  /\ h.step \in {"setItem", "placeOne", "write", "countOpen", "fetch", "findOpen", "mark", "existing",
                 "place", "wake"} => h.item \in Items
\* The rows it has in hand exist, and keep their item and role.
Holds(h) ==
  /\ h.item \in Items => Exists(h.item)
  /\ h.step \in {"write", "wake"} => h.asg \in Placed /\ asg[h.asg].item = h.item
  /\ \A t \in h.todo : t.asg \in Placed
  /\ h.op = "assignment" /\ h.step = "write" /\ h.to = "COMPLETED"
       => h.role = "WORKER" \/ \E r \in review : r.asg = h.asg

\* The rows a snapshot names exist.
Found(k) == k.asgs \subseteq Placed /\ \A r \in k.runs : run[r].st # "none"

\* What a handler that nobody overtook still knows of the tables, k being its snapshot.
Knows(h, k) ==
  /\ h.op \in Updaters /\ h.step = "setItem" => item[h.item].st \notin Terminal
  /\ h.op = "reconcile" /\ h.step \in {"countOpen", "setItem"} => item[h.item].st \notin Terminal
  /\ h.op = "reconcile" => \A t \in h.todo : t.over \/ item[asg[t.asg].item].st \notin Terminal
  /\ h.step = "fetch" /\ h.to = "FAILED" => OpenOn(h.item) = {}
  /\ h.op \in Senders /\ h.step = "setItem" /\ h.put = Revision => OpenOn(h.item) = {}
  /\ h.step = "insert" /\ h.put \notin Terminal => Cardinality(OpenItems) < MaxOpen
  /\ h.step = "placeOne" => OpenOn(h.item) = {}
  /\ h.op = "runtime" => \A v \in Verdicts : ByVerdict[v] = h.put => ~ NeedsReview(h.item, v)
  /\ h.step = "setGoal" =>
       IF h.to = "DONE" THEN OpenWork(h.goal) = {}
       ELSE goal[h.goal] \in ActiveStatuses \/ Cardinality(ActiveGoals) < MaxGoals
  /\ h.step = "commit" =>
       /\ k.goal = h.goal
       /\ h.auto => /\ OpenWork(h.goal) \subseteq k.items
                    /\ {a \in Asgs : asg[a].st \in Open /\ asg[a].item \in OpenWork(h.goal)} \subseteq k.asgs
                    /\ {r \in Runs : run[r].st \in Unfinished /\ run[r].item \in OpenWork(h.goal)} \subseteq k.runs

Inv ==
  /\ TypeOK /\ RowsOK
  /\ \A c \in Calls : /\ Fits(call[c]) /\ Holds(call[c]) /\ Found(cascade[c])
                      /\ alone[c] => Knows(call[c], cascade[c])
=============================================================================
