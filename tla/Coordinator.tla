----------------------------- MODULE Coordinator -----------------------------
(***************************************************************************)
(* The coordinator of a project (projects.service.ts): ticks that hand the  *)
(* dispatchable work items to agents, the debounced timer that starts them, *)
(* and the settings they share with the project's Activate and Pause.       *)
(*                                                                         *)
(* A call is a handler of one server process; its steps are its awaited     *)
(* statements.  A tick reads the items once and then works through them, so *)
(* people and agents change items, assignments and agents under it.  The    *)
(* timer and the mark of the running tick live in memory and go with a      *)
(* crash.  All dispatch rules here name the same role; what else they ask   *)
(* of an item or an agent (forceLaunchNew, agentType, resources) is a choice.*)
(***************************************************************************)
EXTENDS Integers, FiniteSets

CONSTANTS Items, Agents, NoItem, NoAgent,
          Plans,        \* the items that are planner items of the project's goal
          Needs,        \* dependsOn of an item
          MaxAsg,       \* bound: assignments ever placed, numbered in the order of creation
          MaxPerTick,   \* maxDispatchesPerTick
          ScanLimit,    \* candidateScanLimit: items a tick reads
          RoleLimit,    \* maxAgents of the role
          MaxActive,    \* max_active_agents of the project
          Calls,        \* bound: handlers under way at a time
          MaxRequests   \* bound: what people and agents do

ASSUME CoordinatorAssumption ==
  /\ NoItem \notin Items /\ NoAgent \notin Agents /\ Plans \subseteq Items
  /\ Needs \in [Items -> SUBSET Items]
  /\ IsFiniteSet(Agents) /\ MaxAsg \in Nat /\ MaxRequests \in Nat
  /\ MaxPerTick \in Nat \ {0} /\ ScanLimit \in Nat \ {0}
  /\ RoleLimit \in Nat \ {0} /\ MaxActive \in Nat \ {0}

VARIABLES item,       \* project_work_items.status
          asg,        \* project_assignments
          session,    \* the runtime session of each member of the role
          project,    \* its status and settings.workItemStatusFlow.coordinator.enabled
          timer,      \* coordinatorTickTimers has the project
          inFlight,   \* coordinatorTicksInFlight has the project
          call,       \* the handlers under way
          requests,   \* how much people and agents did
          why,        \* history: why no tick is going to look at an item, "" if one is
          reopened,   \* history: planner items somebody else created or put back
          hired       \* history: agents that took up work since a tick, which may launch
                      \* one more, counted those at work

vars == <<item, asg, session, project, timer, inFlight, call, requests, why, reopened, hired>>
--------------------------------------------------------------------------------
Candidate == {"READY", "NEEDS_REVISION"}
Completed == {"ACCEPTED"}
Terminal == {"ACCEPTED", "CANCELLED"}
Statuses == Candidate \cup Terminal \cup {"none", "ASSIGNED", "IN_REVIEW"}
Sessions == {"none", "queued", "idle", "busy", "offline"}
Asgs == 1 .. MaxAsg
Placed == {a \in Asgs : asg[a].st # "none"}

OpenOn(i) == {a \in Asgs : asg[a].item = i /\ asg[a].st = "open"}
\* The open assignments an agent is held to: those of items that are not over.
OpenOf(w) == {a \in Asgs : asg[a].agent = w /\ asg[a].st = "open" /\ item[asg[a].item] \notin Terminal}
Dispatchable == {i \in Items : item[i] \in Candidate}
Online == {w \in Agents : session[w] \notin {"none", "offline"}}

\* findIdleCoordinatorRuntime and activeCoordinatorRoleCount.
IdleAgents == {w \in Agents : session[w] = "idle" /\ OpenOf(w) = {}}
ActiveAgents == {w \in Agents : session[w] \in {"queued", "busy"} \/ OpenOf(w) # {}}

\* workItemDependencyBlockers, planningItemHasActiveSiblingWork
Blocked(i) == \E j \in Needs[i] : item[j] \notin Completed
SiblingWork(i) == i \in Plans /\ \E j \in Items \ Plans : item[j] \notin Terminal \cup {"none"}
--------------------------------------------------------------------------------
(***************************************************************************)
(* Handlers.  on is the coordinator switch as the handler read it, todo the *)
(* items still to be looked at, item and agent the ones in hand, reused says*)
(* that the agent was found idle, sent counts the dispatches, and opened is *)
(* history: the assignments others opened since the tick read the items.    *)
(***************************************************************************)
Idle == [op |-> "none", step |-> "none", on |-> FALSE, todo |-> {}, item |-> NoItem,
         agent |-> NoAgent, reused |-> FALSE, sent |-> 0, opened |-> {}]

BeforeQuery == {"manager", "lastTick", "reconcile", "planner", "plan", "query"}
AfterQuery == {"next", "idle", "count", "capacity", "pick", "session", "place", "wake"}
Counted(h) == h.op = "tick" /\ h.step \in {"capacity", "pick", "session"}
Working == {c \in Calls : call[c].op = "tick" /\ call[c].step # "manager"}

Is(c, s) == call[c].step = s
Goes(c, h) == call' = [call EXCEPT ![c] = h]
Begins(c, h) == call[c] = Idle /\ Goes(c, h)
\* The loop goes on to the next item, or is left.
NextItem(h) == [h EXCEPT !.step = "next", !.todo = @ \ {h.item}, !.item = NoItem,
                         !.agent = NoAgent, !.reused = FALSE]
Break(h) == [NextItem(h) EXCEPT !.todo = {}]

\* scheduleCoordinatorTick for an item that becomes dispatchable, if the coordinator is on.
Schedules(i) ==
  /\ timer' = (timer \/ project.enabled)
  /\ why' = [why EXCEPT ![i] = IF project.enabled THEN "" ELSE "off"]

\* A tick is going to look at i; one that has placed an assignment is done with its item.
Covers(h, i) == /\ h.op = "tick"
                /\ h.step \in BeforeQuery \/ (i \in h.todo /\ ~ (h.step = "wake" /\ i = h.item))
Covered(i) == timer \/ \E c \in Calls : Covers(call[c], i)
\* The items no tick is going to look at any more, and the reason.
Loses(reason) ==
  why' = [i \in Items |-> IF i \in Dispatchable /\ why[i] = "" /\ ~ Covered(i)' THEN reason ELSE why[i]]
Looked(i) == why' = [why EXCEPT ![i] = "looked"]

\* Others open the assignments A.
Opens(A) == call' = [c \in Calls |-> IF call[c].step \in AfterQuery
                                     THEN [call[c] EXCEPT !.opened = @ \cup A] ELSE call[c]]

rest == <<requests, reopened>>
--------------------------------------------------------------------------------
(***************************************************************************)
(* tickProjectCoordinator, up to the query for candidates.                  *)
(***************************************************************************)
\* The timer fires; or somebody calls the end point.
Fire(c) ==
  /\ timer /\ timer' = FALSE
  /\ Begins(c, [Idle EXCEPT !.op = "tick", !.step = "manager"])
  /\ UNCHANGED <<item, asg, session, project, inFlight, why, rest>>
TickByHand(c) ==
  /\ Begins(c, [Idle EXCEPT !.op = "tick", !.step = "manager"])
  /\ UNCHANGED <<item, asg, session, project, timer, inFlight, why, reopened>>

\* Mutant.
ManagerDoesNotLook(c) ==
  /\ Is(c, "manager") /\ call[c].op = "tick"
  /\ inFlight' = TRUE /\ Goes(c, [call[c] EXCEPT !.step = "lastTick", !.on = project.enabled])
  /\ UNCHANGED why
  /\ UNCHANGED <<item, asg, session, project, timer, rest>>
\* The project is read; a tick that finds another one running is over.
Manager(c) ==
  /\ UNCHANGED <<item, asg, session, project, timer, rest>>
  /\ Is(c, "manager") /\ call[c].op = "tick"
  /\ \/ /\ ~ inFlight /\ inFlight' = TRUE
        /\ Goes(c, [call[c] EXCEPT !.step = "lastTick", !.on = project.enabled])
        /\ UNCHANGED why
     \/ /\ inFlight /\ UNCHANGED inFlight
        /\ Goes(c, Idle)
        /\ IF Working # {} THEN Loses("skipped") ELSE UNCHANGED why

\* updateCoordinatorLastTickAt writes the settings as they were read; a failure is ignored.
\* A coordinator that is off ends here.
LastTick(c) ==
  /\ UNCHANGED <<item, asg, session, timer, rest>>
  /\ Is(c, "lastTick")
  /\ project' \in {project, [project EXCEPT !.enabled = call[c].on]}
  /\ IF call[c].on
     THEN Goes(c, [call[c] EXCEPT !.step = "reconcile"]) /\ UNCHANGED <<inFlight, why>>
     ELSE Goes(c, Idle) /\ inFlight' = FALSE /\ Loses("off")

\* reconcileStaleOpenAssignments: an assignment is stale if its item is over or its agent is
\* gone, and may be if its agent is idle.  Its item goes back unless another is open.
StaleSets ==
  LET gone == {a \in Asgs : asg[a].st = "open" /\ (item[asg[a].item] \in Terminal \/ asg[a].agent \notin Online)}
      maybe == {a \in Asgs : asg[a].st = "open" /\ session[asg[a].agent] = "idle"}
  IN  {S \in SUBSET (gone \cup maybe) : gone \subseteq S}
SentBack(S) == {i \in Items : OpenOn(i) # {} /\ OpenOn(i) \subseteq S /\ item[i] \notin Terminal}
Fails(S) ==
  /\ asg' = [a \in Asgs |-> IF a \in S THEN [asg[a] EXCEPT !.st = "closed"] ELSE asg[a]]
  /\ item' = [i \in Items |-> IF i \in SentBack(S) THEN "NEEDS_REVISION" ELSE item[i]]
Reconcile(c) ==
  /\ Is(c, "reconcile")
  /\ \E S \in StaleSets : /\ Fails(S)
                          /\ why' = [i \in Items |-> IF i \in SentBack(S) THEN "" ELSE why[i]]
  /\ Goes(c, [call[c] EXCEPT !.step = "planner"])
  /\ UNCHANGED <<session, project, timer, inFlight, rest>>

\* ensurePlannerItemsForUnanalysedGoals: the goal has no open work, and no planner item that
\* was not cancelled.
\* Mutant.
PlannerForgets(c) ==
  /\ Is(c, "planner")
  /\ Goes(c, [call[c] EXCEPT !.step = IF \E i \in Items : item[i] \notin Terminal \cup {"none"}
                                      THEN "query" ELSE "plan"])
  /\ UNCHANGED <<item, asg, session, project, timer, inFlight, why, rest>>
Planner(c) ==
  /\ Is(c, "planner")
  /\ Goes(c, [call[c] EXCEPT !.step = IF \/ \E i \in Items : item[i] \notin Terminal \cup {"none"}
                                         \/ \E p \in Plans : item[p] \notin {"none", "CANCELLED"}
                                      THEN "query" ELSE "plan"])
  /\ UNCHANGED <<item, asg, session, project, timer, inFlight, why, rest>>
Plan(c, p) ==
  /\ Is(c, "plan") /\ p \in Plans /\ item[p] = "none"
  /\ item' = [item EXCEPT ![p] = "READY"] /\ why' = [why EXCEPT ![p] = ""]
  /\ Goes(c, [call[c] EXCEPT !.step = "query"])
  /\ UNCHANGED <<asg, session, project, timer, inFlight, rest>>
\* Bound: there is no further planner item to create.
PlansUsedUp(c) ==
  /\ Is(c, "plan") /\ \A p \in Plans : item[p] # "none"
  /\ Goes(c, [call[c] EXCEPT !.step = "query"])
  /\ UNCHANGED <<item, asg, session, project, timer, inFlight, why, rest>>

\* The candidates, as many as the query takes; those with an open assignment are passed over.
\* What is cut off waits for another tick.
Scans == {S \in SUBSET Dispatchable :
            Cardinality(S) = IF Cardinality(Dispatchable) > ScanLimit THEN ScanLimit ELSE Cardinality(Dispatchable)}
Reads(S) ==
  why' = [i \in Items |->
    CASE i \in S /\ OpenOn(i) # {} -> "looked"
      [] i \in Dispatchable \ S /\ why[i] = "" /\ ~ Covered(i)' -> "scan"
      [] OTHER -> why[i]]
\* Mutant.
QueryReadyOnly(c) ==
  /\ UNCHANGED <<item, asg, session, project, timer, inFlight, rest>>
  /\ Is(c, "query")
  /\ \E S \in Scans :
       /\ Goes(c, [call[c] EXCEPT !.step = "next", !.todo = {i \in S : item[i] = "READY" /\ OpenOn(i) = {}}])
       /\ Reads(S)
Query(c) ==
  /\ UNCHANGED <<item, asg, session, project, timer, inFlight, rest>>
  /\ Is(c, "query")
  /\ \E S \in Scans :
       /\ Goes(c, [call[c] EXCEPT !.step = "next", !.todo = {i \in S : OpenOn(i) = {}}])
       /\ Reads(S)
--------------------------------------------------------------------------------
(***************************************************************************)
(* The loop over the candidates.                                           *)
(***************************************************************************)
\* An item is passed over for its sibling work or dependencies, or because no rule applies,
\* a resource is missing, or only its owner may do it.
Consider(c, i) ==
  LET h == [call[c] EXCEPT !.item = i] IN
  /\ Is(c, "next") /\ i \in call[c].todo
  /\ \/ Goes(c, NextItem(h)) /\ Looked(i)
     \/ /\ ~ SiblingWork(i) /\ ~ Blocked(i)
        /\ Goes(c, [h EXCEPT !.step = "idle"]) /\ UNCHANGED why
  /\ UNCHANGED <<item, asg, session, project, timer, inFlight, rest>>

\* An idle agent is used whatever the limit of the role says, if the item's rule lets it be
\* reused and it is of the rule's type; otherwise a new one is wanted, idle ones or not.
\* Mutant.
FindIdleSession(c) ==
  LET found == {w \in Agents : session[w] = "idle"} IN
  /\ Is(c, "idle")
  /\ \/ Goes(c, [call[c] EXCEPT !.step = "count"])
     \/ \E w \in found : Goes(c, [call[c] EXCEPT !.step = "place", !.agent = w, !.reused = TRUE])
  /\ UNCHANGED <<item, asg, session, project, timer, inFlight, why, rest>>
FindIdle(c) ==
  /\ Is(c, "idle")
  /\ \/ Goes(c, [call[c] EXCEPT !.step = "count"])
     \/ \E w \in IdleAgents : Goes(c, [call[c] EXCEPT !.step = "place", !.agent = w, !.reused = TRUE])
  /\ UNCHANGED <<item, asg, session, project, timer, inFlight, why, rest>>

\* Mutant.
CountBusy(c) ==
  /\ Is(c, "count")
  /\ IF Cardinality({w \in Agents : session[w] \in {"queued", "busy"}}) >= RoleLimit
     THEN Goes(c, NextItem(call[c])) /\ Looked(call[c].item)
     ELSE Goes(c, [call[c] EXCEPT !.step = "capacity"]) /\ UNCHANGED why
  /\ UNCHANGED <<item, asg, session, project, timer, inFlight, rest>>
CountRole(c) ==
  /\ Is(c, "count")
  /\ IF Cardinality(ActiveAgents) >= RoleLimit
     THEN Goes(c, NextItem(call[c])) /\ Looked(call[c].item)
     ELSE Goes(c, [call[c] EXCEPT !.step = "capacity"]) /\ UNCHANGED why
  /\ UNCHANGED <<item, asg, session, project, timer, inFlight, rest>>

\* MODEL_API_MISSING: the owner has no model for a new agent, and the tick gives up.
ModelMissing(c) ==
  /\ UNCHANGED <<item, asg, session, project, timer, inFlight, rest>>
  /\ Is(c, "capacity")
  /\ Goes(c, Break(call[c])) /\ Loses("model")

\* ensureProjectActiveAgentCapacity: without room the tick gives up.
Capacity(c) ==
  /\ UNCHANGED <<item, asg, session, project, timer, inFlight, rest>>
  /\ Is(c, "capacity")
  /\ IF Cardinality(Online) >= MaxActive
     THEN Goes(c, Break(call[c])) /\ Loses("limit")
     ELSE Goes(c, [call[c] EXCEPT !.step = "pick"]) /\ UNCHANGED why

\* launchAgentRuntime, by a tick or the owner: a member without a session, found or created
\* (the owner may name one that is offline); its session is written when the launch is done.
LaunchPick(c, w) ==
  /\ Is(c, "pick")
  /\ session[w] = "none" \/ (call[c].op = "launch" /\ session[w] = "offline")
  /\ Cardinality(Online) < MaxActive
  /\ Goes(c, [call[c] EXCEPT !.step = "session", !.agent = w])
  /\ UNCHANGED <<item, asg, session, project, timer, inFlight, why, rest>>
LaunchDone(c, s) ==
  LET h == call[c] IN
  /\ Is(c, "session") /\ session' = [session EXCEPT ![h.agent] = s]
  /\ Goes(c, IF h.op = "launch" THEN Idle ELSE [h EXCEPT !.step = "place"])
  /\ UNCHANGED <<item, asg, project, timer, inFlight, why, rest>>

\* createAssignment looks at neither the item nor its assignments again.
Place(c, a) ==
  LET h == call[c] IN
  /\ Is(c, "place") /\ a = Cardinality(Placed) + 1 /\ a \in Asgs
  /\ asg' = [asg EXCEPT ![a] = [item |-> h.item, agent |-> h.agent, st |-> "open"]]
  /\ Goes(c, [h EXCEPT !.step = "wake"]) /\ Looked(h.item)
  /\ UNCHANGED <<item, session, project, timer, inFlight, rest>>

\* wakeRuntimeForAssignment: a failure is only logged.  The loop ends at the limit.
Wake(c) ==
  LET h == [call[c] EXCEPT !.sent = @ + 1] IN
  /\ UNCHANGED <<item, asg, project, timer, inFlight, rest>>
  /\ Is(c, "wake")
  /\ \/ UNCHANGED session
     \/ /\ session[h.agent] \in {"queued", "idle", "busy"}
        /\ session' = [session EXCEPT ![h.agent] = "busy"]
  /\ IF h.sent >= MaxPerTick THEN Goes(c, Break(h)) /\ Loses("limit")
     ELSE Goes(c, NextItem(h)) /\ UNCHANGED why

\* Mutant.
RetryDispatch(c) ==
  /\ Is(c, "pick") \/ Is(c, "session") \/ Is(c, "place")
  /\ IF call[c].op = "launch" THEN Goes(c, Idle) /\ UNCHANGED why
     ELSE Goes(c, [call[c] EXCEPT !.step = "idle", !.agent = NoAgent, !.reused = FALSE]) /\ UNCHANGED why
  /\ UNCHANGED <<item, asg, session, project, timer, inFlight, rest>>
\* A launch or an assignment fails: the tick goes on with the next item.
DispatchFails(c) ==
  /\ Is(c, "pick") \/ Is(c, "session") \/ Is(c, "place")
  /\ IF call[c].op = "launch" THEN Goes(c, Idle) /\ UNCHANGED why
     ELSE Goes(c, NextItem(call[c])) /\ Looked(call[c].item)
  /\ UNCHANGED <<item, asg, session, project, timer, inFlight, rest>>

TickEnds(c) ==
  /\ Is(c, "next") /\ call[c].todo = {}
  /\ Goes(c, Idle) /\ inFlight' = FALSE
  /\ UNCHANGED <<item, asg, session, project, timer, why, rest>>

\* A statement throws: the mark of the running tick is removed in a finally.
Throws(c) ==
  /\ UNCHANGED <<item, asg, session, project, timer, rest>>
  /\ c \in Working \/ call[c].step \in {"manager", "statusWrite", "statusTimers"}
  /\ Goes(c, Idle) /\ inFlight' = (inFlight /\ c \notin Working)
  /\ Loses("failed")
--------------------------------------------------------------------------------
(***************************************************************************)
(* setProjectStatus: the project is read, written with the coordinator     *)
(* switched on or off, and then the timers are cleared or a tick scheduled. *)
(***************************************************************************)
StatusRead(c, active) ==
  /\ Begins(c, [Idle EXCEPT !.op = "status", !.step = "statusWrite", !.on = active])
  /\ UNCHANGED <<item, asg, session, project, timer, inFlight, why, reopened>>
StatusWrite(c) ==
  /\ Is(c, "statusWrite")
  /\ project' = [active |-> call[c].on, enabled |-> call[c].on]
  /\ Goes(c, [call[c] EXCEPT !.step = "statusTimers"])
  /\ UNCHANGED <<item, asg, session, timer, inFlight, why, rest>>
StatusTimers(c) ==
  /\ UNCHANGED <<item, asg, session, project, inFlight, rest>>
  /\ Is(c, "statusTimers")
  /\ timer' = call[c].on /\ Goes(c, Idle) /\ Loses("off")
--------------------------------------------------------------------------------
(***************************************************************************)
(* Everybody else.  These handlers are steps of the work board, one each.   *)
(***************************************************************************)
\* An item of anybody, a planner item of the goal or another.
CreateItem(i) ==
  /\ item[i] = "none"
  /\ item' = [item EXCEPT ![i] = "READY"] /\ Schedules(i)
  /\ reopened' = reopened \cup ({i} \cap Plans)
  /\ UNCHANGED <<asg, session, project, inFlight, call>>

\* updateWorkItem and createReview schedule a tick for the status they set; a runtime's
\* update does not, nor does a run's.
SetItem(i, st, silent) ==
  /\ item[i] \notin {"none", st}
  /\ item' = [item EXCEPT ![i] = st]
  /\ IF st \notin Candidate THEN UNCHANGED <<timer, why>>
     ELSE IF silent THEN why' = [why EXCEPT ![i] = "silent"] /\ UNCHANGED timer
     ELSE Schedules(i)
  /\ Opens(IF item[i] \in Terminal /\ st \notin Terminal THEN OpenOn(i) ELSE {})
  /\ reopened' = IF item[i] = "CANCELLED" THEN reopened \cup ({i} \cap Plans) ELSE reopened
  /\ UNCHANGED <<asg, session, project, inFlight>>

\* createAssignment by a manager, a lead's dispatch, a claim.
Assign(i, w) ==
  LET a == Cardinality(Placed) + 1 IN
  /\ item[i] # "none" /\ a \in Asgs
  /\ asg' = [asg EXCEPT ![a] = [item |-> i, agent |-> w, st |-> "open"]]
  /\ Opens({a})
  /\ UNCHANGED <<item, session, project, timer, inFlight, why, reopened>>

\* updateAssignment: started (again), completed, failed.
Start(a) ==
  /\ a \in Placed
  /\ asg' = [asg EXCEPT ![a].st = "open"]
  /\ item' = [item EXCEPT ![asg[a].item] = IF @ \in Terminal THEN @ ELSE "ASSIGNED"]
  /\ IF asg[a].st = "open" THEN UNCHANGED call ELSE Opens({a})
  /\ UNCHANGED <<session, project, timer, inFlight, why, reopened>>
\* Mutant.
CompleteItself(a) ==
  /\ asg[a].st = "open"
  /\ asg' = [asg EXCEPT ![a].st = "closed"]
  /\ item' = [item EXCEPT ![asg[a].item] = IF @ \in Terminal THEN @ ELSE "COMPLETED"]
  /\ UNCHANGED <<session, project, timer, inFlight, call, why, reopened>>
Complete(a) ==
  /\ asg[a].st = "open"
  /\ asg' = [asg EXCEPT ![a].st = "closed"]
  /\ item' = [item EXCEPT ![asg[a].item] = IF @ \in Terminal THEN @ ELSE "IN_REVIEW"]
  /\ UNCHANGED <<session, project, timer, inFlight, call, why, reopened>>
\* A failed assignment, and a failed message behind one, which wakes nobody.
Fail(a, silent) ==
  /\ asg[a].st = "open" /\ Fails({a})
  /\ IF SentBack({a}) = {} THEN UNCHANGED <<timer, why>>
     ELSE IF silent THEN why' = [why EXCEPT ![asg[a].item] = "silent"] /\ UNCHANGED timer
     ELSE Schedules(asg[a].item)
  /\ UNCHANGED <<session, project, inFlight, call, reopened>>

\* The polling sweep, and listing the runtimes: a tick is scheduled if something was stale.
Sweep ==
  /\ \E S \in StaleSets \ {{}} :
       /\ Fails(S)
       /\ timer' = (timer \/ project.enabled)
       /\ why' = [i \in Items |-> IF i \notin SentBack(S) THEN why[i]
                                  ELSE IF project.enabled THEN "" ELSE "off"]
  /\ UNCHANGED <<session, project, inFlight, call, reopened>>

\* The owner launches an agent.
Launch(c) ==
  /\ Begins(c, [Idle EXCEPT !.op = "launch", !.step = "pick"])
  /\ UNCHANGED <<item, asg, session, project, timer, inFlight, why, reopened>>

\* A runner fetches its first message, an agent is done, stops, or is back.
Becomes(w, s) ==
  /\ <<session[w], s>> \in {<<"queued", "idle">>, <<"busy", "idle">>, <<"idle", "offline">>,
                           <<"busy", "offline">>, <<"offline", "idle">>}
  /\ session' = [session EXCEPT ![w] = s]
  /\ UNCHANGED <<item, asg, project, timer, inFlight, call, why, reopened>>

Crash ==
  /\ UNCHANGED <<item, asg, session, project, reopened>>
  /\ call' = [c \in Calls |-> Idle] /\ timer' = FALSE /\ inFlight' = FALSE
  /\ Loses("crash")
--------------------------------------------------------------------------------
Init ==
  /\ item = [i \in Items |-> "none"]
  /\ asg = [a \in Asgs |-> [item |-> NoItem, agent |-> NoAgent, st |-> "none"]]
  /\ session = [w \in Agents |-> "none"]
  /\ project = [active |-> TRUE, enabled |-> TRUE]
  /\ timer \in BOOLEAN /\ inFlight = FALSE
  /\ call = [c \in Calls |-> Idle]
  /\ requests = 0
  /\ why = [i \in Items |-> ""] /\ reopened = {} /\ hired = {}

Tick(c) ==
  \/ Manager(c) \/ LastTick(c) \/ Reconcile(c) \/ Planner(c) \/ (\E p \in Plans : Plan(c, p)) \/ PlansUsedUp(c)
  \/ Query(c) \/ \E i \in Items : Consider(c, i)
  \/ FindIdle(c) \/ CountRole(c) \/ ModelMissing(c) \/ Capacity(c)
  \/ \E w \in Agents : LaunchPick(c, w)
  \/ \E s \in {"queued", "idle"} : LaunchDone(c, s)
  \/ \E a \in Asgs : Place(c, a)
  \/ Wake(c) \/ DispatchFails(c) \/ TickEnds(c)
  \/ StatusWrite(c) \/ StatusTimers(c)
Requests ==
  /\ requests < MaxRequests /\ requests' = requests + 1
  /\ \/ \E i \in Items :
          \/ CreateItem(i)
          \/ \E st \in {"READY", "ACCEPTED", "CANCELLED"}, silent \in BOOLEAN : SetItem(i, st, silent)
          \/ \E w \in Agents : Assign(i, w)
     \/ \E a \in Asgs : Start(a) \/ Complete(a) \/ \E silent \in BOOLEAN : Fail(a, silent)
     \/ \E w \in Agents, s \in {"idle", "offline"} : Becomes(w, s)
     \/ \E c \in Calls : TickByHand(c) \/ Launch(c) \/ \E active \in BOOLEAN : StatusRead(c, active)
     \/ Sweep \/ Crash
\* The agents that take up work are noted while a tick that counted them may launch another.
Hires ==
  hired' = IF \E c \in Calls : Counted(call[c]) /\ Counted(call'[c])
           THEN hired \cup (ActiveAgents' \ ActiveAgents) ELSE {}
Next ==
  /\ (\E c \in Calls : Fire(c) \/ Tick(c) \/ Throws(c)) \/ Requests
  /\ Hires
Spec == Init /\ [][Next]_vars

\* The event loop runs a continuation that is ready, or a timer that is due.
FairSpec == Spec /\ WF_vars((\E c \in Calls : Fire(c) \/ Tick(c)) /\ Hires)
--------------------------------------------------------------------------------
Handlers == [op : {"none", "tick", "launch", "status"},
             step : BeforeQuery \cup AfterQuery \cup {"none", "statusWrite", "statusTimers"},
             on : BOOLEAN, todo : SUBSET Items, item : Items \cup {NoItem},
             agent : Agents \cup {NoAgent}, reused : BOOLEAN,
             sent : 0 .. MaxPerTick, opened : SUBSET Asgs]
Reasons == {"", "looked", "scan", "model", "limit", "skipped", "off", "failed", "crash", "silent"}
Rows == [item : Items \cup {NoItem}, agent : Agents \cup {NoAgent}, st : {"none", "open", "closed"}]
BoardTypes ==
  /\ item \in [Items -> Statuses]
  /\ asg \in [Asgs -> Rows]
  /\ session \in [Agents -> Sessions]
  /\ project \in [active : BOOLEAN, enabled : BOOLEAN]
  /\ timer \in BOOLEAN /\ inFlight \in BOOLEAN
  /\ call \in [Calls -> Handlers]
  /\ requests \in 0 .. MaxRequests
  /\ why \in [Items -> Reasons]
  /\ reopened \subseteq Plans
TypeOK == BoardTypes /\ hired \subseteq Agents

\* The coordinator hands out no item that has an open assignment, unless somebody else
\* opened it after the tick read the items: two ticks never dispatch the same item
\* (tickProjectCoordinator, coordinatorTicksInFlight).
ItemUntaken ==
  [][\A c \in Calls : Is(c, "place") /\ call'[c].step = "wake" => OpenOn(call[c].item) \subseteq call[c].opened]_vars

\* An agent the coordinator reuses has no other work, unless somebody else gave it some after
\* the tick read the items (findIdleCoordinatorRuntime).
AgentFree ==
  [][\A c \in Calls : Is(c, "place") /\ call'[c].step = "wake" /\ call[c].reused =>
       OpenOf(call[c].agent) \subseteq call[c].opened]_vars

\* A tick launches an agent of a role only while fewer than the role may have are at work,
\* apart from those others gave work to since it counted: no two ticks launch on the same
\* count, and work that was handed out counts although its agent has not started it
\* (activeCoordinatorRoleCount).
RoleLimitKept ==
  [][\A c \in Calls : Counted(call[c]) /\ Is(c, "session") /\ call'[c].step = "place" =>
       Cardinality(ActiveAgents \ hired) < RoleLimit]_vars

\* A goal has one planner item that was not cancelled, apart from those somebody else created
\* or put back (ensurePlannerItemsForUnanalysedGoals).
Live == {p \in Plans \ reopened : item[p] \notin {"none", "CANCELLED"}}
PlannedOnce == Cardinality(Live) <= 1

\* A tick is going to look at every item whose status asked for one, unless that was lost in
\* one of the ways the history names: a tick skipped because another is past its query, more
\* candidates than a tick reads, an agent that cannot be launched for want of a model or of
\* room, the dispatches of one tick used up, a coordinator that is off, an exception, a crash
\* (scheduleCoordinatorTick).
Woken == \A i \in Dispatchable : why[i] = "" => Covered(i)

\* And a tick does look at it: no item waits for ever.
LookedAt == \A i \in Items : []<>~ (i \in Dispatchable /\ why[i] = "")

\* Pausing a project turns its coordinator off (Docs.tsx:1048).
PausedIsOff ==
  ~ project.active /\ (\A c \in Calls : call[c].op # "status") => ~ project.enabled
--------------------------------------------------------------------------------
(***************************************************************************)
(* The inductive invariant of these properties.                             *)
(***************************************************************************)
CallOK(h) ==
  /\ h.op = "tick" => h.step \in BeforeQuery \cup AfterQuery
  /\ h.op = "launch" => h.step \in {"pick", "session"}
  /\ h.op # "tick" => h.todo = {}
  /\ h.step \in (BeforeQuery \cup AfterQuery) \ {"pick", "session"} => h.op = "tick"
  /\ h.step \in {"pick", "session"} => h.op \in {"tick", "launch"}
  /\ h.op = "tick" /\ h.step \in AfterQuery \ {"next"} => h.item \in h.todo
  /\ h.step \in {"session", "place", "wake"} => h.agent \in Agents
  /\ h.reused => h.step \in {"place", "wake"}
  /\ h.step \in BeforeQuery => h.sent = 0
  /\ h.todo # {} => h.sent < MaxPerTick

Typing ==
  /\ BoardTypes
  /\ \A c \in Calls : CallOK(call[c]) /\ \A i \in call[c].todo : item[i] # "none"
  /\ \A a \in Placed : asg[a].item \in Items /\ asg[a].agent \in Agents /\ item[asg[a].item] # "none"

\* One tick at a time is past the lock, and the lock says whether there is one.
OneTick ==
  /\ inFlight <=> Working # {}
  /\ \A c, d \in Working : c = d

\* While a tick is under way: no planner item appears before it adds its own, and what it has
\* not placed yet was taken by others only.
Untaken(h) == \A i \in h.todo : (h.step = "wake" /\ i = h.item) \/ OpenOn(i) \subseteq h.opened
TickOK(h) ==
  /\ h.step = "plan" => Live = {}
  /\ h.step \in AfterQuery => Untaken(h)
  /\ h.step = "place" /\ h.reused => OpenOf(h.agent) \subseteq h.opened

OnePlan == \A p, q \in Live : p = q

TickInv ==
  /\ Typing /\ OneTick /\ OnePlan /\ Woken
  /\ \A c \in Working : TickOK(call[c])

\* A tick that counted found room for one more, and has it still but for those hired since.
HasRoom(h) == Counted(h) => Cardinality(ActiveAgents \ hired) < RoleLimit

Inv == TickInv /\ TypeOK /\ \A c \in Calls : HasRoom(call[c])
=============================================================================
