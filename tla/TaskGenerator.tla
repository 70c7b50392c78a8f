---------------------------- MODULE TaskGenerator ----------------------------
(***************************************************************************)
(* The task generator: queued runs and direct requests fetch items of      *)
(* GitHub and HackerOne into raw tasks, score them, publish tasks from     *)
(* them and close those tasks again.  A worker is the drain of the queue   *)
(* or one HTTP request; it reads a list, then goes through it statement by *)
(* statement, so every two workers interleave between two statements.      *)
(*                                                                         *)
(* What an item says (scores, labels, policy, whether its issue is open)   *)
(* is a choice.  One repository and one server; a fetch asks for all       *)
(* programs, and the limits of a batch are not reached.                    *)
(***************************************************************************)
EXTENDS Naturals, Sequences, FiniteSets

CONSTANTS Github, HackerOne,   \* the items of either source
          Drain, Calls, None,  \* the drain of the queue; HTTP requests served at a time
          MaxTasks, MaxRequests, MaxFaults

ASSUME GeneratorAssumption ==
  /\ Github \cap HackerOne = {} /\ Drain \notin Calls
  /\ None \notin Github \cup HackerOne
  /\ {MaxTasks, MaxRequests, MaxFaults} \subseteq Nat

Raws == Github \cup HackerOne
Runs == 1 .. MaxRequests
Tasks == 1 .. MaxTasks
NoId == 0
Workers == {Drain} \cup Calls

RawStatus == {"PENDING", "SCORING", "SCORED", "PUBLISHED", "SKIPPED", "FAILED"}
RunStatus == {"QUEUED", "RUNNING", "COMPLETED", "FAILED"}

\* What each kind of run goes through, in order.
Phases ==
  [FETCH_GITHUB |-> <<"closed", "issues">>, FETCH_HACKERONE |-> <<"programs", "direct">>,
   SCORE |-> <<"score">>, PUBLISH |-> <<"reconcile", "publish">>,
   SCORE_AND_PUBLISH |-> <<"score", "reconcile", "publish">>]
RunTypes == DOMAIN Phases

VARIABLES
  run,      \* the queue: type and status of every run, oldest first
  raw,      \* RawTask rows: status, shouldPublish, publishedTaskId
  task,     \* published tasks: status, whether somebody submitted, the item it is about
  worker,   \* where every worker is, what is left of its list, the item in hand
  requests, faults,   \* counters of the bounds
  lost,     \* items whose task was created and whose row never learnt of it
  shared,   \* items two workers had on their lists at a time
  dropped,  \* items whose scoring was cut off
  stranded, \* runs whose outcome could not be stored, or that were marked and not begun
  alone     \* workers nobody interfered with since they read their list

vars == <<run, raw, task, worker, requests, faults, lost, shared, dropped, stranded, alone>>
queue == <<run, requests, faults>>
history == <<lost, shared, dropped, stranded>>

NoRow == [st |-> "none", should |-> "unknown", task |-> NoId]
NoTask == [st |-> "none", claimed |-> FALSE, raw |-> None]

\* An item as a query reads it: its row, and the task of that row.
Snap(r) == [id |-> r, row |-> raw[r],
            task |-> IF raw[r].task = NoId THEN NoTask ELSE task[raw[r].task]]

\* As much of it as the reader uses: the row without its task, and nothing but the name.
RowOf(r) == [id |-> r, row |-> raw[r], task |-> NoTask]
Name(r) == [id |-> r, row |-> NoRow, task |-> NoTask]

Idle == [at |-> "off", run |-> 0, todo |-> <<>>, list |-> {}, seen |-> {},
         hold |-> Name(None), made |-> NoId]

\* A server starts with items that are pending or published from before.
Init ==
  /\ run = [n \in Runs |-> [type |-> "none", st |-> "none"]]
  /\ task \in [Tasks -> {NoTask} \cup {[st |-> "OPEN", claimed |-> FALSE, raw |-> r] : r \in Raws}]
  /\ \A t, u \in Tasks : t < u /\ task[u] # NoTask => task[t].raw \notin {task[u].raw, None}
  /\ \E pending \in SUBSET {r \in Raws : \A t \in Tasks : task[t].raw # r} :
       raw = [r \in Raws |->
                IF r \in pending THEN [NoRow EXCEPT !.st = "PENDING"]
                ELSE IF \E t \in Tasks : task[t].raw = r
                THEN [st |-> "PUBLISHED", should |-> "yes",
                      task |-> CHOOSE t \in Tasks : task[t].raw = r]
                ELSE NoRow]
  /\ worker = [w \in Workers |-> Idle]
  /\ requests = 0 /\ faults = 0
  /\ lost = {} /\ shared = {} /\ dropped = {} /\ stranded = {} /\ alone = {}
------------------------------------------------------------------------------
(***************************************************************************)
(* Parts of a step.                                                         *)
(***************************************************************************)
Phase(w) == Head(worker[w].todo)
Item(w) == worker[w].hold.id
InHand(w) == {s.id : s \in worker[w].list} \cup {Item(w)}

At(w, place) == worker[w].at = place
Go(w, place) == worker' = [worker EXCEPT ![w].at = place]

\* The loop goes on to its next item.
NextItem(w) ==
  worker' = [worker EXCEPT ![w].at = "next", ![w].hold = Name(None), ![w].made = NoId]

\* Whoever changes a row or a task disturbs all the other workers.
Disturbs(w) == alone' = alone \cap {w}

Put(w, status, should) ==
  /\ raw' = [raw EXCEPT ![Item(w)].st = status, ![Item(w)].should = should]
  /\ Disturbs(w) /\ UNCHANGED <<task, queue, history>>

SetTask(w, status) ==
  /\ task' = [task EXCEPT ![worker[w].hold.row.task].st = status]
  /\ Disturbs(w) /\ UNCHANGED <<raw, queue, history>>

\* An error leaves the phases: of a run it is stored, of a request it is the answer.
Raise(w) ==
  worker' = [worker EXCEPT ![w] =
    IF w = Drain THEN [Idle EXCEPT !.at = "fail", !.run = worker[w].run] ELSE Idle]

\* Where an error goes: the fetch of a repository gives up the repository, the fetch of a
\* program and a publication give up the item, scoring and reconciliation everything.
Catch(w) ==
  CASE Phase(w) \in {"closed", "issues"} ->
         worker' = [worker EXCEPT ![w] = [Idle EXCEPT !.at = "end", !.run = worker[w].run]]
    [] Phase(w) \in {"programs", "direct", "publish"} /\ ~At(w, "list") -> NextItem(w)
    [] OTHER -> Raise(w)
------------------------------------------------------------------------------
(***************************************************************************)
(* Runs and requests.                                                       *)
(***************************************************************************)
StartRun(type) ==
  \E n \in Runs :
    /\ run[n].st = "none" /\ \A m \in 1 .. n - 1 : run[m].st # "none"
    /\ requests < MaxRequests /\ requests' = requests + 1
    /\ run' = [run EXCEPT ![n] = [type |-> type, st |-> "QUEUED"]]
    /\ UNCHANGED <<raw, task, worker, faults, history, alone>>

Call(c, type) ==
  /\ At(c, "off") /\ type # "SCORE_AND_PUBLISH"
  /\ requests < MaxRequests /\ requests' = requests + 1
  /\ worker' = [worker EXCEPT ![c] = [Idle EXCEPT !.at = "list", !.todo = Phases[type]]]
  /\ UNCHANGED <<run, raw, task, faults, history, alone>>

Queued == {n \in Runs : run[n].st = "QUEUED"}

\* The interval (or startRun, or the end of the run before) lets the drain look for the
\* oldest run; a query or a first write that fails leaves it to the next interval.
FindRun ==
  \E n \in Queued :
    /\ At(Drain, "off") /\ \A m \in Queued : n <= m
    /\ run' = [run EXCEPT ![n].st = "RUNNING"]
    /\ worker' = [worker EXCEPT ![Drain] =
                    [Idle EXCEPT !.at = "list", !.run = n, !.todo = Phases[run[n].type]]]
    /\ UNCHANGED <<raw, task, requests, faults, history, alone>>

End(w) ==
  /\ At(w, "end")
  /\ worker' = [worker EXCEPT ![w] = Idle]
  /\ run' = IF w = Drain THEN [run EXCEPT ![worker[w].run].st = "COMPLETED"] ELSE run
  /\ UNCHANGED <<raw, task, requests, faults, history, alone>>

StoreError ==
  /\ At(Drain, "fail")
  /\ run' = [run EXCEPT ![worker[Drain].run].st = "FAILED"]
  /\ worker' = [worker EXCEPT ![Drain] = Idle]
  /\ UNCHANGED <<raw, task, requests, faults, history, alone>>
------------------------------------------------------------------------------
(***************************************************************************)
(* The loops.                                                               *)
(***************************************************************************)
\* The items an external source may answer a phase with; the other phases ask nobody.
Answers(w) ==
  CASE Phase(w) = "closed" -> SUBSET Github
    [] Phase(w) = "programs" -> SUBSET HackerOne
    [] OTHER -> {worker[w].seen}

\* Mutant.
StillPublished == {Snap(r) : r \in {x \in Github : raw[x].st = "PUBLISHED"}}

\* What a reconciliation goes through: every issue with a task, whatever its row says.
Published == {Snap(r) : r \in {x \in Github : raw[x].task # NoId}}

ListOf(phase, seen) ==
  CASE phase = "closed" -> {Snap(r) : r \in {x \in Github \ seen :
                              raw[x].st \in {"PENDING", "SCORING", "SCORED", "PUBLISHED"}}}
    [] phase \in {"issues", "programs"} -> {Name(r) : r \in seen}
    [] phase = "direct" -> {RowOf(r) : r \in {x \in HackerOne :
                              raw[x].task = NoId /\ raw[x].st \in {"PENDING", "SCORED"}}}
    [] phase = "score" -> {Name(r) : r \in {x \in Raws : raw[x].st = "PENDING"}}
    [] phase = "reconcile" -> Published
    [] phase = "publish" -> {RowOf(r) : r \in {x \in Raws :
                              raw[x].st = "SCORED" /\ raw[x].should = "yes"}}

ReadList(w) ==
  /\ At(w, "list")
  /\ \E seen \in Answers(w) :
       LET list == ListOf(Phase(w), seen) IN
       /\ worker' = [worker EXCEPT ![w].at = "next", ![w].seen = seen, ![w].list = list]
       /\ shared' = shared \cup
            {r \in {s.id : s \in list} : \E o \in Workers \ {w} : r \in InHand(o)}
  /\ alone' = IF Phase(w) \in {"closed", "reconcile"} THEN alone \cup {w} ELSE alone
  /\ UNCHANGED <<raw, task, queue, lost, dropped, stranded>>

EndPhase(w) ==
  LET rest == Tail(worker[w].todo) IN
  /\ At(w, "next") /\ worker[w].list = {}
  /\ worker' = [worker EXCEPT ![w].todo = rest,
                              ![w].seen = IF Phase(w) = "closed" THEN @ ELSE {},
                              ![w].at = IF rest = <<>> THEN "end" ELSE "list"]
  /\ alone' = alone \ {w}
  /\ UNCHANGED <<raw, task, queue, history>>

Unclaimed(s) == s.task.st \in {"OPEN", "REVIEWING"} /\ ~s.task.claimed

\* Mutant.
CancelClaimed(s) ==
  IF s.task.st \notin {"OPEN", "REVIEWING"} THEN {"next"}
  ELSE IF s.row.st = "SKIPPED" \/ s.row.should = "no" THEN {"cancel"}
  ELSE {"cancel", "next"}

\* A task somebody submitted to goes under review; the policy may give up the others.
Reconcile(s) ==
  IF s.task.st \notin {"OPEN", "REVIEWING"} THEN {"next"}
  ELSE IF s.task.st = "OPEN" /\ s.task.claimed THEN {"review"}
  ELSE IF s.row.st = "SKIPPED" \/ s.row.should = "no" THEN {"cancel"}
  ELSE {"cancel", "next"}

\* What the body of the loop does with an item; a choice is the policy's or GitHub's.
Steps(phase, s) ==
  CASE phase = "closed" -> {"hide"}
    [] phase \in {"issues", "programs"} -> {"look"}
    [] phase = "score" -> {"lock"}
    [] phase = "reconcile" -> Reconcile(s)
    [] OTHER -> IF s.id \in HackerOne /\ s.row.task # NoId THEN {"next"} ELSE {"hide", "create"}

Take(w) ==
  /\ At(w, "next")
  /\ \E s \in worker[w].list : \E step \in Steps(Phase(w), s) :
       worker' = [worker EXCEPT ![w].at = step, ![w].list = @ \ {s},
                                ![w].hold = IF step = "next" THEN Name(None)
                                            ELSE IF Phase(w) \in {"closed", "reconcile"} THEN s
                                            ELSE Name(s.id)]
  /\ UNCHANGED <<raw, task, queue, history, alone>>
------------------------------------------------------------------------------
(***************************************************************************)
(* One item: fetching.                                                      *)
(***************************************************************************)
Look(w) ==
  /\ At(w, "look")
  /\ worker' = [worker EXCEPT ![w].at = "store", ![w].hold = Snap(Item(w))]
  /\ alone' = alone \cup {w}
  /\ UNCHANGED <<raw, task, queue, history>>

\* Nothing of the item changed and its row says what it would say again.
Reuse(w) ==
  LET row == worker[w].hold.row IN
  /\ At(w, "store") /\ row.st # "none"
  /\ Phase(w) = "issues" => row.st # "SKIPPED" \/ row.should = "no"
  /\ NextItem(w) /\ UNCHANGED <<raw, task, queue, history, alone>>

\* The row the item has, or the new one: create fails when another worker was faster.
MayStore(w) == At(w, "store") /\ (worker[w].hold.row.st = "none" => raw[Item(w)].st = "none")

\* The item is new or has changed: an item without a task starts again.
Store(w) ==
  /\ MayStore(w)
  /\ IF worker[w].hold.row.task = NoId THEN Put(w, "PENDING", "unknown")
     ELSE Disturbs(w) /\ UNCHANGED <<raw, task, queue, history>>
  /\ NextItem(w)

\* The assessment of an issue says that it is not for publication.
StoreSkipped(w) ==
  /\ MayStore(w) /\ Phase(w) = "issues"
  /\ Put(w, "SKIPPED", "no")
  /\ IF Unclaimed(worker[w].hold) THEN Go(w, "cancel") ELSE NextItem(w)

Hide(w) ==
  /\ At(w, "hide")
  /\ Put(w, "SKIPPED", "no")
  /\ IF Phase(w) = "closed" /\ Unclaimed(worker[w].hold) THEN Go(w, "cancel") ELSE NextItem(w)

Cancel(w) ==
  /\ At(w, "cancel")
  /\ SetTask(w, "CANCELLED")
  /\ IF Phase(w) = "reconcile" THEN Go(w, "hide") ELSE NextItem(w)

Review(w) ==
  /\ At(w, "review")
  /\ SetTask(w, "REVIEWING")
  /\ NextItem(w)
------------------------------------------------------------------------------
(***************************************************************************)
(* One item: scoring and publishing.                                        *)
(***************************************************************************)
Lock(w) ==
  /\ At(w, "lock")
  /\ Put(w, "SCORING", raw[Item(w)].should)
  /\ Go(w, "score")

Score(w) ==
  /\ At(w, "score")
  /\ \E should \in {"yes", "no"} : Put(w, "SCORED", should)
  /\ NextItem(w)

\* Mutant.
ScoreForgets(w) ==
  /\ At(w, "score")
  /\ NextItem(w)
  /\ UNCHANGED <<raw, task, queue, history, alone>>

ScoreFails(w) ==
  /\ At(w, "score")
  /\ Go(w, "failed")
  /\ UNCHANGED <<raw, task, queue, history, alone>>

Failed(w) ==
  /\ At(w, "failed")
  /\ Put(w, "FAILED", raw[Item(w)].should)
  /\ NextItem(w)

\* Mutant.
CreateForFirst(w) ==
  /\ At(w, "create")
  /\ \E t \in Tasks :
       /\ task[t] = NoTask /\ \A u \in 1 .. t - 1 : task[u] # NoTask
       /\ task' = [task EXCEPT ![t] =
                    [st |-> "OPEN", claimed |-> FALSE, raw |-> CHOOSE r \in Raws : TRUE]]
       /\ worker' = [worker EXCEPT ![w].at = "link", ![w].made = t]
  /\ Disturbs(w) /\ UNCHANGED <<raw, queue, history>>

Create(w) ==
  /\ At(w, "create")
  /\ \E t \in Tasks :
       /\ task[t] = NoTask /\ \A u \in 1 .. t - 1 : task[u] # NoTask
       /\ task' = [task EXCEPT ![t] = [st |-> "OPEN", claimed |-> FALSE, raw |-> Item(w)]]
       /\ worker' = [worker EXCEPT ![w].at = "link", ![w].made = t]
  /\ Disturbs(w) /\ UNCHANGED <<raw, queue, history>>

\* Mutant.
LinkOnly(w) ==
  /\ At(w, "link")
  /\ raw' = [raw EXCEPT ![Item(w)].task = worker[w].made]
  /\ NextItem(w)
  /\ Disturbs(w) /\ UNCHANGED <<task, queue, history>>

Link(w) ==
  /\ At(w, "link")
  /\ raw' = [raw EXCEPT ![Item(w)].st = "PUBLISHED", ![Item(w)].task = worker[w].made]
  /\ NextItem(w)
  /\ Disturbs(w) /\ UNCHANGED <<task, queue, history>>
------------------------------------------------------------------------------
(***************************************************************************)
(* Failures, and the people who work on the tasks.                          *)
(***************************************************************************)
\* A create that cannot succeed: the item has a row by now, or (a bound) no task is left.
Collides(w) ==
  /\ \/ At(w, "store") /\ ~MayStore(w)
     \/ At(w, "create") /\ NoTask \notin {task[t] : t \in Tasks}
  /\ Catch(w) /\ UNCHANGED <<raw, task, queue, history, alone>>

\* A query, a statement or a call to a source fails.
Throw(w) ==
  /\ worker[w].at \in {"list", "look", "store", "hide", "cancel", "review", "lock",
                       "failed", "create", "link"}
  /\ faults < MaxFaults /\ faults' = faults + 1
  /\ Catch(w)
  /\ lost' = IF At(w, "link") THEN lost \cup {Item(w)} ELSE lost
  /\ dropped' = IF At(w, "failed") THEN dropped \cup {Item(w)} ELSE dropped
  /\ UNCHANGED <<run, raw, task, requests, shared, stranded, alone>>

\* The scorer's first write is executed and its answer lost: the scoring ends with the row
\* marked.  Of the other writes this is what Throw does after them.
LockLost(w) ==
  /\ At(w, "lock")
  /\ faults < MaxFaults /\ faults' = faults + 1
  /\ raw' = [raw EXCEPT ![Item(w)].st = "SCORING"]
  /\ dropped' = dropped \cup {Item(w)}
  /\ Catch(w) /\ Disturbs(w) /\ UNCHANGED <<run, task, requests, lost, shared, stranded>>

\* The same of the drain's first write: the run is marked and the drain has stopped.
FindRunLost ==
  \E n \in Queued :
    /\ At(Drain, "off") /\ \A m \in Queued : n <= m
    /\ faults < MaxFaults /\ faults' = faults + 1
    /\ run' = [run EXCEPT ![n].st = "RUNNING"]
    /\ stranded' = stranded \cup {n}
    /\ UNCHANGED <<raw, task, worker, requests, lost, shared, dropped, alone>>

\* A run's outcome cannot be stored: COMPLETED becomes FAILED, and that may fail as well.
OutcomeLost ==
  \/ /\ At(Drain, "end") /\ Go(Drain, "fail")
     /\ UNCHANGED <<raw, task, queue, history, alone>>
  \/ /\ At(Drain, "fail") /\ faults < MaxFaults /\ faults' = faults + 1
     /\ worker' = [worker EXCEPT ![Drain] = Idle]
     /\ stranded' = stranded \cup {worker[Drain].run}
     /\ UNCHANGED <<run, raw, task, requests, lost, shared, dropped, alone>>

\* Mutant.
CrashForgets ==
  /\ faults < MaxFaults /\ faults' = faults + 1
  /\ worker' = [w \in Workers |-> Idle]
  /\ lost' = lost \cup {Item(w) : w \in {x \in Workers : At(x, "link")}}
  /\ dropped' = dropped \cup {Item(w) : w \in {x \in Workers : worker[x].at \in {"score", "failed"}}}
  /\ stranded' = {} /\ alone' = {}
  /\ UNCHANGED <<run, raw, task, requests, shared>>

\* The server ends, is started again and puts what was running back into the queue.
Crash ==
  /\ faults < MaxFaults /\ faults' = faults + 1
  /\ worker' = [w \in Workers |-> Idle]
  /\ run' = [n \in Runs |-> IF run[n].st = "RUNNING" THEN [run[n] EXCEPT !.st = "QUEUED"] ELSE run[n]]
  /\ lost' = lost \cup {Item(w) : w \in {x \in Workers : At(x, "link")}}
  /\ dropped' = dropped \cup {Item(w) : w \in {x \in Workers : worker[x].at \in {"score", "failed"}}}
  /\ stranded' = {} /\ alone' = {}
  /\ UNCHANGED <<raw, task, requests, shared>>

Submit(t) ==
  /\ task[t].st \in {"OPEN", "REVIEWING"} /\ ~task[t].claimed
  /\ task' = [task EXCEPT ![t].claimed = TRUE]
  /\ alone' = {} /\ UNCHANGED <<raw, worker, queue, history>>

Approve(t) ==
  /\ task[t].claimed /\ task[t].st # "COMPLETED"
  /\ task' = [task EXCEPT ![t].st = "COMPLETED"]
  /\ alone' = {} /\ UNCHANGED <<raw, worker, queue, history>>

\* The owner's startReview and cancel.
StartReview(t) ==
  /\ task[t].st = "OPEN"
  /\ task' = [task EXCEPT ![t].st = "REVIEWING"]
  /\ alone' = {} /\ UNCHANGED <<raw, worker, queue, history>>

OwnerCancels(t) ==
  /\ task[t].st \in {"OPEN", "REVIEWING"}
  /\ task' = [task EXCEPT ![t].st = "CANCELLED"]
  /\ alone' = {} /\ UNCHANGED <<raw, worker, queue, history>>

\* A bound: no loop reads a program's task, so only those of issues are worked on.
People(t) == /\ task[t].raw \in Github
             /\ Submit(t) \/ Approve(t) \/ StartReview(t) \/ OwnerCancels(t)

\* A worker's next statement, none of which fails.
Work(w) ==
  \/ ReadList(w) \/ EndPhase(w) \/ Take(w) \/ End(w)
  \/ Look(w) \/ Reuse(w) \/ Store(w) \/ StoreSkipped(w) \/ Hide(w) \/ Cancel(w) \/ Review(w)
  \/ Lock(w) \/ Score(w) \/ Failed(w) \/ Create(w) \/ Link(w) \/ Collides(w)

Next ==
  \/ \E type \in RunTypes : StartRun(type) \/ \E c \in Calls : Call(c, type)
  \/ FindRun \/ FindRunLost \/ StoreError
  \/ \E w \in Workers : Work(w) \/ ScoreFails(w) \/ Throw(w) \/ LockLost(w)
  \/ OutcomeLost \/ Crash
  \/ \E t \in Tasks : People(t)

Spec == Init /\ [][Next]_vars
------------------------------------------------------------------------------
(***************************************************************************)
(* Properties.                                                              *)
(***************************************************************************)
Rows == [st : RawStatus \cup {"none"}, should : {"yes", "no", "unknown"}, task : Tasks \cup {NoId}]
TaskRows == [st : {"none", "OPEN", "REVIEWING", "COMPLETED", "CANCELLED"}, claimed : BOOLEAN,
             raw : Raws \cup {None}]

\* Every variable has its type; a row refers to a task about its own item, and a worker
\* past the creation of a task holds the one it created.
TypeOK ==
  /\ run \in [Runs -> [type : RunTypes \cup {"none"}, st : RunStatus \cup {"none"}]]
  /\ raw \in [Raws -> Rows] /\ task \in [Tasks -> TaskRows]
  /\ \A r \in Raws : raw[r].task # NoId => task[raw[r].task].raw = r
  /\ \A w \in Workers : At(w, "link") => task[worker[w].made].raw = Item(w)
  /\ requests \in 0 .. MaxRequests /\ faults \in 0 .. MaxFaults
  /\ lost \cup shared \cup dropped \subseteq Raws /\ stranded \subseteq Runs
  /\ alone \subseteq Workers

\* An item becomes one task, however often it is fetched, scored and published again;
\* except when its row never learnt of the task, or two workers had it at a time.
PublishedOnce ==
  \A r \in Raws \ (lost \cup shared) : Cardinality({t \in Tasks : task[t].raw = r}) <= 1

\* A row is in SCORING only while a worker is scoring it, or where one was cut off:
\* no other failure leaves a row in a status from which nothing takes it.
ScoringInHand ==
  \A r \in Raws \ dropped : raw[r].st = "SCORING"
    => \E w \in Workers : Item(w) = r /\ worker[w].at \in {"score", "failed"}

\* An undisturbed worker changes the status of a task only while that is open or under review,
\* and an open one somebody submitted to goes under review.  One under review that somebody
\* submitted to is cancelled by nobody but the reconciliation, which may do so.
ClaimedIsKept ==
  [][\A w \in Workers, t \in Tasks :
       w \in alone /\ worker'[w] # worker[w] /\ task[t].st # "none" /\ task'[t].st # task[t].st
         => /\ task[t].st \in {"OPEN", "REVIEWING"}
            /\ task[t].claimed => IF task[t].st = "OPEN" THEN task'[t].st = "REVIEWING"
                                  ELSE Phase(w) = "reconcile"]_vars

\* A publication first heals what a fetch left half done: after an undisturbed
\* reconciliation no task is open under a skipped row that names it, and none is under review
\* there to which nobody submitted.
ReconcileHeals ==
  [][\A w \in alone, r \in Github :
       EndPhase(w) /\ Phase(w) = "reconcile" /\ raw[r].st = "SKIPPED" /\ raw[r].task # NoId
         => /\ task[raw[r].task].st # "OPEN"
            /\ task[raw[r].task].st = "REVIEWING" => task[raw[r].task].claimed]_vars

\* A run is RUNNING only while the drain works at it: neither an error nor a restart leaves
\* one behind that nobody will take up again, unless the database did not answer the write
\* of RUNNING or refused that of the failure.
RunInHand ==
  \A n \in Runs \ stranded : run[n].st = "RUNNING" => worker[Drain].run = n
------------------------------------------------------------------------------
(***************************************************************************)
(* The inductive invariant.  WorkerOK is about a worker's record alone.    *)
(* An item no two workers shared is in one hand, and the worker that has it *)
(* to score or to publish knows that it has no task (ItemOK).  What an      *)
(* undisturbed worker read is still so (Fresh), and a reconciliation has    *)
(* healed what it has been through (Heals).                                *)
(***************************************************************************)
PhaseNames == {"closed", "issues", "programs", "direct", "score", "reconcile", "publish"}
ItemPlaces == {"look", "store", "hide", "cancel", "review", "lock", "score", "failed",
               "create", "link"}
Places == ItemPlaces \cup {"off", "list", "next", "end", "fail"}
MakePlaces == {"look", "store", "lock", "score", "failed", "create", "link"}
Snaps == [id : Raws \cup {None}, row : Rows, task : TaskRows]

Worker == [at : Places, run : Runs \cup {0}, todo : Seq(PhaseNames), list : SUBSET Snaps,
           seen : SUBSET Raws, hold : Snaps, made : Tasks \cup {NoId}]

WorkerOK(v) ==
  /\ v.at \notin {"off", "end", "fail"} => v.todo # <<>>
  /\ v.at \notin ItemPlaces \cup {"next"} => v.list = {}
  /\ v.at \in ItemPlaces => v.hold.id \in Raws
  /\ v.at \notin ItemPlaces => v.hold = Name(None)
  /\ v.at = "link" => v.made \in Tasks
  /\ v.at = "off" => v.run = 0
  /\ \A s \in v.list : s.id \in Raws \ {v.hold.id}
  /\ \A s, u \in v.list : s.id = u.id => s = u
  /\ v.at = "cancel" => /\ v.hold.task.st \in {"OPEN", "REVIEWING"}
                        /\ v.hold.task.claimed => v.hold.task.st = "REVIEWING"
                                                  /\ Head(v.todo) = "reconcile"
  /\ v.at = "review" => v.hold.task.st = "OPEN" /\ v.hold.task.claimed
  /\ v.at \in MakePlaces => Head(v.todo) \notin {"closed", "reconcile"}

\* A run in the queue is of a known kind; a task somebody once read about is still about
\* the same item.
QueueOK == \A n \in Runs : run[n].st # "none" => run[n].type \in RunTypes
RunKnown == /\ ~At(Drain, "off") => worker[Drain].run # 0
            /\ worker[Drain].run # 0 => run[worker[Drain].run].type \in RunTypes
SnapOK(s) == s.row.task # NoId => task[s.row.task].raw = s.id
HandsOK == \A w \in Workers : \A s \in worker[w].list \cup {worker[w].hold} : SnapOK(s)

\* The worker has r to score or to publish, which it read to have no task.
ForTask(w, r) ==
  \/ r \in {s.id : s \in worker[w].list} /\ Phase(w) \in {"direct", "score", "publish"}
  \/ Item(w) = r /\ worker[w].at \in {"lock", "score", "failed", "create", "link"}

ItemOK(r) ==
  /\ \A w, o \in Workers : r \in InHand(w) /\ r \in InHand(o) => w = o
  /\ \A w \in Workers : ForTask(w, r) => raw[r].task = NoId
  /\ \A w \in Workers : At(w, "store") /\ Item(w) = r
                          => worker[w].hold.row.task = raw[r].task
  /\ raw[r].st \in {"PENDING", "SCORING", "SCORED"} => raw[r].task = NoId

\* A task is known to the row of its item, or its worker is about to tell the row.
TaskKnown(r, t) ==
  task[t].raw = r => \/ raw[r].task = t
                     \/ \E w \in Workers : At(w, "link") /\ Item(w) = r /\ worker[w].made = t

OneTask == /\ \A r \in Raws \ shared : ItemOK(r)
           /\ \A r \in Raws \ (lost \cup shared), t \in Tasks : TaskKnown(r, t)

Typing == /\ TypeOK /\ QueueOK /\ HandsOK
          /\ worker \in [Workers -> Worker] /\ \A w \in Workers : WorkerOK(worker[w])

Now(s) == s.task = IF s.row.task = NoId THEN NoTask ELSE task[s.row.task]
Fresh(w) ==
  /\ \A s \in worker[w].list : Phase(w) \in {"closed", "reconcile"} => s = Snap(s.id)
  /\ \/ worker[w].at \in {"store", "cancel", "review"}
     \/ At(w, "hide") /\ Phase(w) = "closed"
     => Now(worker[w].hold)

Healed(r) ==
  raw[r].st = "SKIPPED" /\ raw[r].task # NoId
    => /\ task[raw[r].task].st # "OPEN"
       /\ task[raw[r].task].st = "REVIEWING" => task[raw[r].task].claimed
Heals(w) ==
  worker[w].at \in ItemPlaces \cup {"next"} /\ Phase(w) = "reconcile" =>
    /\ \A r \in Github : Healed(r) \/ r \in InHand(w)
    /\ worker[w].at \in {"cancel", "review"} => worker[w].hold.row = raw[Item(w)]
    /\ At(w, "hide") => /\ worker[w].hold.row = raw[Item(w)] /\ raw[Item(w)].task # NoId
                        /\ task[raw[Item(w)].task].st = "CANCELLED"

Inv == /\ Typing /\ RunInHand /\ RunKnown /\ ScoringInHand /\ OneTask
       /\ \A w \in alone : Fresh(w) /\ Heals(w)
==============================================================================
