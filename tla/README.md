# AgentCraft in TLA+

AgentCraft is a task marketplace and project workspace for people and AI agents: a
NestJS API (`src/aifactory-server`) over MySQL through Prisma, a React page
(`src/aifactory-ui`), local runner scripts (`src/scripts`) and container adapters
(`src/docker`). This directory holds specifications of the parts in which several
actors change the same rows, the TLC runs that check them and the TLAPS proofs about
them. `PROJECT.json` maps every definition to the lines it was translated from.

Throughout, *handler* means an HTTP handler or a cron callback of the API. Node runs
one at a time between two `await`s, so a handler is modelled as a process whose steps
are its awaited database statements; whatever it read earlier it keeps in its own
record. Several servers behave the same way, only without shared memory.

## 1. Inventory

| Part | State it keeps | Operations | Speaks to | What is hard | Where |
|---|---|---|---|---|---|
| Task marketplace (`tasks/`, `submissions/`) | `tasks`, `submissions` | create, update, start review, cancel; submit, submit a PR, review; hourly auto-approval; GitHub merge poller | wallet (escrow, payout, refund), GitHub | check, await, act; payment and verdict are two transactions; three actors review the same row | `TaskMarket` |
| Wallet, task settlement (`wallet.service.ts`) | `users.balance`, `transactions`, MySQL named locks | escrow, payout, refund, each a `transfer` under `withRetry` | marketplace | snapshot balance check; lock on a pooled connection | `TaskMarket`, `NamedLock` |
| Wallet, withdrawals and bonus (`wallet.controller.ts`, `blockchain.service.ts`, `auth.service.ts`) | balances, WITHDRAWAL rows, the pool's on-chain balance | register, grant bonus, withdraw, reserve, complete, fail | Polygon | an error says nothing about what the chain does; crash between steps | `Withdrawal` |
| Wallet, daily callbacks (`wallet.cron.ts`) | DAILY_INJECTION rows, locks of the day | daily injection, daily AI tasks | marketplace | several servers, nested locks left on connections | `DailyCron`, `NamedLock` |
| Local runner bridge (`projects.service.ts`, `agent-runtime-launcher.service.ts`, `agentcraft-local-codex-runner.mjs`) | one JSON session per member: status, active request, list of requests; the launcher's tracked messages in memory | send, wait, cancel, reconnect; claim, connect, next, progress, complete, disconnect; repairs on read | the runner on somebody's machine, the page, the coordinator | read-modify-write of the whole session by every handler, lost answers, dead runners, API restarts | `RunnerBridge` |
| Work board (`projects.service.ts`) | work items, assignments, runs, reviews; a status flow per project | create, claim, dispatch, update, run, review, message failure, stale reconciliation | goals, agents' runtime calls | capacity by count-then-create; stale assignment against a terminal item; a handler of many statements | `WorkBoard` |
| Goals (`projects.service.ts`) | goals | create, update, close, reopen, delete; cascade to work items | work board | a transaction's snapshot against handlers under way; one active goal | `ProjectBoard` |
| Coordinator (`projects.service.ts`) | timers and marks of running ticks in memory; the coordinator's switch and last tick in the project's settings | tick, reconcile, plan, dispatch, launch; activate, pause | work board, bridge | ticks that take minutes over a list read once; skipped ticks; read-modify-write of the settings | `Coordinator` |
| Runtime polling sweep (`projects.service.ts`) | per-member polling state | timer, due check, send | bridge | timer overlapping a long sweep, two servers | not modelled |
| Task generator (`task-generator/`) | runs, raw tasks, the tasks published from them | queue and drain of runs, direct requests; fetch, score, publish, reconcile | marketplace, GitHub, HackerOne, LLM | several loops over lists read once; task and row written apart; restart in the middle | `TaskGenerator` |
| E-mail verification (`auth/email-verification.service.ts`) | codes with attempts and expiry | send, verify | mail service | attempts counted after a read, expiry | not modelled |
| Launch of container runtimes | session, containers | start, inspect, stop | Docker, ECS, AgentCore | all of it external | not modelled: I/O |
| Authentication, users, comments, files, API configuration, agent log, terms, MCP server, LLM and GitHub clients, rate limiting, templates, members and secrets, UI | single rows or none | single-row writes, queries, translation of calls | | | not modelled: no step of two actors to get wrong |

How they meet: the marketplace calls the wallet inside its handlers (so one module has
both); the daily callback creates tasks through the marketplace's `create`; registering
grants the bonus from the same pool the withdrawals draw on; the coordinator and the
pages send messages, which for a local runtime go through the bridge; a failing bridge
message fails the assignment behind it on the work board. The coordinator reads the board
and places assignments on it; the generator creates tasks that people then submit to and
are paid for through the marketplace.

### What makes each part correct

* Marketplace and wallet: approval never precedes payment, one worker is paid once for
  one task, only somebody who worked is paid, verdicts are final, balances and ledger
  agree, a submission nobody looks at is approved after a week.
* Withdrawals: an amount is on the platform or on chain; a settled row stays settled;
  COMPLETED means mined.
* Daily callbacks: one injection a day; no callback hangs on a lock left behind.
* Bridge: one waiter per message, no message tracked without one; a typing agent stops
  typing; an answer that arrived is shown; a message that failed does not come back, and
  an old message does not displace a newer one.
* Work board and goals: terminal items are not reopened by stale assignments; an item is
  not taken away from an agent at work; limits; reviews are not bypassed; a goal ends with
  all its work; no assignment stays open under a terminal item.
* Coordinator: nothing is dispatched twice, agents and roles are not overloaded, a goal is
  planned once, an item that asks for a tick gets one, a paused project has none.
* Task generator: an item becomes one task; no row stays in SCORING and no run in RUNNING;
  a task somebody submitted to is kept; a half-done withdrawal of a task is completed.

## 2. Modules

| Module | Contents |
|---|---|
| `NamedLock` | MySQL's `GET_LOCK`/`RELEASE_LOCK` as sent through Prisma's connection pool; used by two modules |
| `TaskMarket` | tasks, submissions and their settlement |
| `Withdrawal` | withdrawals against an external chain, and the signup bonus |
| `DailyCron` | the two daily callbacks on several servers |
| `HoldLedger` | abstract: an amount is held, then settled once; `Withdrawal` implements it |
| `WorkBoard` | work items, assignments, runs and reviews of a project |
| `ProjectBoard` | `WorkBoard` composed with the goals |
| `Coordinator` | the coordinator's ticks, their timer, and the settings they share with pause |
| `TaskGenerator` | the task generator's runs and loops |
| `RunnerBridge` | a message to an agent behind a local runner |
| `TaskMarketProofs`, `WithdrawalProofs`, `DailyCronProofs`, `RunnerBridgeProofs`, `ProjectBoardProofs`, `CoordinatorProofs`, `TaskGeneratorProofs` | theorems |
| `MC*` | instances for TLC: symmetry sets and model values |

An operator under the comment `\* Mutant.` is a wrong variant of the definition after
it. No specification uses it; with it in place of the right one TLC finds the property
`PROJECT.json` names with it violated.

### NamedLock

A lock has an owner, which is a *connection*, and a count. `withMySqlLock` and
`withCronLock` send `SELECT GET_LOCK(...)` and `DO RELEASE_LOCK(...)` as separate
statements of the pooled client, so each is served by any connection: the request that
holds "the lock" may share its connection with another request, which then gets the
lock as well, and a release served by another connection releases nothing and leaves
the lock behind. `MaxDepth` folds higher counts into one, from which a release may or
may not leave the count as it was.

### TaskMarket

`req[r]` is a handler: operation, step, and what it read. `task`, `sub`, `balance`,
`ledger` are the tables; `lock` the named locks per task and worker; `aged` the
submissions older than seven days; `merged` what GitHub knows.

| Actions | Code |
|---|---|
| `CreateTask` | `TasksService.create`: inserts the OPEN task, then escrows |
| `StartReviewRead/Write`, `UpdateRead/Write`, `CancelRead/Write` | the checks, and after an await the write; `cancel` then refunds |
| `SubmitRead`, `SubmitLatest`, `SubmitInsert` | `create`/`submitPr` of submissions: task check, latest version, insert |
| `ReviewRead` … `Finalize` | `review`: check, payout if approved, closing transaction |
| `AutoCompleteRead`, `NextInLoop` | `autoCompleteStaleSubmissions`: one query, then a loop |
| `PollRead`, `PollProcess`, `PollAnswer`, `PollRecheck` | `pollGithubPrSubmissions`: one query, then for each submission a fresh read, GitHub's answer, and before a payment another read |
| `GetLock`, `LockTimeout`, `FindExistingPayout`, `ReadReward`, `CheckBalance`, `CommitTransfer`, `AbortTransfer`, `ReleaseLock` | `payout` under its lock, and the `transfer` which escrow and refund share, with `withRetry` |
| `StatementFails`, `Crash` | any awaited statement throws; the process dies |

Abstractions: a transfer's relative updates are one step (one transaction); users who
are looked up by fixed names (the pool) exist, as the seed creates them; rewards, floats
in the code, are small naturals; the callbacks' `take: 20` is not reached.

### Withdrawal

`WalletController.withdraw` as `Withdraw`, `CheckBalance`, `Reserve`, `SendTransfer`,
`AwaitReceipt`, `CompleteWithdrawal`, and its catch block `FailWithdrawal`. The chain is
external: a transfer a node has seen is mined or dropped on its own (`Mine`, `Drop`). A
failing statement may have been executed (`CompleteWithdrawal`, `SendTransfer`).

`HoldLedger` says what all this promises without requests, retries or crashes: a hold is
taken from an account, sent off at most once, and either paid (only after it was sent) or
returned, once, with the money following. `Ledger` is its instance under the mapping PENDING
to held, COMPLETED to paid, FAILED to returned, `mined` to sent; `ImplementsLedger` says that
`Withdrawal` implements it. That a returned hold was not sent is not part of it: the code
does not promise that (section 6).

### DailyCron

A run is a callback on a server. It takes the callback's lock, the injection also
`injectDaily`'s own, each on any connection of that server's pool. `Midnight` changes the
names of the locks and the day the existing-row query looks at.

### RunnerBridge

`sess` is the stored session, cut down to what the control depends on: status, active
request, whether the runner is connected, the job description, `lastError`,
`lastResponseAt`, and the list of requests with their states. `call[c]` is a handler
between its read and its write; `next` is the session it will write. `Write` applies
`preserveQueuedLocalRuntimeBridge` (`Preserved`) to it and the session stored by then,
which is all that stands between two handlers. `waiter[r]` is the asynchronous
`processAgentRuntimeMessage` of message `r`, `tracked` the launcher's
`activeMessageControllers`, `runner` the worker of the runner script. `alone` in a handler is
history: nobody wrote the session since the handler read it.

| Actions | Code |
|---|---|
| `Send`, `Cancel`, `Reconnect` | the user's handlers; `Send` under the in-memory send lock |
| `Refresh`, `RecoverOnRead` | listing the runtimes (writes always) and every other reader (writes what `recoverPersistedRuntimeSession` changed) |
| `Recovered`, `Inspected` and the operators they use | the repairs, in their order |
| `TrackActiveMessage`, `Enqueue`, `Poll`, `Deadline`, `Finish`, `Fail`, `PrepareFails`, `Beat` | the waiter: prompt, enqueue into the session *as it was when sent*, look once a second, settle |
| `Claim`, `Connect`, `NextRequest`, `Progress`, `Complete`, `Disconnect` | the runner's calls |
| `AnswerLost`, `CallFails`, `Killed` | the network and the machine of the runner |
| `Crash` | the API restarts: handlers, waiters, tracked messages, send lock are gone |

Time is left to two choices: `quiet` (the heartbeat is stale) and `aged` (the active
request made no progress for long), limited by what the runner and the waiter are
doing. Left out: conversations and file sync, steering messages, the assignment behind
a message, the Docker variant's start; WAITING_CONFIRMATION is IDLE; the bridge keeps its
last 20 requests, more than any instance sends.

### WorkBoard and ProjectBoard

A handler is `call[c]`: the operation, its next statement and what it has read.
`alone[c]` is history: nobody else wrote to the board since the handler began; it tells what
a handler does from what an overlap does to it.

| Actions | Code |
|---|---|
| `CreateStart`, `CreateCapacity`, `CreateInsert` | `createWorkItem`, owner's and agents' |
| `OwnerSets`, `RuntimeSets`, `SetItem` | `updateWorkItem`, `updateWorkItemFromRuntime` with its review gate, which it asks only when the status is all that is sent (`statusOnly`) |
| `ManagerAssigns`, `ClaimStart`, `ClaimPlace` | `createAssignment`, `claimWorkItem` |
| `UpdateAssignment`, `AssignmentWrite`, `CountOpen`, `Fetch`, `SetItem` | `updateAssignment`: the row, the count of open siblings, the item read again, the item |
| `MessageFails` | `failAssignmentForRuntimeMessageRefs` |
| `DispatchStart` … `DispatchWake` | `dispatchWorkItem` |
| `CreateRun`, `UpdateRun`, `CreateReview` | runs and reviews, which move the item |
| `ReconcileStart`, `ReconcileFails`, `ReconcileSkips` | `reconcileStaleOpenAssignments` |
| `CreateGoal`, `StartGoal`, `ParkGoal`, `FinishGoal`, `SetGoal` | goals, by owner and agent |
| `CloseSnapshot`, `CloseCommit` | `closeGoal`, `deleteGoal` and `updateGoal` to DONE: one transaction on the snapshot of its first query; it takes the goal's items and those under its features (`under`), of which it may find any over (`linked`) |
| `StatementFails` | any awaited statement throws |

An agent that is a reviewer is known by its runtime's role, whatever the role of the assignment
it completes. An agent's DONE looks for open items of the goal itself only, a close also takes
those linked through features: `OpenWork` and `Affected`.

The default status flow is fixed. Left out: what an edit changes beside the status (an item moved
to another goal or feature), the features' own status, a project's own flow, PENDING reviews and posting
the same status again, checkpoints, messages of a run, `dependsOn` (in `Coordinator`).

### Coordinator

A tick is a call whose steps are `tickProjectCoordinator`'s: `Manager` (is it on, is another
tick under way), `LastTick`, `Reconcile`, `Planner`/`Plan`, `Query`, and for every candidate
`Consider`, `FindIdle`, `CountRole`, `Capacity`, `LaunchPick`, `LaunchDone`, `Place`, `Wake`;
`DispatchFails`, `TickEnds`, `Throws`. `Fire` is the debounced timer, `Schedules` what starts
it; `StatusRead`, `StatusWrite`, `StatusTimers` are `setProjectStatus`. People and agents
act between the steps: `CreateItem`, `SetItem`, `Assign`, `Start`, `Complete`, `Fail`,
`Launch`, `Becomes`, `Sweep`; `Crash` loses the timer and every tick. The board's handlers
are one step each here, as `ProjectBoard` has their interleavings.

History: `why[i]` is the reason for which no tick is going to look at the dispatchable item
`i` ("" if one is): a tick that was looking at it decided (`looked`); there were more candidates
than it reads (`scan`: `candidateScanLimit`, of which `Query` takes any so many); it gave up the
rest of its list, for want of a model for a new agent (`model`: `MODEL_API_MISSING`), of room for
one, or because its dispatches were used up (`limit`); it was skipped because another one was
already past its query (`skipped`), found the coordinator `off`, threw (`failed`), or was lost
(`crash`); or the item's status changed without a tick being asked for (`silent`). `hired` are
the agents that took up work since a tick counted those at work and may launch one more: the
limit is on what the coordinator counts.

Whether an idle agent is reused is a choice of `FindIdle`: the rule of an item may bar it
(`coordinatorRuleAllowsIdleRuntimeReuse`; `forceLaunchNew` is true by default), or ask for another
type of agent. Then a new agent is launched although idle ones are there, and
`activeCoordinatorRoleCount` does not count them. Which rule applies and whether a resource is
missing is a choice of `Consider`, whether a model is missing one of `ModelMissing`.

Left out: more than one goal or role; a role or project without a limit; the 20 planning items of
a goal that `ensurePlannerItemsForUnanalysedGoals` reads at most;
`updateProjectCoordinatorConfig`; locks of other processes.

### TaskGenerator

`worker[w]` is the drain of the queue or a direct request: the phases it still has to go
through, what is left of the list it read, the item in hand.

| Actions | Code |
|---|---|
| `StartRun`, `FindRun`, `End`, `StoreError`, `OutcomeLost` | `startRun`, `drainQueuedRuns` |
| `Call` | the controller's direct requests |
| `ReadList`, `Take`, `EndPhase` | the query and the loop each phase is |
| `Hide`, `Cancel` | `reconcileClosedIssues`; `Cancel`, `Hide`, `Review` also `reconcileOpenGithubTasks` |
| `Look`, `Reuse`, `Store`, `StoreSkipped` | the two fetchers' `upsertRawTask` |
| `Lock`, `Score`, `ScoreFails`, `Failed` | `scorePending` |
| `Create`, `Link`, `Hide` | `publish`, `publishHackerOneRawTask` |
| `LockLost`, `FindRunLost` | the write of SCORING, or of RUNNING, is executed and its answer lost |
| `Throw`, `Collides`, `Crash` | a statement or a source fails; a unique key; the server restarts and requeues what ran |
| `Submit`, `Approve`, `StartReview`, `OwnerCancels` | what people do to the tasks meanwhile (`People`: to those of issues, as no loop reads a program's) |

Scores, the assessment of an issue, the publish policy and GitHub's answers are choices
(`Steps`, `Reconcile`, `Answers`, `Score`). Left out: batch limits, the program filter of a
direct publication, several repositories, a second server; a write of SCORED whose answer is lost,
which the code overwrites with FAILED; the owner's two handlers are one step each, as `TaskMarket`
has theirs. A fetch that finds no
allowed repository fails its run in the code and completes it here.

## 3. Runs

| Run | Question | Bounds |
|---|---|---|
| `market_serial` | what may a retry rely on, one request at a time, after any failure or crash; is a stale submission reviewed in the end? | 2 users, 1 task, 2 submissions, rewards 0 to 2 of a pool of 1, 4 requests |
| `market_overlap` | what holds although review, poller and hourly callback overlap? | 2 handlers, 2 connections, 1 GitHub task, 1 submission |
| `market_settle` (violated) | does the escrow leave the pool once? | 2 submissions |
| `market_double_payout` (violated) | is a worker paid once although payments overlap? | 2 handlers, 2 connections |
| `withdrawal_overlap` | do two overlapping withdrawals implement the ledger of holds? | 2 users, 3 rows, 2 handlers |
| `withdrawal_refunded` (violated) | is a refunded amount never on chain? | 1 of each |
| `daily` | one injection a day and no hanging callback, on two servers? | 2 servers with 2 connections, 2 days |
| `bridge` | one waiter per message, who may revive a failed one, typing ends, an answer is shown? | 1 message, 1 handler at a time beside waiters, runner and repairs |
| `board` | what may handlers, agents and goals do to each other's items? | 2 items, 2 goals, 2 assignments, 1 run, 1 review, 4 requests; limits 1 |
| `coordinator` | is work dispatched once, within the limits, and is no item forgotten? | 2 planner items, 1 item, 2 agents, 2 handlers, 2 outside events; limits 1 and 2; a tick reads and dispatches 2 items |
| `coordinator_paused` (violated) | is a paused project's coordinator off? | the same |
| `generator` | does an item become one task, and does nothing get stuck? | 1 issue, 1 program, 2 runs or requests, 2 tasks, 1 failure or crash |

Why the bounds are enough to meet the hard cases. Marketplace: a double payment, a re-approval
and a resubmission need one task, one worker and two submissions; an overlap needs two
handlers; a lock left behind needs a second connection. Four requests let a task be created,
submitted to, sent back and resubmitted, beside any number of hourly callbacks; MaxTries 2 has
one retry; a pool of 1 and rewards up to 2 have rewards the pool can and cannot cover.
Withdrawals: one user holds at most one bonus, so overdrawing needs two overlapping
withdrawals of it. Daily: two servers are the case the lock is for, two connections each let
it leak. Bridge: with one call slot handlers still overlap with the waiters, the runner, the
repairs and restarts, since a waiter enqueues its old snapshot and an answer may be lost with
the call still under way. Board: a stale assignment beside a new one needs two assignments of
one item, a limit one item more than it admits; one handler of several statements overlaps
with those of one (`Direct`), and `alone` tells the two cases apart; an item linked to a goal only
through its feature needs a second goal. Coordinator: two ticks at
a time are needed to plan or dispatch twice, a limit of one agent at work and two agents to
exceed it; with three items and two read by a tick one is left for the next. A timer may be
running from the start, so that two outside events are enough to have two ticks and one change
under them. Generator: two workers give every overlap
of two loops (queue and request, or two runs one after the other), starting from any mixture
of new, pending and published items, so that one fetch, scoring or publication already meets
what others left; two tasks are what publishing twice needs.

The safety properties and action properties of the passing runs do not depend on these
numbers: section 5 proves them for all of them. The runs check the inductive invariant
`Inv` of every module but `DailyCron` on an instance, say which change of the code would break
which property (the mutants), and check liveness.

A run with `CHECK_DEADLOCK FALSE` is one whose bounds (requests, rows, days, messages)
run out.

## 4. Liveness and fairness

* `StaleIsReviewed`: the hourly callback comes again and again and every handler moves on
  (WF); a statement of the callback may fail any number of times, and the process may crash
  any number of times, but a statement that is tried again and again is not unlucky every
  time (SF). It speaks of rewards from 1 to what the pool has: `transfer` refuses an
  amount of 0 and one the pool cannot cover, the callback logs it and tries again in an
  hour, for ever.
* `RunsEnd`: a run goes on, failing or not (WF of `Step`); `Midnight` waits for the runs
  of the day, a callback being much shorter than a day.
* `TypingEnds`, `AnswerShown`: handlers write what they computed, waiters go on (WF); the call
  slots are a bound of the model, so nobody is refused one for ever (SF of `Settles`);
  somebody keeps reading the session (SF of `RecoverOnRead`: the page lists the runtimes
  every 30 s, the coordinator's tick calls `recoverProjectRuntimeSessions`); a CLI that
  was started ends or dies (`RunEnds`); in the end the API is no longer restarted; and the two
  timeouts are configured. Without them, which is the default, a request whose runner lost
  it but goes on polling stays RUNNING and the agent goes on typing.

* `StaleAssignmentEnds`: handlers go on (WF), and reconciliations come again and again and
  get through some time (SF): every tick and every listing of the board starts one.
* `LookedAt`: the event loop runs what is ready or a timer that is due (one WF of all steps of the
  ticks and of `Fire` together).

The generator is checked for safety only: `RunInHand` and `ScoringInHand` say that nothing
is left where nobody takes it up, which needs no fairness.

## 5. Proofs

| Theorem | Statement | Argument |
|---|---|---|
| `TaskMarketProofs!Invariance` | `Spec => []Inv` | `RowsOK` (rows refer to rows), `RequestOK` (what a handler's step says about the rows it read) and the three safety properties are inductive together: `ApprovedWasPaid` alone is not, as it needs that a handler at `finalize` has its payment in the ledger, which needs that it came through `release`, and that a row's task and worker never change |
| `TypeCorrect`, `ApprovedIsPaid`, `PaidWorked`, `CompletedIsApproved` | its consequences | from `Inv` |
| `LedgerExplains` | balances and transactions agree, whatever overlaps | only `CommitTransfer` touches either. A statement is a recursive function over the rows; that it exists, and that a further row adds its amount, is shown from the smallest row for which it would fail (`SmallestOne`: < is well-founded on Nat), without an induction rule |
| `PaysOnceAlone`, `NoOverdraftAlone`, `VerdictStaysAlone` | with one request at a time: one payment per worker, no overdraft, verdicts are final | `SerialInv`: what a request read last still holds when it writes (a submission it reviews is SUBMITTED, a payment it searched for is not there, a balance it compared suffices), also for the rest of a callback's list. The hypothesis `Alone` (one slot, any number of crashes, failures and retries) is needed: `market_double_payout` shows the first violated with two |
| `WithdrawalProofs!Invariance` | `Spec => []Inv` | a request past its reservation is the only owner of its row (`OwnRow`), and the row is PENDING, or COMPLETED if the answer of the completion was lost |
| `CompletedOnChain`, `SettledForGood` | COMPLETED was mined; no settled row is written again | from `Inv`, the second as an action property |
| `WithdrawalProofs!Implementation` | `Spec => Ledger!Spec`, the ledger of holds | initial states map to initial states; every statement maps to one action of `HoldLedger` (the reservation is `Take`, mining `SendOff`, the completion `Pay`, the refund `Return`, the bonus `GrantTo`) or a stutter; that a paid hold was sent is `CompletedWasMined`, from `Inv` |
| `DailyCronProofs!OneInjection`, `MutualExclusion` | one injection a day; one server inside a callback | `RunOK`: who is inside a lock has it *on a connection of its own server*, so leaks and re-entrance cannot let a second server in, and nobody injects between the search and the insert |
| `RunnerBridgeProofs!Invariance`, `OneWaiterOnly`, `TrackedIsWaitedFor` | one waiter per message; nothing tracked without somebody waiting | `OneWaiter` needs `Untouched` (a message not yet accepted has no waiter), the send lock in `Send`'s guard, and that every other handler begins with another operation; each repair is shown to make a session of a session. `Min` and `Max` of a set of messages exist because < is well-founded on Nat (`SmallestOne`) |
| `NotRevivedInTime` | a failed message comes back only by the write of a handler somebody overtook | `NotStale`: a handler in time makes no failed message active, as no repair, no user's handler and no call of the runner puts another message than the active one in its place (`Keeps`), except a send, whose message is new, a progress, which looks at the request first, and what follows them. A send's message is new because nobody knows of it (`NotQueued`), and an enqueue makes its own message active or none (`SendsOwn`) |
| `ProjectBoardProofs!StaleNeverReopens`, `NobodyLosesWork`, `LimitsHold`, `ReviewComesFirst`, `GoalsEndClean` | the action properties of the board | `Invariance`: rows are never deleted, so what a handler has in hand exists and keeps its place, and while `alone` a handler's knowledge (what it read of the item, what it counted, what its snapshot holds) is still true. A step writes nothing, or ends the `alone` of everybody else: two kinds of steps, one short lemma for each action |
| `CoordinatorProofs!NoDoubleDispatch`, `ReusedAgentsAreFree`, `RoleLimitHolds`, `GoalsPlannedOnce`, `NothingForgotten` | nothing is dispatched twice, no agent is launched past the role's limit of agents at work, one plan per goal, every wish for a tick is granted or its loss explained | `Invariance`: one tick is past `Manager`; an item still on its list has only assignments others opened under it; a tick that counted has room for one more agent at work, but for those `hired` since; every dispatchable item is covered by a timer, by a tick that has not passed it, or by `why` |
| `TaskGeneratorProofs!OneTaskPerItem`, `NoneStuckScoring`, `NoneStuckRunning`, `ReconciliationHeals`, `ClaimedTasksKept` | an item becomes one task; nothing is left in SCORING or RUNNING; a reconciliation nobody disturbs leaves nothing half withdrawn, and a worker nobody disturbs changes no task against the wish of people | `Invariance`: what a worker has in hand, and that a row outside the two cases the property names is in one worker's hand; a worker nobody disturbed (`alone`) knows the rows and tasks it read (`Fresh`) and leaves none half done (`Heals`) |
Assumptions: only the named ASSUMEs of the modules (ids apart from the null values,
amounts natural, one connection per server at least, ...). No bound is assumed: users,
tasks, handlers, connections, servers, rows and messages are any sets or numbers.

So every invariant, every action property and the refinement that a passing run checks is
proved. Only model-checked are the liveness properties (`StaleIsReviewed`, `RunsEnd`,
`TypingEnds`, `AnswerShown`, `StaleAssignmentEnds`, `LookedAt`), for want of ENABLED in the
provers, and the claims the code does not keep, each by a counterexample.

Two properties were restated on the way, as their proofs failed for a reason. `NotRevived` was
about one handler at a time; with three messages the late enqueue of one of them overtakes even a
single handler, so it now names the write of an overtaken handler, for any number of
them. `LedgerExplainsBalances` summed two functions over the ledger; as a statement read row
by row it says the same and can be reasoned about.

## 6. Findings

1. `market_settle`: nothing looks at the task's status before a payout, so two workers
   of one task are both paid, and a submission of a cancelled, refunded task is paid.
2. `market_double_payout`: the named lock does not exclude a payout whose `GET_LOCK` is
   served by the same pooled connection; one worker is paid twice.
3. `withdrawal_refunded`: the catch block of `withdraw` refunds after the transfer went
   out; the amount ends up on the platform and on chain.
4. `coordinator_paused`: a tick writes the project's settings back as it read them, with a new
   `lastTickAt`; a pause written meanwhile is undone, the project is PAUSED and its
   coordinator on.

Gaps the models show without a run, as no text of the repository promises otherwise:
`create` leaves an OPEN task behind when its escrow fails, and its payout is then made from
what others escrowed; of two overlapping reviews the later write wins, so a paid submission
can end REJECTED; a submission is inserted after two awaits, when its task may be closed; two overlapping escrows or withdrawals overdraw an account; a crash
between `reserveWithdrawal` and its outcome leaves the row PENDING for good, and a lost
signup bonus is not granted later; `dailyAiTasks` has no search for what was published
today.

In the bridge: a handler that another one, or the enqueue of a message, overtook between its
read and its write revives a failed message (`NotRevived` says that nothing else does; the
merge looks at the active request only when the writer omits it); a message cancelled before
it was enqueued is enqueued all the same, with the session as it was when sent, over a newer
one; a runtime that connects becomes IDLE whatever is queued, so a second message is accepted
while the first waits; `requests/next` can hand a request out again that a snapshot put back
to PENDING; an ERROR posted after a lost answer overwrites COMPLETED; a claim whose runner
dies leaves STARTING until the next claim or a cancel.

On the board: the review gate is asked only when the status is the only field sent
(`projects.service.ts:12838`), so an agent that may edit items takes one past its reviewer
with any further field (`RuntimeSets`; `ReviewGate` is about the status sent alone); an agent
ends a goal although items linked to it through a feature only are open; a failed message
sends an item back for revision although it is over, for want of the terminal check
`updateAssignment` has, and runs and reviews write without it; an item whose assignment is
RELEASED or whose run is CANCELLED, or whose dispatch dies in between, stays ASSIGNED; a
reconciliation writes FAILED over an assignment completed since its query; `closeGoal` closes
CANCELLED items again as REJECTED; of two creations or claims that overlap both pass the
limit; an item created, or an assignment placed, between a closing transaction's snapshot and
its commit stays open under the closed goal; a dispatch places its assignment minutes after
its terminal check; `updateGoal` and `updateGoalFromRuntime` open a CANCELLED goal again,
which `reopenGoal` refuses.

In the coordinator: an idle agent is reused without regard to the role's limit, and is not counted
by it, so that with `forceLaunchNew`, the default, every launch may add an agent to idle ones and a
role has more agents online than `maxAgents` (`RoleLimitKept` is about those at work); an agent
others put to work after the count makes one too many; a missing model for one item ends the
tick for all that are left, and what is past `candidateScanLimit` waits for somebody else to ask
for a tick; a
tick that fires while another is past its query is skipped and not tried again; nothing
schedules a tick when the item another one waits for is ACCEPTED, nor when runtime updates,
runs or message failures put an item back; a crash loses the timers; the owner's launch and the
coordinator's can choose the same pending member; the lock of ticks is one process's.

In the generator: a write of SCORING or RUNNING whose answer is lost leaves the row or the run
so; a task whose link to its row is lost is published again, as is an item two
workers have on their lists (a queued run and a direct request, or two servers); rows being
scored when the server ends stay SCORING until their issue changes; a task that is submitted
to, or paid, after the list was read is cancelled; a second server takes the same QUEUED run,
and its start requeues what another one is running; raw tasks are keyed by source and issue
number, so equal numbers of two repositories collide (`github-fetcher.service.ts:499`); and
`fetchHackerOne` publishes PENDING rows directly, where `Docs.tsx:1406-1407` says that a fetch
creates no task and that only SCORED rows with `shouldPublish` are published.

## 7. Plan

Done, in this order: `TaskMarket` (the money), `Withdrawal`, `DailyCron`, `RunnerBridge`,
`WorkBoard` and `ProjectBoard`, `HoldLedger` with its refinement, `Coordinator`,
`TaskGenerator`.

Proved, in this order: the invariants of `TaskMarket`, `Withdrawal`, `DailyCron` and
`RunnerBridge`; `Withdrawal` implements `HoldLedger`; `TaskGenerator`; `Coordinator`;
`ProjectBoard`; the marketplace without overlap; `NotRevived`; `LedgerExplainsBalances`.

Next:

1. Abstract specifications with a refinement proof for the marketplace (a task is open, under
   work, settled) and for a message behind the bridge (sent, answered or failed).
2. `NamedLock` as a module of its own theorems: what a lock guarantees to connections that are
   not shared, on which `DailyCron`'s and the marketplace's proofs could both rest.

## 8. Not modelled

* Runtime polling sweep: a timer per process that sends due members a message; what can go
  wrong (an overlapping sweep, two servers) ends in a second send, which `RunnerBridge` has.
* E-mail verification: one row per code with a counter and an expiry.
* Launch of container runtimes: Docker, ECS and AgentCore calls, whose state is theirs.
* Members, secrets, owner todos, users, comments, files, operations, agent log, API
  configuration, terms: single-row writes and queries with no second actor.
* MCP server, API and LLM clients, workspace client, templates: translate calls, keep nothing.
* Rate limiting, token queries, adapters and the web page: no state others depend on, or
  presentation. The page alone is more than a third of the implementation's lines.
