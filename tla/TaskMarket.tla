------------------------------ MODULE TaskMarket ------------------------------
(***************************************************************************)
(* The task marketplace: TasksService, SubmissionsService and the part of   *)
(* WalletService they call (escrow, payout, refund).                       *)
(*                                                                         *)
(* A request (an HTTP handler or a cron callback) is a process: one action  *)
(* per database statement or transaction it awaits, with what it read so    *)
(* far in req[r].  Every await is a point where other requests may run.     *)
(***************************************************************************)
EXTENDS NamedLock, Integers, Sequences, FiniteSets

CONSTANTS Users,        \* accounts that create tasks and submit work
          Pool,         \* the reward-pool user
          Tasks,        \* task ids
          GithubTasks,  \* tasks imported from a GitHub issue: PR submissions only
          Subs,         \* submission ids
          NoTask, NoSub, NoUser,
          Reqs,         \* request slots: how many handlers overlap
          Rewards,      \* rewards a creator may set (dto: number >= 0)
          StartBalance, PoolBalance,
          MaxRequests,  \* bound on the user requests of a behaviour
          MaxTries      \* withRetry's retries

ASSUME MarketAssumption ==
  /\ Pool \notin Users /\ NoUser \notin Users \cup {Pool}
  /\ NoTask \notin Tasks /\ NoSub \notin Subs
  /\ IsFiniteSet(Subs)
  /\ GithubTasks \subseteq Tasks
  /\ Rewards \subseteq Nat
  /\ StartBalance \in Nat /\ PoolBalance \in Nat
  /\ MaxRequests \in Nat /\ MaxTries \in Nat \ {0}

VARIABLES task,     \* tasks table
          sub,      \* submissions table
          aged,     \* submissions submitted at least seven days ago
          merged,   \* pull requests merged on GitHub (external)
          balance,  \* users.balance
          ledger,   \* transactions table, in insertion order
          lock,     \* named lock of payout, per task and worker
          req,      \* the requests in flight
          started   \* user requests started so far

vars == <<task, sub, aged, merged, balance, ledger, lock, req, started>>
-------------------------------------------------------------------------------
TaskStatus == {"ABSENT", "OPEN", "REVIEWING", "COMPLETED", "CANCELLED"}
SubStatus == {"ABSENT", "SUBMITTED", "APPROVED", "REVISION_REQUESTED", "REJECTED"}
Validation == {"NOT_APPLICABLE", "PASSED", "FAILED"}

\* Switch of SubmissionsService.review: the two statuses a verdict writes.
SubStatusOf == [APPROVE |-> "APPROVED", REQUEST_REVISION |-> "REVISION_REQUESTED",
                REJECT |-> "REJECTED"]
TaskStatusOf == [APPROVE |-> "COMPLETED", REQUEST_REVISION |-> "OPEN", REJECT |-> "OPEN"]
Verdicts == DOMAIN SubStatusOf

TaskRow == [status : TaskStatus, creator : Users \cup {NoUser}, reward : Nat]
NoTaskRow == [status |-> "ABSENT", creator |-> NoUser, reward |-> 0]

\* at is submittedAt: the position of the row in insertion order.
SubRow == [status : SubStatus, task : Tasks \cup {NoTask}, worker : Users \cup {NoUser},
           version : Nat, at : Nat, validation : Validation]
NoSubRow == [status |-> "ABSENT", task |-> NoTask, worker |-> NoUser,
             version |-> 0, at |-> 0, validation |-> "NOT_APPLICABLE"]

TxnRow == [type : {"TASK_ESCROW", "TASK_PAYOUT", "TASK_REFUND"}, task : Tasks,
           from : Users \cup {Pool}, to : Users \cup {Pool}, amount : Nat]

Ops == {"none", "create", "startReview", "update", "cancel", "submit", "review",
        "autoComplete", "poll"}
Steps == {"idle", "write", "latest", "insert", "next", "pollRead", "github", "recheck",
          "lock", "existing", "reward", "check", "commit", "release", "giveUp", "finalize"}
Request == [op : Ops, at : Steps, user : Users \cup {NoUser}, task : Tasks \cup {NoTask},
            sub : Subs \cup {NoSub}, verdict : Verdicts, amount : Nat, tries : Nat,
            version : Nat, todo : SUBSET Subs]
Idle == [op |-> "none", at |-> "idle", user |-> NoUser, task |-> NoTask, sub |-> NoSub,
         verdict |-> "APPROVE", amount |-> 0, tries |-> 0, version |-> 0, todo |-> {}]

Exists(s) == sub[s].status # "ABSENT"
Accepting(t) == task[t].status \in {"OPEN", "REVIEWING"}
SubsOf(t, w) == {s \in Subs : Exists(s) /\ sub[s].task = t /\ sub[s].worker = w}

\* orderBy [{ version: 'desc' }, { submittedAt: 'desc' }]
IsLatest(s, t, w) ==
  /\ s \in SubsOf(t, w)
  /\ \A o \in SubsOf(t, w) : \/ sub[o].version < sub[s].version
                             \/ sub[o].version = sub[s].version /\ sub[o].at <= sub[s].at

\* payout's findFirst on the transactions table.
Paid(t, w) == \E i \in DOMAIN ledger : /\ ledger[i].type = "TASK_PAYOUT"
                                       /\ ledger[i].task = t
                                       /\ ledger[i].to = w
-------------------------------------------------------------------------------
Init ==
  /\ task = [t \in Tasks |-> NoTaskRow]
  /\ sub = [s \in Subs |-> NoSubRow]
  /\ aged = {} /\ merged = {}
  /\ balance = [u \in Users \cup {Pool} |-> IF u = Pool THEN PoolBalance ELSE StartBalance]
  /\ ledger = <<>>
  /\ lock = [k \in Tasks \X Users |-> FreeLock]
  /\ req = [r \in Reqs |-> Idle]
  /\ started = 0

\* The slot is free and one more user request is within the bound.
Begin(r, start) == /\ req[r] = Idle
                   /\ started < MaxRequests
                   /\ started' = started + 1
                   /\ req' = [req EXCEPT ![r] = start]

Goto(r, step) == req' = [req EXCEPT ![r].at = step]

\* The handler returns, or throws: a user request is over either way, and the
\* loop of a cron callback catches the error and takes its next submission.
Done(r) == req' = [req EXCEPT ![r] =
                     IF @.todo = {} THEN Idle
                     ELSE [@ EXCEPT !.at = "next", !.sub = NoSub, !.tries = 0, !.amount = 0]]
-------------------------------------------------------------------------------
\* TasksService.create, to its first await: the row is inserted before the
\* reward is in escrow.
CreateTask(r, u, t, amount) ==
  /\ task[t].status = "ABSENT"
  /\ Begin(r, [Idle EXCEPT !.op = "create", !.at = "check", !.user = u, !.task = t,
                           !.amount = amount])
  /\ task' = [task EXCEPT ![t] = [status |-> "OPEN", creator |-> u, reward |-> amount]]
  /\ UNCHANGED <<sub, aged, merged, balance, ledger, lock>>

\* TasksService.startReview, update and cancel: read the task and check creator
\* and status; the write comes after the await.
ReadOwnTask(r, u, t, op, statuses) ==
  /\ task[t].status \in statuses
  /\ task[t].creator = u
  /\ \E amount \in IF op = "update" THEN Rewards ELSE {0} :
       Begin(r, [Idle EXCEPT !.op = op, !.at = "write", !.user = u, !.task = t,
                             !.amount = amount])
  /\ UNCHANGED <<task, sub, aged, merged, balance, ledger, lock>>

StartReviewRead(r, u, t) == ReadOwnTask(r, u, t, "startReview", {"OPEN"})
UpdateRead(r, u, t) == ReadOwnTask(r, u, t, "update", {"OPEN"})
CancelRead(r, u, t) == ReadOwnTask(r, u, t, "cancel", {"OPEN", "REVIEWING"})

StartReviewWrite(r) ==
  /\ req[r].op = "startReview" /\ req[r].at = "write"
  /\ task' = [task EXCEPT ![req[r].task].status = "REVIEWING"]
  /\ Done(r)
  /\ UNCHANGED <<sub, aged, merged, balance, ledger, lock, started>>

\* update spreads the dto: the reward changes, the escrow does not.
UpdateWrite(r) ==
  /\ req[r].op = "update" /\ req[r].at = "write"
  /\ task' = [task EXCEPT ![req[r].task].reward = req[r].amount]
  /\ Done(r)
  /\ UNCHANGED <<sub, aged, merged, balance, ledger, lock, started>>

\* cancel sets the status first and refunds afterwards.
CancelWrite(r) ==
  /\ req[r].op = "cancel" /\ req[r].at = "write"
  /\ task' = [task EXCEPT ![req[r].task].status = "CANCELLED"]
  /\ Goto(r, "reward")
  /\ UNCHANGED <<sub, aged, merged, balance, ledger, lock, started>>
-------------------------------------------------------------------------------
\* SubmissionsService.create and submitPr: the checks on the task.
\* Mutant.
AnyoneMaySubmit(w, t) == Accepting(t) /\ w # Pool
MaySubmit(w, t) == Accepting(t) /\ task[t].creator # w
SubmitRead(r, w, t) ==
  /\ MaySubmit(w, t)
  /\ Begin(r, [Idle EXCEPT !.op = "submit", !.at = "latest", !.user = w, !.task = t])
  /\ UNCHANGED <<task, sub, aged, merged, balance, ledger, lock>>

\* The checks on the worker's latest submission, which give the next version.
SubmitLatest(r) ==
  LET t == req[r].task
      w == req[r].user
  IN /\ req[r].op = "submit" /\ req[r].at = "latest"
     /\ \/ /\ SubsOf(t, w) = {}
           /\ req' = [req EXCEPT ![r].at = "insert", ![r].version = 1]
        \/ \E s \in Subs : /\ IsLatest(s, t, w)
                           /\ sub[s].status # "SUBMITTED"
                           /\ req' = [req EXCEPT ![r].at = "insert",
                                                 ![r].version = sub[s].version + 1]
        \/ \E s \in Subs : /\ IsLatest(s, t, w)
                           /\ sub[s].status = "SUBMITTED"
                           /\ Done(r)
     /\ UNCHANGED <<task, sub, aged, merged, balance, ledger, lock, started>>

\* The row is inserted whatever happened to the task since it was read.  A PR
\* passes or fails its validation against GitHub (external).
SubmitInsert(r, s) ==
  /\ req[r].op = "submit" /\ req[r].at = "insert"
  /\ ~Exists(s)
  /\ \E v \in IF req[r].task \in GithubTasks THEN {"PASSED", "FAILED"}
              ELSE {"NOT_APPLICABLE"} :
       sub' = [sub EXCEPT ![s] =
                 [status |-> "SUBMITTED", task |-> req[r].task, worker |-> req[r].user,
                  version |-> req[r].version, at |-> Cardinality({o \in Subs : Exists(o)}),
                  validation |-> v]]
  /\ Done(r)
  /\ UNCHANGED <<task, aged, merged, balance, ledger, lock, started>>

SevenDaysPass(s) ==
  /\ sub[s].status = "SUBMITTED" /\ s \notin aged
  /\ aged' = aged \cup {s}
  /\ UNCHANGED <<task, sub, merged, balance, ledger, lock, req, started>>
-------------------------------------------------------------------------------
\* SubmissionsService.review: the read, its checks, and the switch.
\* Mutant.
Reviewed(s) == Exists(s)
Reviewable(s) == sub[s].status = "SUBMITTED"
\* Mutant.
ReviewUnpaid(r, u, s, verdict) ==
  /\ Reviewable(s)
  /\ task[sub[s].task].creator = u
  /\ Begin(r, [Idle EXCEPT !.op = "review", !.user = u, !.task = sub[s].task, !.sub = s,
                           !.verdict = verdict, !.at = "finalize"])
  /\ UNCHANGED <<task, sub, aged, merged, balance, ledger, lock>>
ReviewRead(r, u, s, verdict) ==
  /\ Reviewable(s)
  /\ task[sub[s].task].creator = u
  /\ Begin(r, [Idle EXCEPT !.op = "review", !.user = u, !.task = sub[s].task, !.sub = s,
                           !.verdict = verdict,
                           !.at = IF verdict = "APPROVE" THEN "lock" ELSE "finalize"])
  /\ UNCHANGED <<task, sub, aged, merged, balance, ledger, lock>>

\* autoCompleteStaleSubmissions: one findMany, then a loop over its result that
\* reads no status again.
\* Mutant.
StaleOfLiveTasks == {s \in aged : Reviewable(s) /\ Accepting(sub[s].task)}
Stale == {s \in aged : sub[s].status = "SUBMITTED"}
AutoCompleteRead(r) ==
  /\ req[r] = Idle
  /\ Stale # {}
  /\ req' = [req EXCEPT ![r] = [Idle EXCEPT !.op = "autoComplete", !.at = "next",
                                            !.todo = Stale]]
  /\ UNCHANGED <<task, sub, aged, merged, balance, ledger, lock, started>>

\* pollGithubPrSubmissions: one findMany of the validated PR submissions.
PollRead(r) ==
  LET due == {s \in Subs : sub[s].status = "SUBMITTED" /\ sub[s].validation = "PASSED"}
  IN /\ req[r] = Idle
     /\ due # {}
     /\ req' = [req EXCEPT ![r] = [Idle EXCEPT !.op = "poll", !.at = "next", !.todo = due]]
     /\ UNCHANGED <<task, sub, aged, merged, balance, ledger, lock, started>>

\* The for loop of either callback takes the next submission of its list; only the
\* poller's list is ordered, by submittedAt.
NextInLoop(r, s) ==
  /\ req[r].at = "next"
  /\ s \in req[r].todo
  /\ req[r].op = "poll" => \A o \in req[r].todo : sub[s].at <= sub[o].at
  /\ req' = [req EXCEPT ![r].todo = @ \ {s}, ![r].sub = s, ![r].task = sub[s].task,
                        ![r].at = IF req[r].op = "poll" THEN "pollRead" ELSE "lock"]
  /\ UNCHANGED <<task, sub, aged, merged, balance, ledger, lock, started>>

\* processGithubPrSubmission: a fresh read ...
PollProcess(r) ==
  /\ req[r].op = "poll" /\ req[r].at = "pollRead"
  /\ IF sub[req[r].sub].status = "SUBMITTED" THEN Goto(r, "github") ELSE Done(r)
  /\ UNCHANGED <<task, sub, aged, merged, balance, ledger, lock, started>>

\* ... then what GitHub answers, whatever became of the submission: another author, a
\* merged pull request (now or by this call), or neither.
PollAnswer(r) ==
  LET s == req[r].sub
  IN /\ req[r].op = "poll" /\ req[r].at = "github"
     /\ \/ /\ sub' = [sub EXCEPT ![s].validation = "FAILED"]
           /\ Done(r) /\ UNCHANGED merged
        \/ /\ merged' = merged \cup {s}
           /\ Goto(r, "recheck") /\ UNCHANGED sub
        \/ /\ s \notin merged
           /\ Done(r) /\ UNCHANGED <<sub, merged>>
     /\ UNCHANGED <<task, aged, balance, ledger, lock, started>>

\* autoApproveMergedSubmission reads the status once more before it pays.
PollRecheck(r) ==
  /\ req[r].op = "poll" /\ req[r].at = "recheck"
  /\ IF sub[req[r].sub].status = "SUBMITTED" THEN Goto(r, "lock") ELSE Done(r)
  /\ UNCHANGED <<task, sub, aged, merged, balance, ledger, lock, started>>
-------------------------------------------------------------------------------
(***************************************************************************)
(* WalletService.payout, inside withMySqlLock, and the transfer that        *)
(* escrow, payout and refund share.                                        *)
(***************************************************************************)
Worker(r) == sub[req[r].sub].worker
Key(r) == <<req[r].task, Worker(r)>>

GetLock(r, c) ==
  /\ req[r].at = "lock"
  /\ CanGetLock(lock[Key(r)], c)
  /\ lock' = [lock EXCEPT ![Key(r)] = AfterGetLock(@, c)]
  /\ Goto(r, "existing")
  /\ UNCHANGED <<task, sub, aged, merged, balance, ledger, started>>

\* Five seconds pass on a connection that does not own the lock.
LockTimeout(r, c) ==
  /\ req[r].at = "lock"
  /\ ~CanGetLock(lock[Key(r)], c)
  /\ Done(r)
  /\ UNCHANGED <<task, sub, aged, merged, balance, ledger, lock, started>>

\* Mutant.
PayAgain(r) ==
  /\ req[r].at = "existing"
  /\ Goto(r, "reward")
  /\ UNCHANGED <<task, sub, aged, merged, balance, ledger, lock, started>>

\* payout looks for a completed TASK_PAYOUT row of this task and worker.
FindExistingPayout(r) ==
  /\ req[r].at = "existing"
  /\ Goto(r, IF Paid(req[r].task, Worker(r)) THEN "release" ELSE "reward")
  /\ UNCHANGED <<task, sub, aged, merged, balance, ledger, lock, started>>

\* payout and refund read the reward the task has now.
ReadReward(r) ==
  /\ req[r].at = "reward"
  /\ req' = [req EXCEPT ![r].at = "check", ![r].amount = task[req[r].task].reward]
  /\ UNCHANGED <<task, sub, aged, merged, balance, ledger, lock, started>>

Payer(r) == IF req[r].op = "create" THEN req[r].user ELSE Pool
Payee(r) == CASE req[r].op = "create" -> Pool
              [] req[r].op = "cancel" -> task[req[r].task].creator
              [] OTHER -> Worker(r)
TxnType(r) == CASE req[r].op = "create" -> "TASK_ESCROW"
                [] req[r].op = "cancel" -> "TASK_REFUND"
                [] OTHER -> "TASK_PAYOUT"

\* Mutant.
Swallow(r) == IF /\ req[r].at \in {"existing", "reward", "check", "commit"}
                 /\ TxnType(r) = "TASK_PAYOUT"
              THEN Goto(r, "release") ELSE Done(r)

\* An error ends the handler, but payout still runs the finally block of its lock.
Throw(r) == IF /\ req[r].at \in {"existing", "reward", "check", "commit"}
               /\ TxnType(r) = "TASK_PAYOUT"
            THEN Goto(r, "giveUp") ELSE Done(r)

\* Mutant.
SkipBalanceCheck(r) ==
  /\ req[r].at = "check"
  /\ IF req[r].amount > 0 THEN Goto(r, "commit") ELSE Throw(r)
  /\ UNCHANGED <<task, sub, aged, merged, balance, ledger, lock, started>>

\* The transaction's consistent read of the payer's balance; it locks nothing.
CheckBalance(r) ==
  /\ req[r].at = "check"
  /\ IF req[r].amount > 0 /\ balance[Payer(r)] >= req[r].amount
     THEN Goto(r, "commit") ELSE Throw(r)
  /\ UNCHANGED <<task, sub, aged, merged, balance, ledger, lock, started>>

\* Mutant.
CommitWithoutDebit(r) ==
  /\ req[r].at = "commit"
  /\ balance' = [balance EXCEPT ![Payee(r)] = @ + req[r].amount]
  /\ ledger' = Append(ledger, [type |-> TxnType(r), task |-> req[r].task, from |-> Payer(r),
                               to |-> Payee(r), amount |-> req[r].amount])
  /\ IF TxnType(r) = "TASK_PAYOUT" THEN Goto(r, "release") ELSE Done(r)
  /\ UNCHANGED <<task, sub, aged, merged, lock, started>>

\* The two relative updates and the insert, committed together.
CommitTransfer(r) ==
  /\ req[r].at = "commit"
  /\ balance' = [balance EXCEPT ![Payer(r)] = @ - req[r].amount,
                                ![Payee(r)] = @ + req[r].amount]
  /\ ledger' = Append(ledger, [type |-> TxnType(r), task |-> req[r].task, from |-> Payer(r),
                               to |-> Payee(r), amount |-> req[r].amount])
  /\ IF TxnType(r) = "TASK_PAYOUT" THEN Goto(r, "release") ELSE Done(r)
  /\ UNCHANGED <<task, sub, aged, merged, lock, started>>

\* The transaction is rolled back: a write conflict or deadlock (P2034) is tried
\* again up to MaxTries times in all, any other error is thrown.
AbortTransfer(r) ==
  /\ req[r].at = "commit"
  /\ \/ /\ req[r].tries + 1 < MaxTries
        /\ req' = [req EXCEPT ![r].at = "check", ![r].tries = @ + 1]
     \/ Throw(r)
  /\ UNCHANGED <<task, sub, aged, merged, balance, ledger, lock, started>>

ReleaseLock(r, c) ==
  /\ req[r].at \in {"release", "giveUp"}
  /\ \E l \in AfterReleaseLock(lock[Key(r)], c) : lock' = [lock EXCEPT ![Key(r)] = l]
  /\ IF req[r].at = "release" THEN Goto(r, "finalize") ELSE Done(r)
  /\ UNCHANGED <<task, sub, aged, merged, balance, ledger, started>>

\* Mutant.
FinalizeUnlessCompleted(r) ==
  /\ req[r].at = "finalize"
  /\ sub' = [sub EXCEPT ![req[r].sub].status = SubStatusOf[req[r].verdict]]
  /\ task' = [task EXCEPT ![req[r].task].status =
                IF @ = "COMPLETED" THEN @ ELSE TaskStatusOf[req[r].verdict]]
  /\ Done(r)
  /\ UNCHANGED <<aged, merged, balance, ledger, lock, started>>

\* The closing $transaction of review, autoCompleteStaleSubmissions and
\* autoApproveMergedSubmission: both rows are written, neither is read again.
Finalize(r) ==
  /\ req[r].at = "finalize"
  /\ sub' = [sub EXCEPT ![req[r].sub].status = SubStatusOf[req[r].verdict]]
  /\ task' = [task EXCEPT ![req[r].task].status = TaskStatusOf[req[r].verdict]]
  /\ Done(r)
  /\ UNCHANGED <<aged, merged, balance, ledger, lock, started>>

\* Any statement a handler awaits may fail, the release of its lock too.
StatementFails(r) ==
  /\ req[r].at \notin {"idle", "next", "commit"}
  /\ Throw(r)
  /\ UNCHANGED <<task, sub, aged, merged, balance, ledger, lock, started>>

\* The API process dies: its requests are gone, its sessions end, MySQL frees
\* their locks and rolls their transactions back.
Crash ==
  /\ \E r \in Reqs : req[r] # Idle
  /\ req' = [r \in Reqs |-> Idle]
  /\ lock' = [k \in Tasks \X Users |-> FreeLock]
  /\ UNCHANGED <<task, sub, aged, merged, balance, ledger, started>>
-------------------------------------------------------------------------------
TaskRequest(r) ==
  \/ \E u \in Users, t \in Tasks :
       \/ \E amount \in Rewards : CreateTask(r, u, t, amount)
       \/ StartReviewRead(r, u, t) \/ UpdateRead(r, u, t) \/ CancelRead(r, u, t)
       \/ SubmitRead(r, u, t)
  \/ \E u \in Users, s \in Subs, v \in Verdicts : ReviewRead(r, u, s, v)

Handler(r) ==
  \/ StartReviewWrite(r) \/ UpdateWrite(r) \/ CancelWrite(r)
  \/ SubmitLatest(r) \/ \E s \in Subs : SubmitInsert(r, s)
  \/ \E s \in Subs : NextInLoop(r, s)
  \/ PollProcess(r) \/ PollAnswer(r) \/ PollRecheck(r)

Payment(r) ==
  \/ \E c \in Conns : GetLock(r, c) \/ LockTimeout(r, c) \/ ReleaseLock(r, c)
  \/ FindExistingPayout(r) \/ ReadReward(r)
  \/ CheckBalance(r) \/ CommitTransfer(r) \/ AbortTransfer(r)
  \/ Finalize(r) \/ StatementFails(r)

Next ==
  \/ \E r \in Reqs : TaskRequest(r) \/ Handler(r) \/ Payment(r)
                     \/ AutoCompleteRead(r) \/ PollRead(r)
  \/ \E s \in Subs : SevenDaysPass(s)
  \/ Crash

Spec == Init /\ [][Next]_vars

\* The hourly callback keeps coming and every request moves on; a statement may fail
\* and the process may crash any number of times, but no statement of the callback
\* fails every time it is sent.
Fairness ==
  \A r \in Reqs :
    /\ WF_vars(Handler(r) \/ Payment(r))
    /\ SF_vars(AutoCompleteRead(r))
    /\ \A s \in Subs : SF_vars(NextInLoop(r, s))
    /\ SF_vars(\E c \in Conns : GetLock(r, c))
    /\ SF_vars(FindExistingPayout(r))
    /\ SF_vars(ReadReward(r))
    /\ SF_vars(CheckBalance(r))
    /\ SF_vars(CommitTransfer(r))
    /\ SF_vars(req[r].at = "release" /\ \E c \in Conns : ReleaseLock(r, c))
    /\ SF_vars(Finalize(r))

FairSpec == Spec /\ Fairness
-------------------------------------------------------------------------------
(***************************************************************************)
(* Properties.                                                             *)
(***************************************************************************)
\* The tables and the requests have the shapes declared above.
TypeOK ==
  /\ task \in [Tasks -> TaskRow]
  /\ sub \in [Subs -> SubRow]
  /\ aged \subseteq Subs /\ merged \subseteq Subs
  /\ balance \in [Users \cup {Pool} -> Int]
  /\ ledger \in Seq(TxnRow)
  /\ lock \in [Tasks \X Users -> LockState]
  /\ req \in [Reqs -> Request]
  /\ started \in 0..MaxRequests

\* However reviews, cron callbacks and crashes interleave, an APPROVED submission
\* has a TASK_PAYOUT row of its task to its worker (review and both callbacks pay
\* before they write the status, and the status is written only if that worked).
ApprovedWasPaid == \A s \in Subs : sub[s].status = "APPROVED" => Paid(sub[s].task, sub[s].worker)

\* A COMPLETED task has an APPROVED submission, although any later review may
\* overwrite a submission's status: the closing transaction writes both rows.
CompletedWasApproved ==
  \A t \in Tasks : task[t].status = "COMPLETED" =>
    \E s \in Subs : sub[s].task = t /\ sub[s].status = "APPROVED"

\* A payout goes to somebody who submitted work for that task, and never to the
\* task's creator; the check is made three awaits before the row is inserted.
OnlyWorkersArePaid ==
  \A t \in Tasks, u \in Users :
    Paid(t, u) => /\ u # task[t].creator
                  /\ SubsOf(t, u) # {}

\* Every unit that left an account since the start arrived on another one, and the
\* transactions table accounts for every balance: read from the first row to the last it
\* gives the balance each account has.
Opening(u) == IF u = Pool THEN PoolBalance ELSE StartBalance
Change(row, u) == (IF row.to = u THEN row.amount ELSE 0) - (IF row.from = u THEN row.amount ELSE 0)
Statement(rows, u) ==
  LET after[n \in 0 .. Len(rows)] ==
        IF n = 0 THEN Opening(u) ELSE after[n - 1] + Change(rows[n], u)
  IN after[Len(rows)]
LedgerExplainsBalances == \A u \in Users \cup {Pool} : balance[u] = Statement(ledger, u)

\* payout pays one worker for one task once, whatever is retried after a failure or
\* a crash between the payment and the status (aic-integration.e2e-spec.ts, "should
\* not pay the same task submission twice").
PayoutOncePerWorker ==
  \A i, j \in DOMAIN ledger :
    /\ ledger[i].type = "TASK_PAYOUT" /\ ledger[j].type = "TASK_PAYOUT"
    /\ ledger[i].task = ledger[j].task /\ ledger[i].to = ledger[j].to
    => i = j

\* transfer refuses to overdraw an account ("Insufficient balance"), for requests
\* that do not overlap: the check reads the balance without a lock.
NoOverdraft == \A u \in Users \cup {Pool} : balance[u] >= 0

\* A submission that was reviewed keeps its verdict ("Submission already reviewed"),
\* for requests that do not overlap: the closing transaction does not look again.
VerdictIsFinal ==
  [][\A s \in Subs : sub[s].status \notin {"ABSENT", "SUBMITTED"} =>
       sub'[s].status = sub[s].status]_vars

\* A submission nobody reviewed for seven days is reviewed in the end, by the hourly
\* callback if by nobody else: failed statements, leaked locks and crashes delay it only.
\* Not so while the reward is nothing, which transfer refuses as an amount although a task
\* may have it, or more than the pool has.
StaleIsReviewed ==
  \A s \in Subs, t \in Tasks :
    s \in aged /\ sub[s].task = t
      ~> sub[s].status # "SUBMITTED" \/ task[t].reward \notin 1 .. balance[Pool]
-------------------------------------------------------------------------------
(***************************************************************************)
(* The inductive invariant behind ApprovedWasPaid, OnlyWorkersArePaid and   *)
(* CompletedWasApproved: rows refer to rows, a request refers to the rows   *)
(* it read, and it is past its payment only if the payment is in the ledger.*)
(***************************************************************************)
Loops == {"autoComplete", "poll"}
Reviews == {"review"} \cup Loops

RowsOK ==
  /\ \A t \in Tasks : task[t].status # "ABSENT" => task[t].creator \in Users
  /\ \A s \in Subs : Exists(s) => /\ sub[s].task \in Tasks
                                  /\ task[sub[s].task].status # "ABSENT"
                                  /\ sub[s].worker \in Users
                                  /\ sub[s].worker # task[sub[s].task].creator

RequestOK(q) ==
  /\ q.todo # {} => q.op \in Loops
  /\ \A s \in q.todo : Exists(s)
  /\ q.at \notin {"idle", "next"} => q.task \in Tasks /\ task[q.task].status # "ABSENT"
  /\ q.op = "create" => q.user \in Users
  /\ q.at \in {"latest", "insert"} =>
       q.op = "submit" /\ q.user \in Users /\ q.user # task[q.task].creator
  /\ q.at \in {"reward", "check", "commit"} => q.op \in {"create", "cancel"} \cup Reviews
  /\ q.at \in {"pollRead", "github", "recheck", "lock", "existing", "release", "giveUp", "finalize"} =>
       q.op \in Reviews
  /\ q.op \in Reviews /\ q.at # "next" =>
       q.sub \in Subs /\ Exists(q.sub) /\ sub[q.sub].task = q.task
  /\ q.verdict # "APPROVE" => q.op = "review" /\ q.at = "finalize"
  /\ q.at = "release" \/ (q.at = "finalize" /\ q.verdict = "APPROVE") =>
       Paid(q.task, sub[q.sub].worker)

Inv == /\ TypeOK /\ RowsOK
       /\ \A r \in Reqs : RequestOK(req[r])
       /\ OnlyWorkersArePaid /\ ApprovedWasPaid /\ CompletedWasApproved
-------------------------------------------------------------------------------
(***************************************************************************)
(* What requests that do not overlap add to Inv, and what PayoutOncePerWorker,*)
(* NoOverdraft and VerdictIsFinal rest on: what a request read last still    *)
(* holds when it writes.                                                   *)
(***************************************************************************)
SerialOK(q) ==
  /\ \A s \in q.todo : sub[s].status = "SUBMITTED" /\ s # q.sub
  /\ q.op \in Reviews /\ q.at # "next" => sub[q.sub].status = "SUBMITTED"
  /\ q.op \in Reviews /\ q.at \in {"reward", "check", "commit"} =>
       ~Paid(q.task, sub[q.sub].worker)
  /\ q.at = "commit" => balance[IF q.op = "create" THEN q.user ELSE Pool] >= q.amount

SerialInv == /\ Inv /\ PayoutOncePerWorker /\ NoOverdraft
             /\ \A r \in Reqs : SerialOK(req[r])
-------------------------------------------------------------------------------
(***************************************************************************)
(* Claims of the documentation and the tests that the code does not keep.   *)
(***************************************************************************)
\* The escrowed reward of a task leaves the pool once: as a payout when work is
\* approved or as a refund when the task is cancelled (Docs.tsx, "COMPLETED", "CANCELLED").
SettledOnce ==
  \A i, j \in DOMAIN ledger :
    /\ ledger[i].type # "TASK_ESCROW" /\ ledger[j].type # "TASK_ESCROW"
    /\ ledger[i].task = ledger[j].task
    => i = j
=============================================================================
