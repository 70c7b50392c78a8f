--------------------------- MODULE TaskMarketProofs ---------------------------
(***************************************************************************)
(* Inv of TaskMarket is an invariant of Spec, for every set of users, tasks,*)
(* submissions, requests and connections: so what is APPROVED was paid, and *)
(* only those who submitted work are paid.  SerialInv is one where requests *)
(* do not overlap: so nobody is paid twice, overdrawn or reviewed again.    *)
(* The transactions table explains every balance, requests overlapping or   *)
(* not.                                                                    *)
(***************************************************************************)
EXTENDS TaskMarket, FiniteSetTheorems, WellFoundedInduction, TLAPS

USE MarketAssumption, ConnAssumption

\* What Goto, Done and Begin do to the table of requests.
LEMMA GotoType ==
  ASSUME NEW r \in Reqs, NEW step \in Steps, req \in [Reqs -> Request], Goto(r, step)
  PROVE  /\ req' \in [Reqs -> Request]
         /\ \A o \in Reqs : o # r => req'[o] = req[o]
         /\ req'[r] = [req[r] EXCEPT !.at = step]
BY DEF Goto, Request, Steps

LEMMA IdleType == Idle \in Request
BY DEF Idle, Request, Ops, Steps, Verdicts, SubStatusOf

LEMMA DoneType ==
  ASSUME NEW r \in Reqs, req \in [Reqs -> Request], Done(r)
  PROVE  /\ req' \in [Reqs -> Request]
         /\ \A o \in Reqs : o # r => req'[o] = req[o]
         /\ \/ req'[r] = Idle
            \/ /\ req[r].todo # {}
               /\ req'[r] = [req[r] EXCEPT !.at = "next", !.sub = NoSub, !.tries = 0, !.amount = 0]
<1>0. req[r] \in Request
  OBVIOUS
<1>1. [req[r] EXCEPT !.at = "next", !.sub = NoSub, !.tries = 0, !.amount = 0] \in Request
  BY <1>0 DEF Request, Steps
<1> QED
  BY <1>1, IdleType DEF Done

LEMMA BeginType ==
  ASSUME NEW r \in Reqs, NEW start \in Request, TypeOK, Begin(r, start)
  PROVE  /\ req' \in [Reqs -> Request]
         /\ \A o \in Reqs : o # r => req'[o] = req[o]
         /\ req'[r] = start
         /\ started' \in 0..MaxRequests
BY DEF Begin, TypeOK
-------------------------------------------------------------------------------
\* What no step undoes: rows stay, with their creator, task and worker, and so
\* does every payout.
Kept ==
  /\ \A t \in Tasks : task[t].status # "ABSENT" =>
       task'[t].status # "ABSENT" /\ task'[t].creator = task[t].creator
  /\ \A s \in Subs : sub[s].status # "ABSENT" =>
       /\ sub'[s].status # "ABSENT"
       /\ sub'[s].task = sub[s].task /\ sub'[s].worker = sub[s].worker
  /\ \A t \in Tasks, u \in Users : Paid(t, u) => Paid(t, u)'

\* A request whose record a step leaves alone stays consistent with the tables.
LEMMA OthersOK ==
  ASSUME NEW r \in Reqs, TypeOK, RowsOK, RequestOK(req[r]), Kept, req'[r] = req[r]
  PROVE  RequestOK(req[r])'
<1>1. req[r] \in Request
  BY DEF TypeOK
<1>2. req[r].todo \subseteq Subs
  BY <1>1 DEF Request
<1> DEFINE q == req[r]
<1>3. q.at \notin {"idle", "next"} =>
        /\ q.task \in Tasks /\ task'[q.task].status # "ABSENT"
        /\ task'[q.task].creator = task[q.task].creator
  BY DEF RequestOK, Kept
<1>4. q.op \in Reviews /\ q.at # "next" =>
        /\ q.sub \in Subs /\ sub'[q.sub].status # "ABSENT" /\ sub'[q.sub].task = q.task
        /\ sub'[q.sub].worker = sub[q.sub].worker /\ sub[q.sub].worker \in Users
  BY DEF RequestOK, Kept, RowsOK, Exists
<1>5. ASSUME q.at = "release" \/ (q.at = "finalize" /\ q.verdict = "APPROVE")
      PROVE  Paid(req[r].task, sub[req[r].sub].worker)'
  <2>1. q.op \in Reviews /\ q.at \notin {"idle", "next"}
    BY <1>5 DEF RequestOK
  <2>2. PICK t \in Tasks, w \in Users : t = q.task /\ w = sub[q.sub].worker
    BY <2>1, <1>3, <1>4
  <2>3. Paid(t, w)
    BY <2>2, <1>5 DEF RequestOK
  <2>4. Paid(t, w)'
    BY <2>3 DEF Kept
  <2>5. req'[r].task = t /\ sub'[req'[r].sub].worker = w
    BY <2>1, <2>2, <1>4
  <2> QED
    BY <2>4, <2>5 DEF Paid
<1>6. \A s \in req[r].todo : sub'[s].status # "ABSENT"
  BY <1>2 DEF RequestOK, Kept, Exists
<1> QED
  BY <1>1, <1>3, <1>4, <1>5, <1>6 DEF RequestOK, Exists

\* What Inv says of the tables alone.
TablesOK == RowsOK /\ OnlyWorkersArePaid /\ ApprovedWasPaid /\ CompletedWasApproved

LEMMA SameTables ==
  ASSUME TablesOK, UNCHANGED <<task, sub, ledger>>
  PROVE  TablesOK' /\ Kept
BY DEF TablesOK, RowsOK, OnlyWorkersArePaid, ApprovedWasPaid, CompletedWasApproved, Kept,
       Paid, SubsOf, Exists

\* What a step has to show: everything else follows from OthersOK.
StepOK(r) == /\ TypeOK'
             /\ TablesOK' /\ Kept
             /\ RequestOK(req[r])'
             /\ \A o \in Reqs : o # r => req'[o] = req[o]

LEMMA StepKeepsInv ==
  ASSUME NEW r \in Reqs, Inv, StepOK(r)
  PROVE  Inv'
<1>1. \A o \in Reqs : RequestOK(req[o])'
  BY OthersOK DEF Inv, StepOK
<1> QED
  BY <1>1 DEF Inv, StepOK, TablesOK

\* A fresh slot is consistent.
LEMMA IdleOK ==
  ASSUME NEW r \in Reqs, req'[r] = Idle
  PROVE  RequestOK(req[r])'
BY DEF RequestOK, Idle, Reviews, Loops

\* So is a request that Done leaves behind.
LEMMA DoneOK ==
  ASSUME NEW r \in Reqs, Inv, Kept, Done(r)
  PROVE  RequestOK(req[r])' /\ \A o \in Reqs : o # r => req'[o] = req[o]
<1>1. req[r] \in Request /\ RequestOK(req[r])
  BY DEF Inv, TypeOK
<1>2. CASE req'[r] = Idle
  BY <1>2, IdleOK, DoneType DEF Inv, TypeOK
<1>3. CASE req[r].todo # {} /\ req'[r] = [req[r] EXCEPT !.at = "next", !.sub = NoSub,
                                           !.tries = 0, !.amount = 0]
  <2>1. req[r].op \in Loops /\ req[r].verdict = "APPROVE"
    BY <1>1, <1>3 DEF RequestOK, Loops
  <2>2. \A s \in req[r].todo : s \in Subs /\ Exists(s)
    BY <1>1 DEF RequestOK, Request
  <2>3. /\ req'[r].at = "next" /\ req'[r].op = req[r].op
        /\ req'[r].verdict = "APPROVE" /\ req'[r].todo = req[r].todo
    BY <1>1, <1>3, <2>1 DEF Request
  <2>4. RequestOK(req[r])'
    BY <2>1, <2>2, <2>3 DEF RequestOK, Kept, Exists, Reviews, Loops
  <2> QED
    BY <2>4, DoneType DEF Inv, TypeOK
<1> QED
  BY <1>2, <1>3, DoneType DEF Inv, TypeOK

\* A request inside payout or another transfer that moves on to the given step.
LEMMA GotoOK ==
  ASSUME NEW r \in Reqs, NEW step \in Steps, Inv, Kept, Goto(r, step),
         req[r].at \notin {"idle", "next", "latest", "insert", "write"},
         step \notin {"idle", "next", "latest", "insert"},
         req[r].op \in {"create", "cancel"} \cup Reviews,
         step \in {"reward", "check", "commit"} \/ req[r].op \in Reviews,
         req[r].verdict = "APPROVE",
         step \in {"release", "finalize"} => Paid(req[r].task, sub[req[r].sub].worker)'
  PROVE  RequestOK(req[r])' /\ \A o \in Reqs : o # r => req'[o] = req[o]
<1> DEFINE q == req[r]
<1>1. q \in Request /\ RequestOK(q) /\ req'[r] = [q EXCEPT !.at = step]
  BY GotoType DEF Inv, TypeOK
<1>2. /\ q.task \in Tasks /\ task'[q.task].status # "ABSENT"
      /\ q.op \in Reviews => q.sub \in Subs /\ sub'[q.sub].status # "ABSENT"
                                          /\ sub'[q.sub].task = q.task
  BY <1>1 DEF RequestOK, Kept, Exists
<1>3. \A s \in q.todo : sub'[s].status # "ABSENT"
  BY <1>1 DEF RequestOK, Kept, Exists, Request
<1>4. /\ req'[r].at = step /\ req'[r].op = q.op /\ req'[r].task = q.task
      /\ req'[r].sub = q.sub /\ req'[r].verdict = q.verdict /\ req'[r].todo = q.todo
      /\ req'[r].user = q.user
  BY <1>1 DEF Request
<1>5. step \in {"release", "finalize"} => Paid(req[r].task, sub[req[r].sub].worker)'
  OBVIOUS
<1>6. RequestOK(req[r])'
  BY <1>1, <1>2, <1>3, <1>4, <1>5 DEF RequestOK, Exists
<1> QED
  BY <1>6, GotoType DEF Inv, TypeOK
-------------------------------------------------------------------------------
(***************************************************************************)
(* The steps that leave the tables alone.                                  *)
(***************************************************************************)
LEMMA ReadOwnTaskOK ==
  ASSUME NEW r \in Reqs, NEW u \in Users, NEW t \in Tasks, NEW op \in {"startReview", "update", "cancel"},
         NEW statuses \in SUBSET {"OPEN", "REVIEWING"}, Inv, ReadOwnTask(r, u, t, op, statuses)
  PROVE  StepOK(r)
<1>1. PICK amount \in (IF op = "update" THEN Rewards ELSE {0}) :
        Begin(r, [Idle EXCEPT !.op = op, !.at = "write", !.user = u, !.task = t,
                              !.amount = amount])
  BY DEF ReadOwnTask
<1> DEFINE start == [Idle EXCEPT !.op = op, !.at = "write", !.user = u, !.task = t,
                                 !.amount = amount]
<1>0. amount \in Nat
  BY MarketAssumption
<1>2. start \in Request
  BY <1>0 DEF Idle, Request, Ops, Steps, Verdicts, SubStatusOf
<1>3. TypeOK' /\ \A o \in Reqs : o # r => req'[o] = req[o]
  BY <1>1, <1>2, BeginType DEF ReadOwnTask, Inv, TypeOK
<1>4. TablesOK' /\ Kept
  BY SameTables DEF Inv, TablesOK, ReadOwnTask
<1>5. req'[r] = start
  BY <1>1, <1>2, BeginType DEF Inv
<1>6. RequestOK(req[r])'
  BY <1>5 DEF RequestOK, Idle, Reviews, Loops, ReadOwnTask
<1> QED
  BY <1>3, <1>4, <1>6 DEF StepOK

LEMMA SubmitReadOK ==
  ASSUME NEW r \in Reqs, NEW w \in Users, NEW t \in Tasks, Inv, SubmitRead(r, w, t)
  PROVE  StepOK(r)
<1> DEFINE start == [Idle EXCEPT !.op = "submit", !.at = "latest", !.user = w, !.task = t]
<1>1. start \in Request
  BY DEF Idle, Request, Ops, Steps, Verdicts, SubStatusOf
<1>2. Begin(r, start)
  BY DEF SubmitRead
<1>3. TypeOK' /\ \A o \in Reqs : o # r => req'[o] = req[o]
  BY <1>1, <1>2, BeginType DEF SubmitRead, Inv, TypeOK
<1>4. TablesOK' /\ Kept
  BY SameTables DEF Inv, TablesOK, SubmitRead
<1>5. req'[r] = start
  BY <1>1, <1>2, BeginType DEF Inv
<1>6. RequestOK(req[r])'
  BY <1>5 DEF RequestOK, Idle, Reviews, Loops, SubmitRead, MaySubmit, Accepting
<1> QED
  BY <1>3, <1>4, <1>6 DEF StepOK

LEMMA SubmitLatestOK ==
  ASSUME NEW r \in Reqs, Inv, SubmitLatest(r)
  PROVE  StepOK(r)
<1> DEFINE q == req[r]
<1>1. /\ req[r] \in Request /\ RequestOK(req[r])
      /\ req[r].op = "submit" /\ req[r].at = "latest"
      /\ UNCHANGED <<task, sub, aged, merged, balance, ledger, lock, started>>
  BY DEF SubmitLatest, Inv, TypeOK
<1>2. TablesOK' /\ Kept
  BY <1>1, SameTables DEF Inv, TablesOK
<1>3. CASE Done(r)
  BY <1>1, <1>2, <1>3, DoneOK, DoneType DEF StepOK, Inv, TypeOK
<1>4. CASE \E v \in Nat : req' = [req EXCEPT ![r].at = "insert", ![r].version = v]
  <2>1. PICK v \in Nat : req' = [req EXCEPT ![r].at = "insert", ![r].version = v]
    BY <1>4
  <2>2. req'[r] = [q EXCEPT !.at = "insert", !.version = v]
    BY <2>1 DEF Inv, TypeOK
  <2>3. req'[r] \in Request
    BY <1>1, <2>2 DEF Request, Steps
  <2>4. TypeOK' /\ \A o \in Reqs : o # r => req'[o] = req[o]
    BY <1>1, <2>1, <2>3 DEF Inv, TypeOK
  <2>5. RequestOK(req[r])'
    BY <1>1, <2>2 DEF RequestOK, Request, Reviews, Loops, Exists
  <2> QED
    BY <1>2, <2>4, <2>5 DEF StepOK
<1>5. \A s \in Subs : sub[s].version + 1 \in Nat
  BY DEF Inv, TypeOK, SubRow
<1> QED
  BY <1>3, <1>4, <1>5 DEF SubmitLatest

LEMMA ReviewReadOK ==
  ASSUME NEW r \in Reqs, NEW u \in Users, NEW s \in Subs, NEW verdict \in Verdicts, Inv,
         ReviewRead(r, u, s, verdict)
  PROVE  StepOK(r)
<1> DEFINE start == [Idle EXCEPT !.op = "review", !.user = u, !.task = sub[s].task, !.sub = s,
                                 !.verdict = verdict,
                                 !.at = IF verdict = "APPROVE" THEN "lock" ELSE "finalize"]
<1>1. Exists(s) /\ sub[s].task \in Tasks /\ task[sub[s].task].status # "ABSENT"
  BY DEF ReviewRead, Reviewable, Exists, Inv, RowsOK
<1>2. start \in Request
  BY <1>1 DEF Idle, Request, Ops, Steps
<1>3. Begin(r, start) /\ UNCHANGED <<task, sub, aged, merged, balance, ledger, lock>>
  BY DEF ReviewRead
<1>4. TypeOK' /\ \A o \in Reqs : o # r => req'[o] = req[o]
  BY <1>2, <1>3, BeginType DEF Inv, TypeOK
<1>5. TablesOK' /\ Kept
  BY <1>3, SameTables DEF Inv, TablesOK
<1>6. req'[r] = start
  BY <1>2, <1>3, BeginType DEF Inv
<1>7. /\ start.op = "review" /\ start.task = sub[s].task /\ start.sub = s /\ start.todo = {}
      /\ start.verdict = verdict /\ start.user = u
      /\ verdict = "APPROVE" => start.at = "lock"
      /\ verdict # "APPROVE" => start.at = "finalize"
  BY DEF Idle
<1> HIDE DEF start
<1>8. CASE verdict = "APPROVE"
  <2>1. RequestOK(req[r])'
    BY <1>1, <1>3, <1>6, <1>7, <1>8 DEF RequestOK, Reviews, Loops, Exists
  <2> QED
    BY <1>4, <1>5, <2>1 DEF StepOK
<1>9. CASE verdict # "APPROVE"
  <2>1. RequestOK(req[r])'
    BY <1>1, <1>3, <1>6, <1>7, <1>9 DEF RequestOK, Reviews, Loops, Exists
  <2> QED
    BY <1>4, <1>5, <2>1 DEF StepOK
<1> QED
  BY <1>8, <1>9

\* Either callback starts with the submissions its findMany returned.
LEMMA LoopStartOK ==
  ASSUME NEW r \in Reqs, NEW op \in Loops, NEW due \in SUBSET Subs, Inv,
         \A s \in due : Exists(s),
         req' = [req EXCEPT ![r] = [Idle EXCEPT !.op = op, !.at = "next", !.todo = due]],
         UNCHANGED <<task, sub, aged, merged, balance, ledger, lock, started>>
  PROVE  StepOK(r)
<1> DEFINE start == [Idle EXCEPT !.op = op, !.at = "next", !.todo = due]
<1>1. start \in Request
  BY DEF Idle, Request, Ops, Steps, Loops, Verdicts, SubStatusOf
<1>2. req'[r] = start /\ \A o \in Reqs : o # r => req'[o] = req[o]
  BY DEF Inv, TypeOK
<1>3. TypeOK'
  BY <1>1 DEF Inv, TypeOK
<1>4. TablesOK' /\ Kept
  BY SameTables DEF Inv, TablesOK
<1>5. start.todo = due /\ start.op = op /\ start.at = "next" /\ start.verdict = "APPROVE"
  BY DEF Idle
<1> HIDE DEF start
<1>6. RequestOK(req[r])'
  BY <1>2, <1>5 DEF RequestOK, Reviews, Loops, Exists
<1> QED
  BY <1>2, <1>3, <1>4, <1>6 DEF StepOK

LEMMA AutoCompleteReadOK ==
  ASSUME NEW r \in Reqs, Inv, AutoCompleteRead(r)
  PROVE  StepOK(r)
<1>1. Stale \subseteq Subs /\ \A s \in Stale : Exists(s)
  BY DEF Stale, Exists, Inv, TypeOK
<1> QED
  BY <1>1, LoopStartOK DEF AutoCompleteRead, Loops

LEMMA PollReadOK ==
  ASSUME NEW r \in Reqs, Inv, PollRead(r)
  PROVE  StepOK(r)
<1> DEFINE due == {s \in Subs : sub[s].status = "SUBMITTED" /\ sub[s].validation = "PASSED"}
<1>1. due \in SUBSET Subs /\ \A s \in due : Exists(s)
  BY DEF Exists
<1> QED
  BY <1>1, LoopStartOK DEF PollRead, Loops

LEMMA NextInLoopOK ==
  ASSUME NEW r \in Reqs, NEW s \in Subs, Inv, NextInLoop(r, s)
  PROVE  StepOK(r)
<1> DEFINE q == req[r]
           new == [q EXCEPT !.todo = @ \ {s}, !.sub = s, !.task = sub[s].task,
                            !.at = IF q.op = "poll" THEN "pollRead" ELSE "lock"]
<1>1. q \in Request /\ RequestOK(q) /\ q.at = "next" /\ s \in q.todo
  BY DEF NextInLoop, Inv, TypeOK
<1>2. /\ q.op \in Loops /\ q.verdict = "APPROVE" /\ Exists(s)
      /\ sub[s].task \in Tasks /\ task[sub[s].task].status # "ABSENT"
  BY <1>1 DEF RequestOK, Inv, RowsOK
<1>3. new \in Request
  BY <1>1, <1>2 DEF Request, Steps
<1>4. req'[r] = new /\ TypeOK' /\ \A o \in Reqs : o # r => req'[o] = req[o]
  BY <1>3 DEF NextInLoop, Inv, TypeOK
<1>5. TablesOK' /\ Kept
  BY SameTables DEF Inv, TablesOK, NextInLoop
<1>6. \A o \in new.todo : Exists(o)
  BY <1>1 DEF RequestOK, Request
<1>7. new.op = q.op /\ new.verdict = q.verdict /\ new.sub = s /\ new.task = sub[s].task
      /\ new.at \in {"pollRead", "lock"}
  BY <1>1 DEF Request
<1>8. RequestOK(req[r])'
  BY <1>1, <1>2, <1>4, <1>6, <1>7 DEF RequestOK, NextInLoop, Exists, Reviews, Loops
<1> QED
  BY <1>4, <1>5, <1>8 DEF StepOK

\* The ways a step that leaves the tables alone ends: in Done, Goto or Throw.
LEMMA DoneStep ==
  ASSUME NEW r \in Reqs, Inv, Done(r), lock' \in [Tasks \X Users -> LockState],
         UNCHANGED <<task, sub, aged, merged, balance, ledger, started>>
  PROVE  StepOK(r)
<1>1. TablesOK' /\ Kept
  BY SameTables DEF Inv, TablesOK
<1>2. TypeOK'
  BY DoneType DEF Inv, TypeOK
<1> QED
  BY <1>1, <1>2, DoneOK DEF StepOK

LEMMA GotoStep ==
  ASSUME NEW r \in Reqs, NEW step \in Steps, Inv, Goto(r, step),
         lock' \in [Tasks \X Users -> LockState],
         UNCHANGED <<task, sub, aged, merged, balance, ledger, started>>,
         req[r].at \notin {"idle", "next", "latest", "insert", "write"},
         step \notin {"idle", "next", "latest", "insert"},
         req[r].op \in {"create", "cancel"} \cup Reviews,
         step \in {"reward", "check", "commit"} \/ req[r].op \in Reviews,
         req[r].verdict = "APPROVE",
         step \in {"release", "finalize"} => Paid(req[r].task, sub[req[r].sub].worker)
  PROVE  StepOK(r)
<1>1. TablesOK' /\ Kept
  BY SameTables DEF Inv, TablesOK
<1>2. TypeOK' /\ req[r] \in Request /\ req'[r] = [req[r] EXCEPT !.at = step]
  BY GotoType DEF Inv, TypeOK
<1>4. req'[r].task = req[r].task /\ req'[r].sub = req[r].sub
  BY <1>2 DEF Request
<1>3. step \in {"release", "finalize"} => Paid(req[r].task, sub[req[r].sub].worker)'
  BY <1>4 DEF Paid
<1> QED
  BY <1>1, <1>2, <1>3, GotoOK DEF StepOK

\* What a request in a transfer or in payout is.
LEMMA InTransfer ==
  ASSUME NEW r \in Reqs, Inv, req[r].at \in {"reward", "check", "commit"}
  PROVE  req[r].op \in {"create", "cancel"} \cup Reviews /\ req[r].verdict = "APPROVE"
BY DEF Inv, RequestOK

LEMMA InPayout ==
  ASSUME NEW r \in Reqs, Inv,
         req[r].at \in {"pollRead", "github", "recheck", "lock", "existing", "release", "giveUp"}
  PROVE  req[r].op \in Reviews /\ req[r].verdict = "APPROVE"
BY DEF Inv, RequestOK

LEMMA ThrowStep ==
  ASSUME NEW r \in Reqs, Inv, Throw(r), lock' \in [Tasks \X Users -> LockState],
         UNCHANGED <<task, sub, aged, merged, balance, ledger, started>>
  PROVE  StepOK(r)
<1>1. CASE req[r].at \in {"existing", "reward", "check", "commit"} /\ TxnType(r) = "TASK_PAYOUT"
  <2>1. Goto(r, "giveUp")
    BY <1>1 DEF Throw
  <2>2. req[r].op \in Reviews /\ req[r].verdict = "APPROVE"
    BY <1>1, InTransfer, InPayout DEF TxnType
  <2> QED
    BY <1>1, <2>1, <2>2, GotoStep DEF Steps
<1>2. CASE Done(r)
  BY <1>2, DoneStep
<1> QED
  BY <1>1, <1>2 DEF Throw

LEMMA LockTypes ==
  ASSUME TypeOK, NEW k \in Tasks \X Users, NEW c \in Conns
  PROVE  /\ AfterGetLock(lock[k], c) \in LockState
         /\ AfterReleaseLock(lock[k], c) \subseteq LockState
<1>1. lock[k] \in LockState /\ FreeLock \in LockState
  BY DEF TypeOK, LockState, FreeLock
<1>2. AfterGetLock(lock[k], c) \in LockState
  <2>1. lock[k].depth \in 0..MaxDepth
    BY <1>1 DEF LockState, FreeLock
  <2>2. (IF lock[k].depth = MaxDepth THEN MaxDepth ELSE lock[k].depth + 1) \in 1..MaxDepth
    BY <2>1 DEF ConnAssumption
  <2> QED
    BY <2>2 DEF AfterGetLock, LockState
<1>3. CASE lock[k].owner = c
  <2>1. lock[k] \in [owner : Conns, depth : 1..MaxDepth]
    BY <1>1, <1>3 DEF LockState, FreeLock
  <2>2. lock[k].depth # 1 => [lock[k] EXCEPT !.depth = @ - 1] \in LockState
    BY <2>1 DEF LockState
  <2> QED
    BY <1>1, <1>2, <1>3, <2>2 DEF AfterReleaseLock
<1>4. CASE lock[k].owner # c
  BY <1>1, <1>2, <1>4 DEF AfterReleaseLock
<1> QED
  BY <1>3, <1>4

LEMMA PollLookOK ==
  ASSUME NEW r \in Reqs, Inv, PollProcess(r) \/ PollRecheck(r)
  PROVE  StepOK(r)
<1>1. /\ req[r].at \in {"pollRead", "recheck"} /\ lock' \in [Tasks \X Users -> LockState]
      /\ UNCHANGED <<task, sub, aged, merged, balance, ledger, started>>
  BY DEF PollProcess, PollRecheck, Inv, TypeOK
<1>2. req[r].op \in Reviews /\ req[r].verdict = "APPROVE"
  BY <1>1, InPayout
<1>3. CASE Goto(r, "github") \/ Goto(r, "lock")
  BY <1>1, <1>2, <1>3, GotoStep DEF Steps
<1>4. CASE Done(r)
  BY <1>1, <1>4, DoneStep
<1> QED
  BY <1>3, <1>4 DEF PollProcess, PollRecheck

LEMMA GetLockOK ==
  ASSUME NEW r \in Reqs, NEW c \in Conns, Inv, GetLock(r, c)
  PROVE  StepOK(r)
<1>1. /\ req[r].at = "lock" /\ Goto(r, "existing")
      /\ UNCHANGED <<task, sub, aged, merged, balance, ledger, started>>
  BY DEF GetLock
<1>2. req[r].op \in Reviews /\ req[r].verdict = "APPROVE"
  BY <1>1, InPayout
<1>3. lock' \in [Tasks \X Users -> LockState]
  BY LockTypes DEF GetLock, Inv, TypeOK
<1> QED
  BY <1>1, <1>2, <1>3, GotoStep DEF Steps

LEMMA LockTimeoutOK ==
  ASSUME NEW r \in Reqs, NEW c \in Conns, Inv, LockTimeout(r, c)
  PROVE  StepOK(r)
BY DoneStep DEF LockTimeout, Inv, TypeOK

LEMMA FindExistingPayoutOK ==
  ASSUME NEW r \in Reqs, Inv, FindExistingPayout(r)
  PROVE  StepOK(r)
<1>1. /\ req[r].at = "existing" /\ lock' \in [Tasks \X Users -> LockState]
      /\ UNCHANGED <<task, sub, aged, merged, balance, ledger, started>>
  BY DEF FindExistingPayout, Inv, TypeOK
<1>2. req[r].op \in Reviews /\ req[r].verdict = "APPROVE"
  BY <1>1, InPayout
<1>3. CASE Paid(req[r].task, Worker(r)) /\ Goto(r, "release")
  BY <1>1, <1>2, <1>3, GotoStep DEF Steps, Worker
<1>4. CASE Goto(r, "reward")
  BY <1>1, <1>2, <1>4, GotoStep DEF Steps
<1> QED
  BY <1>3, <1>4 DEF FindExistingPayout

LEMMA CheckBalanceOK ==
  ASSUME NEW r \in Reqs, Inv, CheckBalance(r)
  PROVE  StepOK(r)
<1>1. /\ req[r].at = "check" /\ lock' \in [Tasks \X Users -> LockState]
      /\ UNCHANGED <<task, sub, aged, merged, balance, ledger, started>>
  BY DEF CheckBalance, Inv, TypeOK
<1>2. req[r].op \in {"create", "cancel"} \cup Reviews /\ req[r].verdict = "APPROVE"
  BY <1>1, InTransfer
<1>3. CASE Goto(r, "commit")
  BY <1>1, <1>2, <1>3, GotoStep DEF Steps
<1>4. CASE Throw(r)
  BY <1>1, <1>4, ThrowStep
<1> QED
  BY <1>3, <1>4 DEF CheckBalance

LEMMA StatementFailsOK ==
  ASSUME NEW r \in Reqs, Inv, StatementFails(r)
  PROVE  StepOK(r)
BY ThrowStep DEF StatementFails, Inv, TypeOK

LEMMA ReleaseLockOK ==
  ASSUME NEW r \in Reqs, NEW c \in Conns, Inv, ReleaseLock(r, c)
  PROVE  StepOK(r)
<1>1. /\ req[r].at \in {"release", "giveUp"}
      /\ UNCHANGED <<task, sub, aged, merged, balance, ledger, started>>
  BY DEF ReleaseLock
<1>2. req[r].op \in Reviews /\ req[r].verdict = "APPROVE"
  BY <1>1, InPayout
<1>3. lock' \in [Tasks \X Users -> LockState]
  <2>1. PICK l \in AfterReleaseLock(lock[Key(r)], c) : lock' = [lock EXCEPT ![Key(r)] = l]
    BY DEF ReleaseLock
  <2>2. Key(r) \in Tasks \X Users => l \in LockState
    BY <2>1, LockTypes DEF Inv
  <2> QED
    BY <2>1, <2>2 DEF Inv, TypeOK
<1>4. CASE req[r].at = "release" /\ Goto(r, "finalize")
  <2>1. Paid(req[r].task, sub[req[r].sub].worker)
    BY <1>4 DEF Inv, RequestOK
  <2> QED
    BY <1>1, <1>2, <1>3, <1>4, <2>1, GotoStep DEF Steps
<1>5. CASE Done(r)
  BY <1>1, <1>3, <1>5, DoneStep
<1> QED
  BY <1>4, <1>5 DEF ReleaseLock

LEMMA ReadRewardOK ==
  ASSUME NEW r \in Reqs, Inv, ReadReward(r)
  PROVE  StepOK(r)
<1> DEFINE q == req[r]
           new == [q EXCEPT !.at = "check", !.amount = task[q.task].reward]
<1>1. /\ q \in Request /\ RequestOK(q) /\ q.at = "reward"
      /\ UNCHANGED <<task, sub, aged, merged, balance, ledger, lock, started>>
  BY DEF ReadReward, Inv, TypeOK
<1>2. q.task \in Tasks /\ task[q.task].reward \in Nat
  BY <1>1 DEF RequestOK, Inv, TypeOK, TaskRow
<1>3. new \in Request
  BY <1>1, <1>2 DEF Request, Steps
<1>4. req'[r] = new /\ TypeOK' /\ \A o \in Reqs : o # r => req'[o] = req[o]
  BY <1>1, <1>3 DEF ReadReward, Inv, TypeOK
<1>5. TablesOK' /\ Kept
  BY <1>1, SameTables DEF Inv, TablesOK
<1>6. /\ new.at = "check" /\ new.op = q.op /\ new.task = q.task /\ new.sub = q.sub
      /\ new.verdict = q.verdict /\ new.todo = q.todo /\ new.user = q.user
  BY <1>1 DEF Request
<1> HIDE DEF new
<1>7. RequestOK(req[r])'
  BY <1>1, <1>4, <1>6 DEF RequestOK, Exists
<1> QED
  BY <1>4, <1>5, <1>7 DEF StepOK

LEMMA AbortTransferOK ==
  ASSUME NEW r \in Reqs, Inv, AbortTransfer(r)
  PROVE  StepOK(r)
<1> DEFINE q == req[r]
           new == [q EXCEPT !.at = "check", !.tries = @ + 1]
<1>1. /\ q \in Request /\ RequestOK(q) /\ q.at = "commit"
      /\ UNCHANGED <<task, sub, aged, merged, balance, ledger, lock, started>>
  BY DEF AbortTransfer, Inv, TypeOK
<1>2. CASE Throw(r)
  BY <1>1, <1>2, ThrowStep DEF Inv, TypeOK
<1>3. CASE req' = [req EXCEPT ![r].at = "check", ![r].tries = @ + 1]
  <2>0. q.tries + 1 \in Nat
    BY <1>1 DEF Request
  <2>1. new \in Request
    BY <1>1, <2>0 DEF Request, Steps
  <2>2. req'[r] = new /\ TypeOK' /\ \A o \in Reqs : o # r => req'[o] = req[o]
    BY <1>1, <1>3, <2>1 DEF Inv, TypeOK
  <2>3. TablesOK' /\ Kept
    BY <1>1, SameTables DEF Inv, TablesOK
  <2>4. /\ new.at = "check" /\ new.op = q.op /\ new.task = q.task /\ new.sub = q.sub
        /\ new.verdict = q.verdict /\ new.todo = q.todo /\ new.user = q.user
    BY <1>1 DEF Request
  <2> HIDE DEF new
  <2>5. RequestOK(req[r])'
    BY <1>1, <2>2, <2>4 DEF RequestOK, Exists
  <2> QED
    BY <2>2, <2>3, <2>5 DEF StepOK
<1> QED
  BY <1>2, <1>3 DEF AbortTransfer
-------------------------------------------------------------------------------
(***************************************************************************)
(* The steps that write a table.                                           *)
(***************************************************************************)
LEMMA PollAnswerOK ==
  ASSUME NEW r \in Reqs, Inv, PollAnswer(r)
  PROVE  StepOK(r)
<1> DEFINE s == req[r].sub
<1>1. /\ req[r].at = "github" /\ UNCHANGED <<task, aged, balance, ledger, lock, started>>
      /\ lock' \in [Tasks \X Users -> LockState]
  BY DEF PollAnswer, Inv, TypeOK
<1>2. req[r].op \in Reviews /\ req[r].verdict = "APPROVE" /\ s \in Subs
  BY <1>1, InPayout DEF Inv, RequestOK
<1>3. CASE /\ sub' = [sub EXCEPT ![s].validation = "FAILED"]
           /\ Done(r) /\ UNCHANGED merged
  <2> DEFINE row == [sub[s] EXCEPT !.validation = "FAILED"]
  <2>a. sub[s] \in SubRow
    BY <1>2 DEF Inv, TypeOK
  <2>b. /\ row \in SubRow /\ row.status = sub[s].status /\ row.task = sub[s].task
        /\ row.worker = sub[s].worker
    BY <2>a DEF SubRow, Validation
  <2>c. sub' = [sub EXCEPT ![s] = row]
    BY <1>3
  <2> HIDE DEF row
  <2>1. /\ \A o \in Subs : /\ sub'[o].status = sub[o].status /\ sub'[o].task = sub[o].task
                            /\ sub'[o].worker = sub[o].worker
        /\ sub' \in [Subs -> SubRow]
    BY <1>2, <2>b, <2>c DEF Inv, TypeOK
  <2>2. TablesOK' /\ Kept
    BY <1>1, <2>1 DEF Inv, TablesOK, RowsOK, OnlyWorkersArePaid, ApprovedWasPaid,
                      CompletedWasApproved, Kept, Paid, SubsOf, Exists
  <2>3. TypeOK'
    BY <1>1, <1>3, <2>1, DoneType DEF Inv, TypeOK
  <2> QED
    BY <1>3, <2>2, <2>3, DoneOK DEF StepOK
<1>4. CASE /\ merged' = merged \cup {s}
           /\ Goto(r, "recheck") /\ UNCHANGED sub
  <2>1. TablesOK' /\ Kept
    BY <1>1, <1>4, SameTables DEF Inv, TablesOK
  <2>2. TypeOK'
    BY <1>1, <1>2, <1>4, GotoType DEF Inv, TypeOK, Steps
  <2> QED
    BY <1>1, <1>2, <1>4, <2>1, <2>2, GotoOK DEF StepOK, Steps
<1>5. CASE Done(r) /\ UNCHANGED <<sub, merged>>
  BY <1>1, <1>5, DoneStep
<1> QED
  BY <1>3, <1>4, <1>5 DEF PollAnswer

\* A write of one task row that keeps its creator and completes nothing.
LEMMA TaskWrite ==
  ASSUME Inv, NEW t \in Tasks, NEW row \in TaskRow,
         task[t].status # "ABSENT", row.status # "ABSENT", row.creator = task[t].creator,
         row.status = "COMPLETED" => task[t].status = "COMPLETED",
         task' = [task EXCEPT ![t] = row], UNCHANGED <<sub, ledger>>
  PROVE  TablesOK' /\ Kept /\ task' \in [Tasks -> TaskRow]
<1>1. /\ task' \in [Tasks -> TaskRow]
      /\ \A o \in Tasks : /\ task'[o].creator = task[o].creator
                          /\ task[o].status # "ABSENT" <=> task'[o].status # "ABSENT"
                          /\ task'[o].status = "COMPLETED" => task[o].status = "COMPLETED"
  BY DEF Inv, TypeOK
<1>2. Kept
  BY <1>1 DEF Kept, Paid
<1>3. RowsOK'
  BY <1>1 DEF Inv, RowsOK, Exists
<1>4. OnlyWorkersArePaid'
  BY <1>1 DEF Inv, OnlyWorkersArePaid, Paid, SubsOf, Exists
<1>5. ApprovedWasPaid' /\ CompletedWasApproved'
  BY <1>1 DEF Inv, ApprovedWasPaid, CompletedWasApproved, Paid
<1> QED
  BY <1>1, <1>2, <1>3, <1>4, <1>5 DEF TablesOK

\* The request that writes has read the row.
LEMMA InWrite ==
  ASSUME NEW r \in Reqs, Inv, req[r].at \notin {"idle", "next"}
  PROVE  /\ req[r].task \in Tasks /\ task[req[r].task].status # "ABSENT"
         /\ task[req[r].task] \in TaskRow
BY DEF Inv, TypeOK, RequestOK

LEMMA CreateTaskOK ==
  ASSUME NEW r \in Reqs, NEW u \in Users, NEW t \in Tasks, NEW amount \in Rewards, Inv,
         CreateTask(r, u, t, amount)
  PROVE  StepOK(r)
<1> DEFINE start == [Idle EXCEPT !.op = "create", !.at = "check", !.user = u, !.task = t,
                                 !.amount = amount]
           row == [status |-> "OPEN", creator |-> u, reward |-> amount]
<1>1. /\ task[t].status = "ABSENT" /\ task' = [task EXCEPT ![t] = row]
      /\ Begin(r, start) /\ UNCHANGED <<sub, aged, merged, balance, ledger, lock>>
  BY DEF CreateTask
<1>2. amount \in Nat /\ row \in TaskRow
  BY MarketAssumption DEF TaskRow, TaskStatus
<1>3. start \in Request
  BY <1>2 DEF Idle, Request, Ops, Steps, Verdicts, SubStatusOf
<1>4. TypeOK' /\ req'[r] = start /\ \A o \in Reqs : o # r => req'[o] = req[o]
  BY <1>1, <1>2, <1>3, BeginType DEF Inv, TypeOK
<1>5. /\ \A o \in Tasks : task[o].status # "ABSENT" => task'[o] = task[o]
      /\ \A o \in Tasks : o # t => task'[o] = task[o]
      /\ task'[t] = row
  BY <1>1 DEF Inv, TypeOK
<1>6. Kept
  BY <1>1, <1>5 DEF Kept, Paid
<1>7. RowsOK'
  BY <1>1, <1>5 DEF Inv, RowsOK, Exists
<1>8. OnlyWorkersArePaid'
  <2> SUFFICES ASSUME NEW o \in Tasks, NEW w \in Users, Paid(o, w)'
               PROVE  w # task'[o].creator /\ SubsOf(o, w)' # {}
    BY DEF OnlyWorkersArePaid
  <2>1. Paid(o, w) /\ SubsOf(o, w)' = SubsOf(o, w)
    BY <1>1 DEF Paid, SubsOf, Exists
  <2>2. w # task[o].creator /\ SubsOf(o, w) # {}
    BY <2>1 DEF Inv, OnlyWorkersArePaid
  <2>3. o # t
    BY <1>1, <2>2 DEF Inv, RowsOK, SubsOf, Exists
  <2> QED
    BY <2>1, <2>2, <2>3, <1>5
<1>9. ApprovedWasPaid' /\ CompletedWasApproved'
  BY <1>1, <1>5 DEF Inv, ApprovedWasPaid, CompletedWasApproved, Paid
<1>10. RequestOK(req[r])'
  <2>1. /\ start.op = "create" /\ start.at = "check" /\ start.user = u /\ start.task = t
        /\ start.verdict = "APPROVE" /\ start.todo = {}
    BY DEF Idle
  <2> HIDE DEF start
  <2> QED
    BY <1>4, <1>5, <2>1 DEF RequestOK, Reviews, Loops
<1> QED
  BY <1>4, <1>6, <1>7, <1>8, <1>9, <1>10 DEF StepOK, TablesOK

\* Either kind of write ends the request or goes on to the refund.
LEMMA WriteOK ==
  ASSUME NEW r \in Reqs, Inv, req[r].at = "write", NEW row \in TaskRow,
         row.status # "ABSENT", row.creator = task[req[r].task].creator,
         row.status = "COMPLETED" => task[req[r].task].status = "COMPLETED",
         task' = [task EXCEPT ![req[r].task] = row],
         UNCHANGED <<sub, aged, merged, balance, ledger, lock, started>>, Done(r)
  PROVE  StepOK(r)
<1>1. TablesOK' /\ Kept /\ task' \in [Tasks -> TaskRow]
  BY InWrite, TaskWrite
<1>2. TypeOK'
  BY <1>1, DoneType DEF Inv, TypeOK
<1> QED
  BY <1>1, <1>2, DoneOK DEF StepOK

LEMMA StartReviewWriteOK ==
  ASSUME NEW r \in Reqs, Inv, StartReviewWrite(r)
  PROVE  StepOK(r)
<1> DEFINE row == [task[req[r].task] EXCEPT !.status = "REVIEWING"]
<1>1. req[r].at = "write" /\ task[req[r].task] \in TaskRow
  BY InWrite DEF StartReviewWrite
<1>2. row \in TaskRow /\ row.status = "REVIEWING" /\ row.creator = task[req[r].task].creator
  BY <1>1 DEF TaskRow, TaskStatus
<1>3. task' = [task EXCEPT ![req[r].task] = row]
  BY DEF StartReviewWrite
<1> HIDE DEF row
<1> QED
  BY <1>1, <1>2, <1>3, WriteOK DEF StartReviewWrite

LEMMA UpdateWriteOK ==
  ASSUME NEW r \in Reqs, Inv, UpdateWrite(r)
  PROVE  StepOK(r)
<1> DEFINE row == [task[req[r].task] EXCEPT !.reward = req[r].amount]
<1>1. /\ req[r].at = "write" /\ req[r].amount \in Nat
      /\ task[req[r].task] \in TaskRow /\ task[req[r].task].status # "ABSENT"
  BY InWrite DEF UpdateWrite, Inv, TypeOK, Request
<1>2. /\ row \in TaskRow /\ row.status = task[req[r].task].status
      /\ row.creator = task[req[r].task].creator
  BY <1>1 DEF TaskRow
<1>3. task' = [task EXCEPT ![req[r].task] = row]
  BY DEF UpdateWrite
<1> HIDE DEF row
<1> QED
  BY <1>1, <1>2, <1>3, WriteOK DEF UpdateWrite

LEMMA CancelWriteOK ==
  ASSUME NEW r \in Reqs, Inv, CancelWrite(r)
  PROVE  StepOK(r)
<1> DEFINE row == [task[req[r].task] EXCEPT !.status = "CANCELLED"]
<1>1. /\ req[r].op = "cancel" /\ req[r].at = "write" /\ Goto(r, "reward")
      /\ UNCHANGED <<sub, aged, merged, balance, ledger, lock, started>>
      /\ task' = [task EXCEPT ![req[r].task] = row]
  BY DEF CancelWrite
<1>2. /\ req[r].task \in Tasks /\ task[req[r].task] \in TaskRow
      /\ task[req[r].task].status # "ABSENT"
  BY <1>1, InWrite
<1>3. row \in TaskRow /\ row.status = "CANCELLED" /\ row.creator = task[req[r].task].creator
  BY <1>2 DEF TaskRow, TaskStatus
<1> HIDE DEF row
<1>4. TablesOK' /\ Kept /\ task' \in [Tasks -> TaskRow]
  BY <1>1, <1>2, <1>3, TaskWrite
<1>5. TypeOK' /\ req'[r] = [req[r] EXCEPT !.at = "reward"]
      /\ \A o \in Reqs : o # r => req'[o] = req[o]
  BY <1>1, <1>4, GotoType DEF Inv, TypeOK, Steps
<1>6. req[r] \in Request /\ RequestOK(req[r])
  BY DEF Inv, TypeOK
<1>7. /\ req'[r].at = "reward" /\ req'[r].op = "cancel" /\ req'[r].task = req[r].task
      /\ req'[r].verdict = req[r].verdict /\ req'[r].todo = req[r].todo
  BY <1>1, <1>5, <1>6 DEF Request
<1>8. RequestOK(req[r])'
  BY <1>1, <1>2, <1>4, <1>6, <1>7 DEF RequestOK, Kept, Exists, Reviews, Loops
<1> QED
  BY <1>4, <1>5, <1>8 DEF StepOK

LEMMA SubmitInsertOK ==
  ASSUME NEW r \in Reqs, NEW s \in Subs, Inv, SubmitInsert(r, s)
  PROVE  StepOK(r)
<1> DEFINE q == req[r]
<1>1. PICK v \in {"PASSED", "FAILED", "NOT_APPLICABLE"} :
        sub' = [sub EXCEPT ![s] =
                  [status |-> "SUBMITTED", task |-> q.task, worker |-> q.user,
                   version |-> q.version, at |-> Cardinality({o \in Subs : Exists(o)}),
                   validation |-> v]]
  BY DEF SubmitInsert
<1> DEFINE row == [status |-> "SUBMITTED", task |-> q.task, worker |-> q.user,
                   version |-> q.version, at |-> Cardinality({o \in Subs : Exists(o)}),
                   validation |-> v]
<1>2. /\ q.at = "insert" /\ sub[s].status = "ABSENT" /\ Done(r)
      /\ UNCHANGED <<task, aged, merged, balance, ledger, lock, started>>
  BY DEF SubmitInsert, Exists
<1>3. /\ q \in Request /\ q.task \in Tasks /\ task[q.task].status # "ABSENT"
      /\ q.user \in Users /\ q.user # task[q.task].creator
  BY <1>2 DEF Inv, TypeOK, RequestOK
<1>4. Cardinality({o \in Subs : Exists(o)}) \in Nat
  BY FS_Subset, FS_CardinalityType, MarketAssumption
<1>5. row \in SubRow /\ row.status = "SUBMITTED" /\ row.task = q.task /\ row.worker = q.user
  BY <1>3, <1>4 DEF SubRow, SubStatus, Validation, Request
<1>6. sub' = [sub EXCEPT ![s] = row]
  BY <1>1
<1> HIDE DEF row
<1>7. /\ sub' \in [Subs -> SubRow]
      /\ sub'[s] = row /\ \A o \in Subs : o # s => sub'[o] = sub[o]
  BY <1>5, <1>6 DEF Inv, TypeOK
<1>8. Kept
  BY <1>2, <1>7 DEF Kept, Paid
<1>9. TypeOK'
  BY <1>2, <1>7, DoneType DEF Inv, TypeOK
<1>10. RowsOK'
  BY <1>2, <1>3, <1>5, <1>7 DEF Inv, RowsOK, Exists
<1>11. OnlyWorkersArePaid'
  <2> SUFFICES ASSUME NEW t \in Tasks, NEW w \in Users, Paid(t, w)'
               PROVE  w # task'[t].creator /\ SubsOf(t, w)' # {}
    BY DEF OnlyWorkersArePaid
  <2>1. w # task[t].creator /\ SubsOf(t, w) # {}
    BY <1>2 DEF Inv, OnlyWorkersArePaid, Paid
  <2>2. PICK o \in Subs : Exists(o) /\ sub[o].task = t /\ sub[o].worker = w
    BY <2>1 DEF SubsOf
  <2>3. o \in SubsOf(t, w)'
    BY <2>2, <1>2, <1>7 DEF SubsOf, Exists
  <2> QED
    BY <2>1, <2>3, <1>2
<1>12. ApprovedWasPaid'
  BY <1>2, <1>5, <1>7 DEF Inv, ApprovedWasPaid, Paid
<1>13. CompletedWasApproved'
  BY <1>2, <1>5, <1>7 DEF Inv, CompletedWasApproved
<1> QED
  BY <1>2, <1>8, <1>9, <1>10, <1>11, <1>12, <1>13, DoneOK DEF StepOK, TablesOK

\* A new row in the ledger: old payouts stay, and a payout row is one.
LEMMA LedgerAppend ==
  ASSUME TypeOK, NEW x \in TxnRow, ledger' = Append(ledger, x)
  PROVE  /\ ledger' \in Seq(TxnRow)
         /\ \A t \in Tasks, w \in Users :
              Paid(t, w)' <=> (Paid(t, w) \/ (x.type = "TASK_PAYOUT" /\ x.task = t /\ x.to = w))
<1>1. /\ ledger \in Seq(TxnRow) /\ Len(ledger') = Len(ledger) + 1
      /\ \A i \in 1..Len(ledger) : ledger'[i] = ledger[i]
      /\ ledger'[Len(ledger) + 1] = x
      /\ DOMAIN ledger = 1..Len(ledger) /\ DOMAIN ledger' = 1..(Len(ledger) + 1)
  BY DEF TypeOK
<1>2. DOMAIN ledger' = DOMAIN ledger \cup {Len(ledger) + 1}
  BY <1>1
<1> QED
  BY <1>1, <1>2 DEF Paid, TypeOK

LEMMA CommitTransferOK ==
  ASSUME NEW r \in Reqs, Inv, CommitTransfer(r)
  PROVE  StepOK(r)
<1> DEFINE q == req[r]
           x == [type |-> TxnType(r), task |-> q.task, from |-> Payer(r), to |-> Payee(r),
                 amount |-> q.amount]
<1>1. /\ q.at = "commit" /\ ledger' = Append(ledger, x)
      /\ balance' = [balance EXCEPT ![Payer(r)] = @ - q.amount, ![Payee(r)] = @ + q.amount]
      /\ UNCHANGED <<task, sub, aged, merged, lock, started>>
      /\ IF TxnType(r) = "TASK_PAYOUT" THEN Goto(r, "release") ELSE Done(r)
  BY DEF CommitTransfer
<1>2. /\ q \in Request /\ q.task \in Tasks /\ task[q.task].status # "ABSENT"
      /\ q.op \in {"create", "cancel"} \cup Reviews /\ q.verdict = "APPROVE"
      /\ q.op = "create" => q.user \in Users
      /\ q.op \in Reviews => q.sub \in Subs /\ Exists(q.sub) /\ sub[q.sub].task = q.task
  BY <1>1, InTransfer DEF Inv, TypeOK, RequestOK
<1>3. q.op \in Reviews => /\ TxnType(r) = "TASK_PAYOUT" /\ Payee(r) = sub[q.sub].worker
                          /\ sub[q.sub].worker \in Users
                          /\ sub[q.sub].worker # task[q.task].creator
  BY <1>2 DEF TxnType, Payee, Worker, Reviews, Loops, Inv, RowsOK
<1>4. q.op \notin Reviews => TxnType(r) # "TASK_PAYOUT" /\ Payee(r) \in Users \cup {Pool}
  BY <1>2 DEF TxnType, Payee, Inv, RowsOK
<1>15. Payer(r) \in Users \cup {Pool} /\ Payee(r) \in Users \cup {Pool} /\ q.amount \in Nat
  BY <1>2, <1>3, <1>4 DEF Payer, Request
<1>5. x \in TxnRow
  <2>1. TxnType(r) \in {"TASK_ESCROW", "TASK_PAYOUT", "TASK_REFUND"}
    BY DEF TxnType
  <2> QED
    BY <1>2, <1>15, <2>1 DEF TxnRow
<1>6. x.type = TxnType(r) /\ x.task = q.task /\ x.to = Payee(r)
  OBVIOUS
<1> HIDE DEF x
<1>7. /\ ledger' \in Seq(TxnRow)
      /\ \A t \in Tasks, w \in Users :
           Paid(t, w)' <=> (Paid(t, w) \/ (x.type = "TASK_PAYOUT" /\ x.task = t /\ x.to = w))
  BY <1>1, <1>5, LedgerAppend DEF Inv
<1>8. Kept
  BY <1>1, <1>7 DEF Kept
<1>9. RowsOK' /\ CompletedWasApproved'
  BY <1>1 DEF Inv, RowsOK, CompletedWasApproved, Exists
<1>10. ApprovedWasPaid'
  <2> SUFFICES ASSUME NEW s \in Subs, sub'[s].status = "APPROVED"
               PROVE  Paid(sub[s].task, sub[s].worker)'
    BY DEF ApprovedWasPaid
  <2>1. Exists(s) /\ Paid(sub[s].task, sub[s].worker)
    BY <1>1 DEF Inv, ApprovedWasPaid, Exists
  <2>2. PICK t \in Tasks, w \in Users : t = sub[s].task /\ w = sub[s].worker
    BY <2>1 DEF Inv, RowsOK
  <2>3. Paid(t, w)'
    BY <2>1, <2>2, <1>7
  <2> QED
    BY <2>2, <2>3, <1>1 DEF Paid
<1>11. OnlyWorkersArePaid'
  <2> SUFFICES ASSUME NEW t \in Tasks, NEW w \in Users, Paid(t, w)'
               PROVE  w # task'[t].creator /\ SubsOf(t, w)' # {}
    BY DEF OnlyWorkersArePaid
  <2>1. CASE Paid(t, w)
    BY <2>1, <1>1 DEF Inv, OnlyWorkersArePaid, SubsOf, Exists
  <2>2. CASE x.type = "TASK_PAYOUT" /\ x.task = t /\ x.to = w
    <3>1. q.op \in Reviews /\ t = q.task /\ w = sub[q.sub].worker
      BY <2>2, <1>3, <1>4, <1>6
    <3>2. q.sub \in SubsOf(t, w)
      BY <3>1, <1>2 DEF SubsOf
    <3> QED
      BY <3>1, <3>2, <1>1, <1>3 DEF SubsOf, Exists
  <2> QED
    BY <2>1, <2>2, <1>7
<1>12. TypeOK'
  <2>1. balance' \in [Users \cup {Pool} -> Int]
    <3>1. balance \in [Users \cup {Pool} -> Int]
      BY DEF Inv, TypeOK
    <3>2. \A b \in [Users \cup {Pool} -> Int], a \in Users \cup {Pool}, v \in Int :
            [b EXCEPT ![a] = @ + v] \in [Users \cup {Pool} -> Int]
      OBVIOUS
    <3>3. [balance EXCEPT ![Payer(r)] = @ - q.amount] \in [Users \cup {Pool} -> Int]
      BY <3>1, <1>15
    <3> QED
      BY <3>2, <3>3, <1>1, <1>15
  <2>2. req' \in [Reqs -> Request]
    BY <1>1, GotoType, DoneType DEF Inv, TypeOK, Steps
  <2> QED
    BY <2>1, <2>2, <1>1, <1>7 DEF Inv, TypeOK
<1>13. CASE q.op \in Reviews
  <2>1. PICK t \in Tasks, w \in Users : t = q.task /\ w = sub[q.sub].worker
    BY <1>2, <1>3, <1>13
  <2>2. Paid(t, w)'
    BY <2>1, <1>3, <1>6, <1>7, <1>13
  <2>3. Goto(r, "release") /\ req'[r] = [q EXCEPT !.at = "release"]
    BY <1>1, <1>3, <1>13, GotoType DEF Inv, TypeOK, Steps
  <2>4. req'[r].task = t /\ sub'[req'[r].sub].worker = w
    BY <2>1, <2>3, <1>1, <1>2 DEF Request
  <2>5. Paid(req[r].task, sub[req[r].sub].worker)'
    BY <2>2, <2>4 DEF Paid
  <2> QED
    BY <1>1, <1>2, <1>8, <1>9, <1>10, <1>11, <1>12, <1>13, <2>3, <2>5, GotoOK
       DEF StepOK, TablesOK, Steps
<1>14. CASE q.op \notin Reviews
  BY <1>1, <1>4, <1>8, <1>9, <1>10, <1>11, <1>12, <1>14, DoneOK DEF StepOK, TablesOK
<1> QED
  BY <1>13, <1>14

LEMMA FinalizeOK ==
  ASSUME NEW r \in Reqs, Inv, Finalize(r)
  PROVE  StepOK(r)
<1> DEFINE q == req[r]
           srow == [sub[q.sub] EXCEPT !.status = SubStatusOf[q.verdict]]
           trow == [task[q.task] EXCEPT !.status = TaskStatusOf[q.verdict]]
<1>1. /\ q.at = "finalize" /\ Done(r)
      /\ sub' = [sub EXCEPT ![q.sub] = srow] /\ task' = [task EXCEPT ![q.task] = trow]
      /\ UNCHANGED <<aged, merged, balance, ledger, lock, started>>
  BY DEF Finalize
<1>2. /\ q \in Request /\ q.task \in Tasks /\ task[q.task].status # "ABSENT"
      /\ q.sub \in Subs /\ Exists(q.sub) /\ sub[q.sub].task = q.task
      /\ q.verdict = "APPROVE" => Paid(q.task, sub[q.sub].worker)
  BY <1>1 DEF Inv, TypeOK, RequestOK
<1>3. /\ sub[q.sub] \in SubRow /\ task[q.task] \in TaskRow
      /\ q.verdict \in {"APPROVE", "REQUEST_REVISION", "REJECT"}
  BY <1>2 DEF Inv, TypeOK, Request, Verdicts, SubStatusOf
<1>4. /\ SubStatusOf[q.verdict] \in SubStatus \ {"ABSENT"}
      /\ TaskStatusOf[q.verdict] \in TaskStatus \ {"ABSENT"}
      /\ SubStatusOf[q.verdict] = "APPROVED" <=> q.verdict = "APPROVE"
      /\ TaskStatusOf[q.verdict] = "COMPLETED" <=> q.verdict = "APPROVE"
  BY <1>3 DEF SubStatusOf, TaskStatusOf, SubStatus, TaskStatus
<1>5. /\ srow \in SubRow /\ srow.status = SubStatusOf[q.verdict]
      /\ srow.task = sub[q.sub].task /\ srow.worker = sub[q.sub].worker
  BY <1>3, <1>4 DEF SubRow
<1>6. /\ trow \in TaskRow /\ trow.status = TaskStatusOf[q.verdict]
      /\ trow.creator = task[q.task].creator
  BY <1>3, <1>4 DEF TaskRow
<1> HIDE DEF srow, trow
<1>7. /\ sub' \in [Subs -> SubRow] /\ sub'[q.sub] = srow
      /\ \A o \in Subs : o # q.sub => sub'[o] = sub[o]
  BY <1>1, <1>2, <1>5 DEF Inv, TypeOK
<1>8. /\ task' \in [Tasks -> TaskRow] /\ task'[q.task] = trow
      /\ \A o \in Tasks : o # q.task => task'[o] = task[o]
  BY <1>1, <1>2, <1>6 DEF Inv, TypeOK
<1>9. \A o \in Subs : /\ sub'[o].task = sub[o].task /\ sub'[o].worker = sub[o].worker
                      /\ sub'[o].status = "ABSENT" <=> sub[o].status = "ABSENT"
  BY <1>2, <1>4, <1>5, <1>7 DEF Exists
<1>10. \A o \in Tasks : /\ task'[o].creator = task[o].creator
                        /\ task'[o].status = "ABSENT" <=> task[o].status = "ABSENT"
  BY <1>2, <1>4, <1>6, <1>8
<1>11. Kept
  BY <1>1, <1>9, <1>10 DEF Kept, Paid
<1>12. TypeOK'
  BY <1>1, <1>7, <1>8, DoneType DEF Inv, TypeOK
<1>13. RowsOK'
  BY <1>9, <1>10 DEF Inv, RowsOK, Exists
<1>14. OnlyWorkersArePaid'
  BY <1>1, <1>9, <1>10 DEF Inv, OnlyWorkersArePaid, Paid, SubsOf, Exists
<1>15. ApprovedWasPaid'
  <2> SUFFICES ASSUME NEW o \in Subs, sub'[o].status = "APPROVED"
               PROVE  Paid(sub[o].task, sub[o].worker)'
    BY DEF ApprovedWasPaid
  <2>1. Paid(sub[o].task, sub[o].worker)
    BY <1>2, <1>4, <1>5, <1>7 DEF Inv, ApprovedWasPaid
  <2> QED
    BY <2>1, <1>1, <1>9 DEF Paid
<1>16. CompletedWasApproved'
  <2> SUFFICES ASSUME NEW t \in Tasks, task'[t].status = "COMPLETED"
               PROVE  \E o \in Subs : sub'[o].task = t /\ sub'[o].status = "APPROVED"
    BY DEF CompletedWasApproved
  <2>1. CASE t = q.task
    BY <2>1, <1>2, <1>4, <1>5, <1>6, <1>7, <1>8
  <2>2. CASE t # q.task
    <3>1. PICK o \in Subs : sub[o].task = t /\ sub[o].status = "APPROVED"
      BY <2>2, <1>8 DEF Inv, CompletedWasApproved
    <3> QED
      BY <3>1, <2>2, <1>2, <1>7
  <2> QED
    BY <2>1, <2>2
<1> QED
  BY <1>1, <1>11, <1>12, <1>13, <1>14, <1>15, <1>16, DoneOK DEF StepOK, TablesOK
-------------------------------------------------------------------------------
(***************************************************************************)
(* The theorems.                                                           *)
(***************************************************************************)
LEMMA InitInv == Init => Inv
<1> SUFFICES ASSUME Init PROVE Inv
  OBVIOUS
<1>1. \A t \in Tasks : task[t] = NoTaskRow
  BY DEF Init
<1>2. \A s \in Subs : sub[s] = NoSubRow
  BY DEF Init
<1>3. NoTaskRow \in TaskRow /\ NoSubRow \in SubRow
  BY DEF NoTaskRow, TaskRow, TaskStatus, NoSubRow, SubRow, SubStatus, Validation
<1>4. TypeOK
  BY <1>3, IdleType, MarketAssumption DEF Init, TypeOK, LockState
<1>5. /\ \A t \in Tasks : task[t].status = "ABSENT"
      /\ \A s \in Subs : sub[s].status = "ABSENT"
  BY <1>1, <1>2 DEF NoTaskRow, NoSubRow
<1>6. \A t \in Tasks, u \in Users : ~Paid(t, u)
  BY DEF Init, Paid
<1>7. \A r \in Reqs : RequestOK(req[r])
  BY DEF Init, RequestOK, Idle, Reviews, Loops
<1> QED
  BY <1>4, <1>5, <1>6, <1>7 DEF Inv, RowsOK, OnlyWorkersArePaid, ApprovedWasPaid,
                               CompletedWasApproved, Exists

LEMMA SevenDaysPassInv ==
  ASSUME NEW s \in Subs, Inv, SevenDaysPass(s)
  PROVE  Inv'
<1>1. TypeOK' /\ UNCHANGED <<task, sub, ledger, req>>
  BY DEF SevenDaysPass, Inv, TypeOK
<1>2. TablesOK' /\ Kept
  BY <1>1, SameTables DEF Inv, TablesOK
<1>3. \A r \in Reqs : RequestOK(req[r])'
  BY <1>1, <1>2, OthersOK DEF Inv
<1> QED
  BY <1>1, <1>2, <1>3 DEF Inv, TablesOK

LEMMA CrashInv ==
  ASSUME Inv, Crash
  PROVE  Inv'
<1>1. TypeOK' /\ UNCHANGED <<task, sub, ledger>>
  BY IdleType DEF Crash, Inv, TypeOK, LockState
<1>2. TablesOK' /\ Kept
  BY <1>1, SameTables DEF Inv, TablesOK
<1>3. \A r \in Reqs : RequestOK(req[r])'
  <2> SUFFICES ASSUME NEW r \in Reqs PROVE RequestOK(req[r])'
    OBVIOUS
  <2>1. req'[r] = Idle
    BY DEF Crash
  <2> QED
    BY <2>1, IdleOK
<1> QED
  BY <1>1, <1>2, <1>3 DEF Inv, TablesOK

LEMMA NextInv == Inv /\ [Next]_vars => Inv'
<1> SUFFICES ASSUME Inv, [Next]_vars PROVE Inv'
  OBVIOUS
<1>1. ASSUME NEW r \in Reqs, TaskRequest(r) PROVE Inv'
  <2>1. StepOK(r)
    BY <1>1, CreateTaskOK, ReadOwnTaskOK, SubmitReadOK, ReviewReadOK
       DEF TaskRequest, StartReviewRead, UpdateRead, CancelRead
  <2> QED
    BY <2>1, StepKeepsInv
<1>2. ASSUME NEW r \in Reqs, Handler(r) PROVE Inv'
  <2>1. StepOK(r)
    BY <1>2, StartReviewWriteOK, UpdateWriteOK, CancelWriteOK, SubmitLatestOK, SubmitInsertOK,
       NextInLoopOK, PollLookOK, PollAnswerOK DEF Handler
  <2> QED
    BY <2>1, StepKeepsInv
<1>3. ASSUME NEW r \in Reqs, Payment(r) PROVE Inv'
  <2>1. StepOK(r)
    BY <1>3, GetLockOK, LockTimeoutOK, ReleaseLockOK, FindExistingPayoutOK, ReadRewardOK,
       CheckBalanceOK, CommitTransferOK, AbortTransferOK, FinalizeOK, StatementFailsOK DEF Payment
  <2> QED
    BY <2>1, StepKeepsInv
<1>4. ASSUME NEW r \in Reqs, AutoCompleteRead(r) \/ PollRead(r) PROVE Inv'
  BY <1>4, AutoCompleteReadOK, PollReadOK, StepKeepsInv
<1>5. CASE UNCHANGED vars
  <2>1. TypeOK' /\ UNCHANGED <<task, sub, ledger, req>>
    BY <1>5 DEF vars, Inv, TypeOK
  <2>2. TablesOK' /\ Kept
    BY <2>1, SameTables DEF Inv, TablesOK
  <2>3. \A r \in Reqs : RequestOK(req[r])'
    BY <2>1, <2>2, OthersOK DEF Inv
  <2> QED
    BY <2>1, <2>2, <2>3 DEF Inv, TablesOK
<1> QED
  BY <1>1, <1>2, <1>3, <1>4, <1>5, SevenDaysPassInv, CrashInv DEF Next

\* Inv is an invariant: the rows and the requests in flight refer to each other
\* consistently, however the handlers, the callbacks and crashes interleave.
THEOREM Invariance == Spec => []Inv
<1>1. Inv /\ [Next]_vars => Inv'
  BY NextInv
<1> QED
  BY <1>1, InitInv, PTL DEF Spec

\* The tables and the requests keep their types.
THEOREM TypeCorrect == Spec => []TypeOK
<1>1. Inv => TypeOK
  BY DEF Inv
<1> QED
  BY <1>1, Invariance, PTL

\* review, autoCompleteStaleSubmissions and autoApproveMergedSubmission pay before
\* they approve: an APPROVED submission has its payout in the ledger.
THEOREM ApprovedIsPaid == Spec => []ApprovedWasPaid
<1>1. Inv => ApprovedWasPaid
  BY DEF Inv
<1> QED
  BY <1>1, Invariance, PTL

\* A payout goes to a worker of that task and never to its creator.
THEOREM PaidWorked == Spec => []OnlyWorkersArePaid
<1>1. Inv => OnlyWorkersArePaid
  BY DEF Inv
<1> QED
  BY <1>1, Invariance, PTL

\* A COMPLETED task has an APPROVED submission.
THEOREM CompletedIsApproved == Spec => []CompletedWasApproved
<1>1. Inv => CompletedWasApproved
  BY DEF Inv
<1> QED
  BY <1>1, Invariance, PTL
-------------------------------------------------------------------------------
(***************************************************************************)
(* One request at a time: what a request read is still so when it writes.   *)
(***************************************************************************)
Alone == \A r, o \in Reqs : r = o

\* What a step has to show; there is no other request.
SerialStep(r) == PayoutOncePerWorker' /\ NoOverdraft' /\ SerialOK(req[r])'

LEMMA SerialKept ==
  ASSUME NEW r \in Reqs, Alone, Inv', SerialStep(r)
  PROVE  SerialInv'
<1>1. \A o \in Reqs : SerialOK(req[o])'
  BY DEF SerialStep, Alone
<1> QED
  BY <1>1 DEF SerialInv, SerialStep

\* A step that moves no money.
LEMMA SameMoney ==
  ASSUME SerialInv, UNCHANGED <<balance, ledger>>
  PROVE  PayoutOncePerWorker' /\ NoOverdraft'
BY DEF SerialInv, PayoutOncePerWorker, NoOverdraft

LEMMA SerialIdle ==
  ASSUME NEW r \in Reqs, req'[r] = Idle
  PROVE  SerialOK(req[r])'
BY DEF SerialOK, Idle, Reviews, Loops

LEMMA SerialDone ==
  ASSUME NEW r \in Reqs, SerialInv, Done(r),
         \A s \in req[r].todo : sub'[s].status = "SUBMITTED"
  PROVE  SerialOK(req[r])'
<1>1. req[r] \in Request
  BY DEF SerialInv, Inv, TypeOK
<1>2. CASE req[r].todo # {} /\ req'[r] = [req[r] EXCEPT !.at = "next", !.sub = NoSub,
                                           !.tries = 0, !.amount = 0]
  <2>1. req'[r].at = "next" /\ req'[r].sub = NoSub /\ req'[r].todo = req[r].todo
    BY <1>1, <1>2 DEF Request
  <2>2. \A s \in req[r].todo : s # NoSub
    BY <1>1, MarketAssumption DEF Request
  <2> QED
    BY <2>1, <2>2 DEF SerialOK
<1> QED
  BY <1>2, SerialIdle, DoneType DEF SerialInv, Inv, TypeOK

\* A request moves on: the statuses it relies on are as they were, it has looked for
\* a payout before it pays and at the balance before it commits.
LEMMA SerialGoto ==
  ASSUME NEW r \in Reqs, NEW step \in Steps, SerialInv, Goto(r, step),
         req[r].at \notin {"idle", "next"},
         UNCHANGED <<balance, ledger>>,
         \A s \in Subs : sub'[s].status = sub[s].status /\ sub'[s].worker = sub[s].worker,
         req[r].op \in Reviews /\ step \in {"reward", "check", "commit"} =>
           \/ req[r].at \in {"reward", "check", "commit"}
           \/ ~Paid(req[r].task, Worker(r)),
         step = "commit" => balance[Payer(r)] >= req[r].amount
  PROVE  SerialOK(req[r])'
<1> DEFINE q == req[r]
<1>1. q \in Request /\ RequestOK(q) /\ SerialOK(q)
  BY DEF SerialInv, Inv, TypeOK
<1>0. req'[r] = [q EXCEPT !.at = step]
  BY GotoType DEF SerialInv, Inv, TypeOK
<1>2. /\ req'[r].at = step /\ req'[r].op = q.op /\ req'[r].task = q.task
      /\ req'[r].sub = q.sub /\ req'[r].todo = q.todo
      /\ req'[r].user = q.user /\ req'[r].amount = q.amount
  BY <1>0, <1>1 DEF Request
<1>3. q.todo \subseteq Subs /\ (q.op \in Reviews => q.sub \in Subs)
  BY <1>1 DEF Request, RequestOK
<1>4. \A s \in q.todo : sub'[s].status = "SUBMITTED" /\ s # q.sub
  BY <1>1, <1>3 DEF SerialOK
<1>5. q.op \in Reviews => sub'[q.sub].status = "SUBMITTED" /\ sub'[q.sub].worker = sub[q.sub].worker
  BY <1>1, <1>3 DEF SerialOK
<1>6. q.op \in Reviews /\ step \in {"reward", "check", "commit"} =>
        ~Paid(q.task, sub[q.sub].worker)
  BY <1>1 DEF SerialOK, Worker
<1>7. ASSUME q.op \in Reviews, step \in {"reward", "check", "commit"}
      PROVE  ~Paid(req[r].task, sub[req[r].sub].worker)'
  BY <1>2, <1>5, <1>6, <1>7 DEF Paid
<1>8. step = "commit" => balance'[IF q.op = "create" THEN q.user ELSE Pool] >= q.amount
  BY DEF Payer
<1> QED
  BY <1>2, <1>4, <1>5, <1>7, <1>8 DEF SerialOK

LEMMA SerialThrow ==
  ASSUME NEW r \in Reqs, SerialInv, Throw(r), UNCHANGED <<sub, balance, ledger>>
  PROVE  SerialStep(r)
<1>1. SerialOK(req[r]) /\ req[r] \in Request
  BY DEF SerialInv, Inv, TypeOK
<1>2. CASE req[r].at \in {"existing", "reward", "check", "commit"} /\ Goto(r, "giveUp")
  BY <1>2, SameMoney, SerialGoto DEF SerialStep, Steps
<1>3. CASE Done(r)
  BY <1>1, <1>3, SameMoney, SerialDone DEF SerialStep, SerialOK
<1> QED
  BY <1>2, <1>3 DEF Throw

\* A request of a user that has read nothing of a submission yet.
LEMMA SerialBegin ==
  ASSUME NEW r \in Reqs, SerialInv, UNCHANGED <<balance, ledger>>,
         req'[r].todo = {}, req'[r].op \notin Reviews, req'[r].at # "commit"
  PROVE  SerialStep(r)
BY SameMoney DEF SerialStep, SerialOK

LEMMA SerialRequest ==
  ASSUME NEW r \in Reqs, SerialInv, TaskRequest(r)
  PROVE  SerialStep(r)
<1>0. req[r] = Idle /\ Inv /\ req \in [Reqs -> Request]
  BY DEF SerialInv, Inv, TypeOK, TaskRequest, CreateTask, StartReviewRead, UpdateRead, CancelRead,
         ReadOwnTask, SubmitRead, ReviewRead, Begin
<1>1. ASSUME NEW u \in Users, NEW t \in Tasks, NEW amount \in Rewards, CreateTask(r, u, t, amount)
      PROVE  SerialStep(r)
  <2>1. /\ req'[r] = [Idle EXCEPT !.op = "create", !.at = "check", !.user = u, !.task = t,
                                  !.amount = amount]
        /\ UNCHANGED <<balance, ledger>>
    BY <1>0, <1>1 DEF CreateTask, Begin
  <2> QED
    BY <2>1, SerialBegin DEF Idle, Reviews, Loops
<1>2. ASSUME NEW u \in Users, NEW t \in Tasks, NEW op \in {"startReview", "update", "cancel"},
             NEW statuses, ReadOwnTask(r, u, t, op, statuses)
      PROVE  SerialStep(r)
  <2>1. PICK amount : req'[r] = [Idle EXCEPT !.op = op, !.at = "write", !.user = u, !.task = t,
                                             !.amount = amount]
    BY <1>0, <1>2 DEF ReadOwnTask, Begin
  <2>2. UNCHANGED <<balance, ledger>>
    BY <1>2 DEF ReadOwnTask
  <2> QED
    BY <2>1, <2>2, SerialBegin DEF Idle, Reviews, Loops
<1>3. ASSUME NEW u \in Users, NEW t \in Tasks, SubmitRead(r, u, t)
      PROVE  SerialStep(r)
  <2>1. /\ req'[r] = [Idle EXCEPT !.op = "submit", !.at = "latest", !.user = u, !.task = t]
        /\ UNCHANGED <<balance, ledger>>
    BY <1>0, <1>3 DEF SubmitRead, Begin
  <2> QED
    BY <2>1, SerialBegin DEF Idle, Reviews, Loops
<1>4. ASSUME NEW u \in Users, NEW s \in Subs, NEW v \in Verdicts, ReviewRead(r, u, s, v)
      PROVE  SerialStep(r)
  <2>1. /\ req'[r] = [Idle EXCEPT !.op = "review", !.user = u, !.task = sub[s].task, !.sub = s,
                                  !.verdict = v,
                                  !.at = IF v = "APPROVE" THEN "lock" ELSE "finalize"]
        /\ UNCHANGED <<sub, balance, ledger>> /\ sub[s].status = "SUBMITTED"
    BY <1>0, <1>4 DEF ReviewRead, Reviewable, Begin
  <2>2. req'[r].todo = {} /\ req'[r].sub = s /\ req'[r].at \in {"lock", "finalize"}
    BY <2>1 DEF Idle
  <2> QED
    BY <2>1, <2>2, SameMoney DEF SerialStep, SerialOK
<1> QED
  BY <1>1, <1>2, <1>3, <1>4 DEF TaskRequest, StartReviewRead, UpdateRead, CancelRead

\* Either callback reads its list of submissions.
LEMMA SerialLoopStart ==
  ASSUME NEW r \in Reqs, SerialInv, AutoCompleteRead(r) \/ PollRead(r)
  PROVE  SerialStep(r)
<1>1. /\ req \in [Reqs -> Request] /\ aged \subseteq Subs
      /\ UNCHANGED <<sub, balance, ledger>>
  BY DEF SerialInv, Inv, TypeOK, AutoCompleteRead, PollRead
<1>2. PICK op \in Loops, due \in SUBSET Subs :
        /\ req'[r] = [Idle EXCEPT !.op = op, !.at = "next", !.todo = due]
        /\ \A s \in due : sub[s].status = "SUBMITTED"
  <2>1. CASE AutoCompleteRead(r)
    BY <1>1, <2>1 DEF AutoCompleteRead, Stale, Loops
  <2>2. CASE PollRead(r)
    BY <1>1, <2>2 DEF PollRead, Loops
  <2> QED
    BY <2>1, <2>2
<1>3. req'[r].todo = due /\ req'[r].at = "next" /\ req'[r].sub = NoSub
  BY <1>2 DEF Idle
<1>4. \A s \in due : sub'[s].status = "SUBMITTED" /\ s # NoSub
  BY <1>1, <1>2, MarketAssumption
<1> QED
  BY <1>1, <1>3, <1>4, SameMoney DEF SerialStep, SerialOK

LEMMA SerialNextInLoop ==
  ASSUME NEW r \in Reqs, NEW s \in Subs, SerialInv, NextInLoop(r, s)
  PROVE  SerialStep(r)
<1> DEFINE q == req[r]
<1>1. /\ q \in Request /\ SerialOK(q) /\ s \in q.todo
      /\ UNCHANGED <<sub, balance, ledger>>
      /\ req'[r] = [q EXCEPT !.todo = @ \ {s}, !.sub = s, !.task = sub[s].task,
                             !.at = IF q.op = "poll" THEN "pollRead" ELSE "lock"]
  BY DEF NextInLoop, SerialInv, Inv, TypeOK
<1>2. req'[r].todo = q.todo \ {s} /\ req'[r].sub = s /\ req'[r].at \in {"pollRead", "lock"}
  BY <1>1 DEF Request
<1> QED
  BY <1>1, <1>2, SameMoney DEF SerialStep, SerialOK

\* The handlers of users: a request that is no callback has nothing more to do.
LEMMA SerialUser ==
  ASSUME NEW r \in Reqs, SerialInv,
         \/ StartReviewWrite(r) \/ UpdateWrite(r) \/ CancelWrite(r)
         \/ SubmitLatest(r) \/ \E s \in Subs : SubmitInsert(r, s)
  PROVE  SerialStep(r)
<1> DEFINE q == req[r]
<1>1. /\ q \in Request /\ q.op \notin Reviews /\ UNCHANGED <<balance, ledger>>
      /\ req \in [Reqs -> Request] /\ RequestOK(q)
  BY DEF SerialInv, Inv, TypeOK, Reviews, Loops, StartReviewWrite, UpdateWrite, CancelWrite,
         SubmitLatest, SubmitInsert
<1>2. q.todo = {}
  BY <1>1 DEF RequestOK, Reviews
<1>3. CASE Done(r)
  BY <1>1, <1>2, <1>3, SameMoney, SerialDone DEF SerialStep
<1>4. CASE Goto(r, "reward")
  <2>1. req'[r] = [q EXCEPT !.at = "reward"]
    BY <1>1, <1>4 DEF Goto
  <2> QED
    BY <1>1, <1>2, <2>1, SerialBegin DEF Request
<1>5. CASE \E v : req' = [req EXCEPT ![r].at = "insert", ![r].version = v]
  <2>1. PICK v : req'[r] = [q EXCEPT !.at = "insert", !.version = v]
    BY <1>1, <1>5
  <2> QED
    BY <1>1, <1>2, <2>1, SerialBegin DEF Request
<1> QED
  BY <1>3, <1>4, <1>5 DEF StartReviewWrite, UpdateWrite, CancelWrite, SubmitLatest, SubmitInsert

LEMMA SerialPoll ==
  ASSUME NEW r \in Reqs, SerialInv, PollProcess(r) \/ PollAnswer(r) \/ PollRecheck(r)
  PROVE  SerialStep(r)
<1> DEFINE q == req[r]
<1>1. /\ q \in Request /\ SerialOK(q) /\ UNCHANGED <<balance, ledger>>
      /\ q.at \in {"pollRead", "github", "recheck"} /\ q.todo \subseteq Subs
  BY DEF SerialInv, Inv, TypeOK, PollProcess, PollAnswer, PollRecheck, Request
<1>2. q.op \in Reviews /\ q.sub \in Subs
  BY <1>1 DEF SerialInv, Inv, RequestOK
<1>3. \A s \in Subs : sub'[s].status = sub[s].status /\ sub'[s].worker = sub[s].worker
  <2>1. CASE sub' = [sub EXCEPT ![q.sub].validation = "FAILED"]
    BY <1>2, <2>1 DEF SerialInv, Inv, TypeOK, SubRow
  <2>2. CASE UNCHANGED sub
    BY <2>2
  <2> QED
    BY <2>1, <2>2 DEF PollProcess, PollAnswer, PollRecheck
<1>4. CASE Done(r)
  BY <1>1, <1>3, <1>4, SameMoney, SerialDone DEF SerialStep, SerialOK
<1>5. CASE Goto(r, "github") \/ Goto(r, "recheck") \/ Goto(r, "lock")
  BY <1>1, <1>3, <1>5, SameMoney, SerialGoto DEF SerialStep, Steps
<1> QED
  BY <1>4, <1>5 DEF PollProcess, PollAnswer, PollRecheck

LEMMA SerialLock ==
  ASSUME NEW r \in Reqs, NEW c \in Conns, SerialInv,
         GetLock(r, c) \/ LockTimeout(r, c) \/ ReleaseLock(r, c)
  PROVE  SerialStep(r)
<1>1. /\ SerialOK(req[r]) /\ req[r].at \notin {"idle", "next"}
      /\ UNCHANGED <<sub, balance, ledger>>
  BY DEF SerialInv, GetLock, LockTimeout, ReleaseLock
<1>2. CASE Done(r)
  BY <1>1, <1>2, SameMoney, SerialDone DEF SerialStep, SerialOK
<1>3. CASE Goto(r, "existing") \/ Goto(r, "finalize")
  BY <1>1, <1>3, SameMoney, SerialGoto DEF SerialStep, Steps
<1> QED
  BY <1>2, <1>3 DEF GetLock, LockTimeout, ReleaseLock

\* The statements of payout and of the other transfers up to the commit.
LEMMA SerialTransfer ==
  ASSUME NEW r \in Reqs, SerialInv,
         \/ FindExistingPayout(r) \/ ReadReward(r) \/ CheckBalance(r) \/ AbortTransfer(r)
         \/ StatementFails(r)
  PROVE  SerialStep(r)
<1> DEFINE q == req[r]
<1>1. /\ q \in Request /\ SerialOK(q) /\ req \in [Reqs -> Request]
      /\ UNCHANGED <<sub, balance, ledger>>
  BY DEF SerialInv, Inv, TypeOK, FindExistingPayout, ReadReward, CheckBalance, AbortTransfer,
         StatementFails
<1>2. CASE FindExistingPayout(r)
  BY <1>1, <1>2, SameMoney, SerialGoto DEF SerialStep, Steps, FindExistingPayout
<1>3. CASE CheckBalance(r)
  <2>1. CASE q.at = "check" /\ balance[Payer(r)] >= q.amount /\ Goto(r, "commit")
    BY <1>1, <2>1, SameMoney, SerialGoto DEF SerialStep, Steps
  <2>2. CASE Throw(r)
    BY <1>1, <2>2, SerialThrow
  <2> QED
    BY <1>3, <2>1, <2>2 DEF CheckBalance
<1>4. CASE StatementFails(r)
  BY <1>1, <1>4, SerialThrow DEF StatementFails
<1>5. CASE ReadReward(r)
  <2>1. q.at = "reward" /\ req'[r] = [q EXCEPT !.at = "check", !.amount = task[q.task].reward]
    BY <1>1, <1>5 DEF ReadReward
  <2>2. /\ req'[r].at = "check" /\ req'[r].op = q.op /\ req'[r].task = q.task
        /\ req'[r].sub = q.sub /\ req'[r].todo = q.todo
    BY <1>1, <2>1 DEF Request
  <2>3. SerialOK(req[r])'
    BY <1>1, <2>1, <2>2 DEF SerialOK, Paid
  <2> QED
    BY <1>1, <2>3, SameMoney DEF SerialStep
<1>6. CASE q.at = "commit" /\ req' = [req EXCEPT ![r].at = "check", ![r].tries = @ + 1]
  <2>1. req'[r] = [q EXCEPT !.at = "check", !.tries = @ + 1]
    BY <1>1, <1>6
  <2>2. /\ req'[r].at = "check" /\ req'[r].op = q.op /\ req'[r].task = q.task
        /\ req'[r].sub = q.sub /\ req'[r].todo = q.todo
    BY <1>1, <2>1 DEF Request
  <2>3. SerialOK(req[r])'
    BY <1>1, <1>6, <2>2 DEF SerialOK, Paid
  <2> QED
    BY <1>1, <2>3, SameMoney DEF SerialStep
<1>7. CASE AbortTransfer(r)
  BY <1>1, <1>6, <1>7, SerialThrow DEF AbortTransfer
<1> QED
  BY <1>2, <1>3, <1>4, <1>5, <1>7

\* A transaction that commits appends one row: no second payout of a worker, since
\* there was none when payout looked.
LEMMA SerialCommit ==
  ASSUME NEW r \in Reqs, SerialInv, CommitTransfer(r)
  PROVE  SerialStep(r)
<1> DEFINE q == req[r]
<1>1. /\ q \in Request /\ RequestOK(q) /\ SerialOK(q) /\ q.at = "commit"
      /\ ledger \in Seq(TxnRow) /\ balance \in [Users \cup {Pool} -> Int]
      /\ UNCHANGED sub
      /\ IF TxnType(r) = "TASK_PAYOUT" THEN Goto(r, "release") ELSE Done(r)
  BY DEF SerialInv, Inv, TypeOK, CommitTransfer
<1>2. PICK x : /\ x = [type |-> TxnType(r), task |-> q.task, from |-> Payer(r),
                       to |-> Payee(r), amount |-> q.amount]
               /\ ledger' = Append(ledger, x)
  BY DEF CommitTransfer
<1>3. x.type = TxnType(r) /\ x.task = q.task /\ x.to = Payee(r)
  BY <1>2
<1>4. TxnType(r) = "TASK_PAYOUT" => Payee(r) = sub[q.sub].worker /\ ~Paid(q.task, sub[q.sub].worker)
  <2>1. TxnType(r) = "TASK_PAYOUT" => q.op \in Reviews
    BY <1>1 DEF TxnType, RequestOK
  <2> QED
    BY <1>1, <2>1 DEF TxnType, Payee, Worker, Reviews, Loops, SerialOK
<1>5. /\ DOMAIN ledger = 1..Len(ledger) /\ Len(ledger) \in Nat
      /\ DOMAIN ledger' = 1..(Len(ledger) + 1)
      /\ \A i \in 1..Len(ledger) : ledger'[i] = ledger[i]
      /\ ledger'[Len(ledger) + 1] = x
  BY <1>1, <1>2
<1>6. PayoutOncePerWorker'
  <2>1. SUFFICES ASSUME NEW i \in DOMAIN ledger', NEW j \in DOMAIN ledger',
                        ledger'[i].type = "TASK_PAYOUT", ledger'[j].type = "TASK_PAYOUT",
                        ledger'[i].task = ledger'[j].task, ledger'[i].to = ledger'[j].to
                 PROVE  i = j
    BY DEF PayoutOncePerWorker
  <2>2. CASE i \in DOMAIN ledger /\ j \in DOMAIN ledger
    BY <2>1, <2>2, <1>5 DEF SerialInv, PayoutOncePerWorker
  <2>3. \A k \in DOMAIN ledger :
          ~(/\ ledger[k].type = "TASK_PAYOUT" /\ x.type = "TASK_PAYOUT"
            /\ ledger[k].task = x.task /\ ledger[k].to = x.to)
    BY <1>3, <1>4 DEF Paid
  <2>4. i \in DOMAIN ledger \/ i = Len(ledger) + 1
    BY <1>5
  <2>5. j \in DOMAIN ledger \/ j = Len(ledger) + 1
    BY <1>5
  <2> QED
    BY <2>1, <2>2, <2>3, <2>4, <2>5, <1>5
<1>7. NoOverdraft'
  <2>1. /\ Payer(r) = IF q.op = "create" THEN q.user ELSE Pool
        /\ q.op = "create" => q.user \in Users
    BY <1>1 DEF Payer, RequestOK
  <2>2. PICK p, e : p = Payer(r) /\ e = Payee(r)
    OBVIOUS
  <2>3. p \in Users \cup {Pool} /\ balance[p] >= q.amount /\ q.amount \in Nat
    BY <1>1, <2>1, <2>2 DEF SerialOK, Request
  <2>4. balance' = [balance EXCEPT ![p] = @ - q.amount, ![e] = @ + q.amount]
    BY <2>2 DEF CommitTransfer
  <2>5. \A u \in Users \cup {Pool} : balance[u] \in Int /\ balance[u] >= 0
    BY <1>1 DEF SerialInv, NoOverdraft
  <2>6. \A u \in Users \cup {Pool} : balance'[u] >= 0
    BY <1>1, <2>3, <2>4, <2>5
  <2> QED
    BY <2>6 DEF NoOverdraft
<1>8. CASE TxnType(r) = "TASK_PAYOUT"
  <2>1. req'[r] = [q EXCEPT !.at = "release"]
    BY <1>1, <1>8 DEF Goto, SerialInv, Inv, TypeOK
  <2>2. /\ req'[r].at = "release" /\ req'[r].op = q.op /\ req'[r].sub = q.sub
        /\ req'[r].todo = q.todo
    BY <1>1, <2>1 DEF Request
  <2> QED
    BY <1>1, <1>6, <1>7, <2>2 DEF SerialStep, SerialOK
<1>9. CASE TxnType(r) # "TASK_PAYOUT"
  BY <1>1, <1>6, <1>7, <1>9, SerialDone DEF SerialStep, SerialOK
<1> QED
  BY <1>8, <1>9

\* The closing transaction writes a submission that is still SUBMITTED, and none of
\* those its callback has left.
LEMMA SerialFinalize ==
  ASSUME NEW r \in Reqs, SerialInv, Finalize(r)
  PROVE  /\ SerialStep(r)
         /\ sub[req[r].sub].status = "SUBMITTED"
         /\ \A s \in Subs : s # req[r].sub => sub'[s].status = sub[s].status
<1> DEFINE q == req[r]
<1>1. /\ q \in Request /\ RequestOK(q) /\ SerialOK(q) /\ q.at = "finalize"
      /\ sub \in [Subs -> SubRow] /\ Done(r) /\ UNCHANGED <<balance, ledger>>
      /\ sub' = [sub EXCEPT ![q.sub].status = SubStatusOf[q.verdict]]
  BY DEF SerialInv, Inv, TypeOK, Finalize
<1>2. sub[q.sub].status = "SUBMITTED" /\ q.todo \subseteq Subs
  BY <1>1 DEF RequestOK, SerialOK, Request
<1>3. \A s \in Subs : s # q.sub => sub'[s].status = sub[s].status
  BY <1>1
<1>4. \A s \in q.todo : sub'[s].status = "SUBMITTED"
  BY <1>1, <1>2, <1>3 DEF SerialOK
<1> QED
  BY <1>1, <1>2, <1>3, <1>4, SameMoney, SerialDone DEF SerialStep

LEMMA SerialInit == Init => SerialInv
<1> SUFFICES ASSUME Init PROVE SerialInv
  OBVIOUS
<1>1. PayoutOncePerWorker /\ NoOverdraft
  BY MarketAssumption DEF Init, PayoutOncePerWorker, NoOverdraft
<1>2. \A r \in Reqs : SerialOK(req[r])
  BY DEF Init, SerialOK, Idle, Reviews, Loops
<1> QED
  BY <1>1, <1>2, InitInv DEF SerialInv

LEMMA SerialNext ==
  ASSUME Alone, SerialInv, [Next]_vars
  PROVE  SerialInv'
<1>0. Inv'
  BY NextInv DEF SerialInv
<1>1. ASSUME NEW r \in Reqs, TaskRequest(r) \/ Handler(r) \/ Payment(r)
                             \/ AutoCompleteRead(r) \/ PollRead(r)
      PROVE  SerialInv'
  <2>1. CASE TaskRequest(r)
    BY <2>1, SerialRequest, SerialKept, <1>0
  <2>2. CASE AutoCompleteRead(r) \/ PollRead(r)
    BY <2>2, SerialLoopStart, SerialKept, <1>0
  <2>3. CASE Handler(r)
    <3>1. SerialStep(r)
      BY <2>3, SerialUser, SerialNextInLoop, SerialPoll DEF Handler
    <3> QED
      BY <3>1, SerialKept, <1>0
  <2>4. CASE Payment(r)
    <3>1. SerialStep(r)
      BY <2>4, SerialLock, SerialTransfer, SerialCommit, SerialFinalize DEF Payment
    <3> QED
      BY <3>1, SerialKept, <1>0
  <2> QED
    BY <1>1, <2>1, <2>2, <2>3, <2>4
<1>2. ASSUME UNCHANGED <<sub, balance, ledger>>,
             \A r \in Reqs : req'[r] = req[r] \/ req'[r] = Idle
      PROVE  SerialInv'
  <2>1. ASSUME NEW r \in Reqs PROVE SerialOK(req[r])'
    BY <1>2, SerialIdle DEF SerialInv, SerialOK, Paid
  <2> QED
    BY <1>0, <1>2, <2>1, SameMoney DEF SerialInv
<1>3. CASE \E s \in Subs : SevenDaysPass(s)
  BY <1>2, <1>3 DEF SevenDaysPass
<1>4. CASE Crash
  BY <1>2, <1>4 DEF Crash
<1>5. CASE UNCHANGED vars
  BY <1>2, <1>5 DEF vars
<1> QED
  BY <1>1, <1>3, <1>4, <1>5 DEF Next

\* What VerdictIsFinal says of one step.
KeepsVerdicts == \A s \in Subs : sub[s].status \notin {"ABSENT", "SUBMITTED"} =>
                                   sub'[s].status = sub[s].status

LEMMA SerialVerdicts ==
  ASSUME SerialInv, [Next]_vars
  PROVE  KeepsVerdicts
<1>1. CASE UNCHANGED sub
  BY <1>1 DEF KeepsVerdicts
<1>2. ASSUME NEW r \in Reqs, NEW s \in Subs, SubmitInsert(r, s) PROVE KeepsVerdicts
  BY <1>2 DEF SubmitInsert, Exists, KeepsVerdicts, SerialInv, Inv, TypeOK
<1>3. ASSUME NEW r \in Reqs, PollAnswer(r) PROVE KeepsVerdicts
  <2>1. \A s \in Subs : sub[s] \in SubRow
    BY DEF SerialInv, Inv, TypeOK
  <2>2. CASE UNCHANGED sub
    BY <2>2 DEF KeepsVerdicts
  <2>3. CASE sub' = [sub EXCEPT ![req[r].sub].validation = "FAILED"]
    <3>1. \A s \in Subs : sub'[s].status = sub[s].status
      BY <2>1, <2>3 DEF SerialInv, Inv, TypeOK, SubRow
    <3> QED
      BY <3>1 DEF KeepsVerdicts
  <2> QED
    BY <1>3, <2>2, <2>3 DEF PollAnswer
<1>4. ASSUME NEW r \in Reqs, Finalize(r) PROVE KeepsVerdicts
  BY <1>4, SerialFinalize DEF KeepsVerdicts
<1>5. ASSUME NEW r \in Reqs, TaskRequest(r) \/ AutoCompleteRead(r) \/ PollRead(r)
      PROVE  UNCHANGED sub
  BY <1>5 DEF TaskRequest, CreateTask, StartReviewRead, UpdateRead, CancelRead, ReadOwnTask,
              SubmitRead, ReviewRead, AutoCompleteRead, PollRead
<1>6. ASSUME NEW r \in Reqs, Handler(r)
      PROVE  UNCHANGED sub \/ PollAnswer(r) \/ \E s \in Subs : SubmitInsert(r, s)
  BY <1>6 DEF Handler, StartReviewWrite, UpdateWrite, CancelWrite, SubmitLatest, NextInLoop,
              PollProcess, PollRecheck
<1>7. ASSUME NEW r \in Reqs, Payment(r)
      PROVE  UNCHANGED sub \/ Finalize(r)
  BY <1>7 DEF Payment, GetLock, LockTimeout, ReleaseLock, FindExistingPayout, ReadReward,
              CheckBalance, CommitTransfer, AbortTransfer, StatementFails
<1> QED
  BY <1>1, <1>2, <1>3, <1>4, <1>5, <1>6, <1>7 DEF Next, vars, SevenDaysPass, Crash

\* Requests that do not overlap leave nothing stale behind them.
LEMMA SerialInvariance ==
  ASSUME Alone
  PROVE  Spec => []SerialInv
<1>1. SerialInv /\ [Next]_vars => SerialInv'
  BY SerialNext
<1> QED
  BY <1>1, SerialInit, PTL DEF Spec

\* For requests that do not overlap, payout pays a worker of a task once, whatever
\* fails or crashes between the payment and the status and is tried again.
THEOREM PaysOnceAlone ==
  ASSUME Alone
  PROVE  Spec => []PayoutOncePerWorker
<1>1. SerialInv => PayoutOncePerWorker
  BY DEF SerialInv
<1> QED
  BY <1>1, SerialInvariance, PTL

\* For requests that do not overlap, transfer overdraws no account.
THEOREM NoOverdraftAlone ==
  ASSUME Alone
  PROVE  Spec => []NoOverdraft
<1>1. SerialInv => NoOverdraft
  BY DEF SerialInv
<1> QED
  BY <1>1, SerialInvariance, PTL

\* For requests that do not overlap, no callback and no review changes a verdict.
THEOREM VerdictStaysAlone ==
  ASSUME Alone
  PROVE  Spec => VerdictIsFinal
<1>1. SerialInv /\ [Next]_vars => [KeepsVerdicts]_vars
  BY SerialVerdicts
<1> QED
  BY <1>1, SerialInvariance, PTL DEF Spec, VerdictIsFinal, KeepsVerdicts
-------------------------------------------------------------------------------
(***************************************************************************)
(* LedgerExplainsBalances.  A statement is a recursive function over the   *)
(* rows: that there is one, and what a further row makes of it, is shown   *)
(* from the smallest row for which it would fail.                          *)
(***************************************************************************)
\* A non-empty set of natural numbers has a smallest element.
LEMMA SmallestOne ==
  ASSUME NEW S, S \subseteq Nat, S # {}
  PROVE  \E n \in S : \A m \in S : n <= m
<1> DEFINE R == {ss \in Nat \X Nat : ss[1] < ss[2]}
<1>1. IsWellFoundedOn(R, Nat)
  BY NatLessThanWellFounded DEF OpToRel
<1>2. PICK n \in S : \A m \in S : ~ (<<m, n>> \in R)
  <2> HIDE DEF R
  <2> QED
    BY <1>1, WFMin
<1>3. \A m, k \in Nat : m < k => <<m, k>> \in R
  OBVIOUS
<1>4. \A m \in S : ~ (m < n)
  BY <1>2, <1>3
<1> QED
  BY <1>4

\* g has the balance of u after each of the first n rows.
Balances(g, n, rows, u) ==
  g = [k \in 0 .. n |-> IF k = 0 THEN Opening(u) ELSE g[k - 1] + Change(rows[k], u)]

LEMMA MoneyType ==
  ASSUME NEW u
  PROVE  Opening(u) \in Int /\ \A row \in TxnRow : Change(row, u) \in Int
BY DEF Opening, Change, TxnRow

LEMMA BalancesExist ==
  ASSUME NEW u, NEW rows \in Seq(TxnRow), NEW n \in 0 .. Len(rows)
  PROVE  \E g \in [0 .. n -> Int] : Balances(g, n, rows, u)
<1> DEFINE Has(k) == \E g \in [0 .. k -> Int] : Balances(g, k, rows, u)
           Lacking == {k \in 0 .. Len(rows) : ~ Has(k)}
<1>1. Has(0)
  <2> DEFINE g == [k \in 0 .. 0 |-> Opening(u)]
  <2>1. g \in [0 .. 0 -> Int]
    BY MoneyType
  <2>2. Balances(g, 0, rows, u)
    BY DEF Balances
  <2> QED
    BY <2>1, <2>2
<1>2. ASSUME NEW m \in 1 .. Len(rows), Has(m - 1) PROVE Has(m)
  <2>1. PICK g \in [0 .. (m - 1) -> Int] : Balances(g, m - 1, rows, u)
    BY <1>2
  <2>2. Change(rows[m], u) \in Int /\ g[m - 1] \in Int
    <3>1. rows[m] \in TxnRow /\ m - 1 \in 0 .. (m - 1)
      OBVIOUS
    <3> QED
      BY <3>1, MoneyType
  <2>3. PICK h : h = [k \in 0 .. m |-> IF k = m THEN g[m - 1] + Change(rows[m], u) ELSE g[k]]
    OBVIOUS
  <2>4. h \in [0 .. m -> Int]
    BY <2>2, <2>3
  <2>5. h[0] = Opening(u)
    BY <2>1, <2>3 DEF Balances
  <2>6. \A k \in 1 .. m : h[k] = h[k - 1] + Change(rows[k], u)
    <3>1. \A k \in 1 .. (m - 1) : g[k] = g[k - 1] + Change(rows[k], u)
      BY <2>1 DEF Balances
    <3> QED
      BY <2>3, <3>1
  <2>7. Balances(h, m, rows, u)
    BY <2>4, <2>5, <2>6 DEF Balances
  <2> QED
    BY <2>4, <2>7
<1> HIDE DEF Has
<1>3. Lacking = {}
  <2> SUFFICES ASSUME Lacking # {} PROVE FALSE
    OBVIOUS
  <2>0. Lacking \subseteq Nat
    OBVIOUS
  <2>1. PICK m \in Lacking : \A k \in Lacking : m <= k
    <3> HIDE DEF Lacking
    <3> QED
      BY <2>0, SmallestOne
  <2>2. m \in 1 .. Len(rows) /\ m - 1 \notin Lacking
    BY <1>1, <2>1
  <2> QED
    BY <1>2, <2>1, <2>2
<1> QED
  BY <1>3 DEF Has

\* The tables agree on their first n rows.
Agree(rows, more, n) == \A k \in 1 .. n : more[k] = rows[k]

\* Statements over tables one of which continues the other agree as far as both go.
LEMMA BalancesAgree ==
  ASSUME NEW u, NEW rows, NEW more, NEW n \in Nat, NEW m \in Nat, n <= m,
         Agree(rows, more, n),
         NEW g, NEW h, Balances(g, n, rows, u), Balances(h, m, more, u)
  PROVE  \A k \in 0 .. n : h[k] = g[k]
<1> DEFINE Apart == {k \in 0 .. n : h[k] # g[k]}
<1>1. h[0] = g[0]
  BY DEF Balances
<1>2. \A k \in 1 .. n : g[k] = g[k - 1] + Change(rows[k], u)
  BY DEF Balances
<1>3. \A k \in 1 .. n : h[k] = h[k - 1] + Change(more[k], u)
  BY DEF Balances
<1>4. Apart = {}
  <2> SUFFICES ASSUME Apart # {} PROVE FALSE
    OBVIOUS
  <2>0. Apart \subseteq Nat
    OBVIOUS
  <2>1. PICK k \in Apart : \A j \in Apart : k <= j
    <3> HIDE DEF Apart
    <3> QED
      BY <2>0, SmallestOne
  <2>2. k \in 1 .. n /\ h[k - 1] = g[k - 1]
    BY <1>1, <2>1
  <2> QED
    BY <1>2, <1>3, <2>1, <2>2 DEF Agree
<1> QED
  BY <1>4

LEMMA StatementIs ==
  ASSUME NEW u, NEW rows \in Seq(TxnRow)
  PROVE  \E g \in [0 .. Len(rows) -> Int] :
           Balances(g, Len(rows), rows, u) /\ Statement(rows, u) = g[Len(rows)]
<1> DEFINE after == CHOOSE g : Balances(g, Len(rows), rows, u)
<1>1. Len(rows) \in 0 .. Len(rows) /\ Len(rows) \in Nat
  OBVIOUS
<1>2. PICK g \in [0 .. Len(rows) -> Int] : Balances(g, Len(rows), rows, u)
  BY <1>1, BalancesExist
<1>3. Balances(after, Len(rows), rows, u)
  BY <1>2
<1>4. Statement(rows, u) = after[Len(rows)]
  BY DEF Statement, Balances
<1> HIDE DEF after
<1>5. \A k \in 0 .. Len(rows) : after[k] = g[k]
  BY <1>1, <1>2, <1>3, BalancesAgree DEF Agree
<1> QED
  BY <1>1, <1>2, <1>4, <1>5

LEMMA StatementAppend ==
  ASSUME NEW u, NEW rows \in Seq(TxnRow), NEW row \in TxnRow
  PROVE  /\ Statement(rows, u) \in Int
         /\ Statement(Append(rows, row), u) = Statement(rows, u) + Change(row, u)
<1>1. PICK more : more = Append(rows, row)
  OBVIOUS
<1>2. /\ more \in Seq(TxnRow) /\ Len(more) = Len(rows) + 1 /\ more[Len(more)] = row
      /\ \A k \in 1 .. Len(rows) : more[k] = rows[k]
      /\ Len(rows) \in Nat
  BY <1>1
<1>3. PICK g \in [0 .. Len(rows) -> Int] :
        Balances(g, Len(rows), rows, u) /\ Statement(rows, u) = g[Len(rows)]
  BY StatementIs
<1>4. PICK h \in [0 .. Len(more) -> Int] :
        Balances(h, Len(more), more, u) /\ Statement(more, u) = h[Len(more)]
  BY <1>2, StatementIs
<1>5. h[Len(rows)] = g[Len(rows)]
  <2>1. Len(more) \in Nat /\ Len(rows) <= Len(more) /\ Agree(rows, more, Len(rows))
    BY <1>2 DEF Agree
  <2>2. \A k \in 0 .. Len(rows) : h[k] = g[k]
    BY <1>2, <1>3, <1>4, <2>1, BalancesAgree
  <2> QED
    BY <1>2, <2>2
<1>6. h[Len(more)] = h[Len(rows)] + Change(row, u)
  <2>1. PICK m : m = Len(more)
    OBVIOUS
  <2>2. m \in 0 .. m /\ m # 0 /\ m - 1 = Len(rows) /\ more[m] = row
    BY <1>2, <2>1
  <2>3. h = [k \in 0 .. m |-> IF k = 0 THEN Opening(u) ELSE h[k - 1] + Change(more[k], u)]
    BY <1>4, <2>1 DEF Balances
  <2>4. h[m] = h[m - 1] + Change(more[m], u)
    BY <2>2, <2>3
  <2> QED
    BY <2>1, <2>2, <2>4
<1> QED
  BY <1>1, <1>2, <1>3, <1>4, <1>5, <1>6

LEMMA StatementEmpty ==
  ASSUME NEW u
  PROVE  Statement(<<>>, u) = Opening(u)
<1>1. <<>> \in Seq(TxnRow) /\ Len(<<>>) = 0
  OBVIOUS
<1>2. PICK g \in [0 .. Len(<<>>) -> Int] :
        Balances(g, Len(<<>>), <<>>, u) /\ Statement(<<>>, u) = g[Len(<<>>)]
  BY <1>1, StatementIs
<1> QED
  BY <1>1, <1>2 DEF Balances

LEMMA CommitExplained ==
  ASSUME Inv, LedgerExplainsBalances, NEW r \in Reqs, CommitTransfer(r)
  PROVE  LedgerExplainsBalances'
<1> DEFINE q == req[r]
<1>1. PICK x : x = [type |-> TxnType(r), task |-> q.task, from |-> Payer(r), to |-> Payee(r),
                    amount |-> q.amount]
  OBVIOUS
<1>2. /\ q.at = "commit" /\ ledger' = Append(ledger, x)
      /\ balance' = [balance EXCEPT ![Payer(r)] = @ - q.amount, ![Payee(r)] = @ + q.amount]
  BY <1>1 DEF CommitTransfer
<1>3. x \in TxnRow /\ x.from = Payer(r) /\ x.to = Payee(r) /\ x.amount = q.amount
  <2>1. /\ q \in Request /\ q.task \in Tasks /\ task[q.task].status # "ABSENT"
        /\ q.op \in {"create", "cancel"} \cup Reviews
        /\ q.op = "create" => q.user \in Users
        /\ q.op \in Reviews => q.sub \in Subs /\ Exists(q.sub) /\ sub[q.sub].task = q.task
    BY <1>2, InTransfer DEF Inv, TypeOK, RequestOK
  <2>2. Payee(r) \in Users \cup {Pool}
    BY <2>1 DEF Payee, Worker, Reviews, Loops, Inv, RowsOK
  <2>3. Payer(r) \in Users \cup {Pool} /\ q.amount \in Nat
    BY <2>1 DEF Payer, Request
  <2>4. TxnType(r) \in {"TASK_ESCROW", "TASK_PAYOUT", "TASK_REFUND"}
    BY DEF TxnType
  <2> QED
    BY <1>1, <2>1, <2>2, <2>3, <2>4 DEF TxnRow
<1>4. \A u \in Users \cup {Pool} : balance'[u] = balance[u] + Change(x, u)
  <2>1. \A u \in Users \cup {Pool} : balance[u] \in Int
    BY DEF Inv, TypeOK
  <2> QED
    BY <1>2, <1>3, <2>1 DEF Change, Inv, TypeOK, TxnRow
<1>5. \A u \in Users \cup {Pool} : Statement(ledger', u) = Statement(ledger, u) + Change(x, u)
  BY <1>2, <1>3, StatementAppend DEF Inv, TypeOK
<1> QED
  BY <1>4, <1>5 DEF LedgerExplainsBalances

LEMMA ExplainedNext ==
  ASSUME Inv, LedgerExplainsBalances, [Next]_vars
  PROVE  LedgerExplainsBalances'
<1>1. CASE UNCHANGED <<balance, ledger>>
  BY <1>1 DEF LedgerExplainsBalances
<1>2. CASE \E r \in Reqs : CommitTransfer(r)
  BY <1>2, CommitExplained
<1>3. ASSUME NEW r \in Reqs, TaskRequest(r) PROVE UNCHANGED <<balance, ledger>>
  BY <1>3 DEF TaskRequest, CreateTask, StartReviewRead, UpdateRead, CancelRead, ReadOwnTask,
              SubmitRead, ReviewRead
<1>4. ASSUME NEW r \in Reqs, Handler(r) PROVE UNCHANGED <<balance, ledger>>
  BY <1>4 DEF Handler, StartReviewWrite, UpdateWrite, CancelWrite, SubmitLatest, SubmitInsert,
              NextInLoop, PollProcess, PollAnswer, PollRecheck
<1>5. ASSUME NEW r \in Reqs, Payment(r), ~ CommitTransfer(r) PROVE UNCHANGED <<balance, ledger>>
  BY <1>5 DEF Payment, GetLock, LockTimeout, ReleaseLock, FindExistingPayout, ReadReward,
              CheckBalance, AbortTransfer, Finalize, StatementFails
<1>6. ASSUME NEW r \in Reqs, AutoCompleteRead(r) \/ PollRead(r)
      PROVE  UNCHANGED <<balance, ledger>>
  BY <1>6 DEF AutoCompleteRead, PollRead
<1>7. CASE (\E s \in Subs : SevenDaysPass(s)) \/ Crash \/ UNCHANGED vars
  BY <1>1, <1>7 DEF SevenDaysPass, Crash, vars
<1> QED
  BY <1>1, <1>2, <1>3, <1>4, <1>5, <1>6, <1>7 DEF Next

\* transfer: the transactions table accounts for every balance, to the unit, however
\* payments overlap, fail and are tried again.
THEOREM LedgerExplains == Spec => []LedgerExplainsBalances
<1>1. Init => LedgerExplainsBalances
  BY StatementEmpty DEF Init, LedgerExplainsBalances, Opening
<1>2. Inv /\ LedgerExplainsBalances /\ [Next]_vars => LedgerExplainsBalances'
  BY ExplainedNext
<1> QED
  BY <1>1, <1>2, Invariance, PTL DEF Spec
=============================================================================
