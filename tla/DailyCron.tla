------------------------------ MODULE DailyCron ------------------------------
(***************************************************************************)
(* The two daily callbacks of WalletCron on several API servers:            *)
(* dailyInjection (00:00, WalletService.injectDaily) and dailyAiTasks       *)
(* (00:05, publishMathTasks and publishProgrammingTasks).  Every server     *)
(* fires each callback once a day; named locks in the shared MySQL are to   *)
(* let one of them through.                                                *)
(*                                                                         *)
(* A callback takes less than a day: midnight comes when none is running.   *)
(***************************************************************************)
EXTENDS NamedLock, Integers, FiniteSets

CONSTANTS Servers,
          ServerOf,     \* the server whose pool a connection belongs to
          Budget,       \* what the AI tasks of one run may cost
          Rewards,      \* rewards drawn for a generated task
          MaxTries,     \* withRetry's retries
          MaxProblems,  \* bound: problems or topics a publishing loop goes through
          MaxDay        \* bound on the days

ASSUME CronAssumption ==
  /\ ServerOf \in [Conns -> Servers]
  /\ \A s \in Servers : \E c \in Conns : ServerOf[c] = s
  /\ Budget \in Nat
  /\ Rewards \subseteq Nat \ {0}
  /\ MaxTries \in Nat \ {0}
  /\ MaxProblems \in Nat /\ MaxDay \in Nat \ {0}

VARIABLES day,
          due,     \* the runs whose timer has not fired today
          run,     \* how far each run is
          lock,    \* named locks of today, by name
          injected  \* DAILY_INJECTION rows created today

vars == <<day, due, run, lock, injected>>
-------------------------------------------------------------------------------
Jobs == {"inject", "aiTasks"}

\* `cron:daily-injection:${day}`, `cron:daily-ai-tasks:${day}` and
\* `wallet:daily-injection:${day}`.
Locks == {"cronInject", "cronAiTasks", "walletInject"}
CronLock == [inject |-> "cronInject", aiTasks |-> "cronAiTasks"]

Steps == {"cronLock", "walletLock", "existing", "check", "commit", "publish",
          "walletRelease", "cronRelease"}
RunState == [at : Steps \cup {"idle"}, spent : Nat, left : 0..MaxProblems,
             tries : 0..(MaxTries - 1)]
Idle == [at |-> "idle", spent |-> 0, left |-> 0, tries |-> 0]

\* A run is a callback of a server.
Runs == Servers \X Jobs
ConnsOf(p) == {c \in Conns : ServerOf[c] = p[1]}

Init ==
  /\ day = 1
  /\ due = Runs
  /\ run = [p \in Runs |-> Idle]
  /\ lock = [l \in Locks |-> FreeLock]
  /\ injected = 0

Goto(p, step) == run' = [run EXCEPT ![p].at = step]
Done(p) == run' = [run EXCEPT ![p] = Idle]
-------------------------------------------------------------------------------
\* 00:00 in Shanghai: the keys of the locks and the range of the existing-row query
\* are those of the new day.
Midnight ==
  /\ day < MaxDay
  /\ \A p \in Runs : run[p] = Idle
  /\ day' = day + 1
  /\ due' = Runs
  /\ lock' = [l \in Locks |-> FreeLock]
  /\ injected' = 0
  /\ UNCHANGED run

Fire(p) ==
  /\ p \in due
  /\ due' = due \ {p}
  /\ Goto(p, "cronLock")
  /\ UNCHANGED <<day, lock, injected>>

\* withCronLock, and withMySqlLock inside injectDaily.
Wants(p) == IF run[p].at \in {"cronLock", "cronRelease"} THEN CronLock[p[2]]
            ELSE "walletInject"
InsideLock(p) == IF run[p].at = "walletLock" THEN "existing"
                 ELSE IF p[2] = "inject" THEN "walletLock" ELSE "publish"
GetLock(p, c) ==
  /\ run[p].at \in {"cronLock", "walletLock"}
  /\ c \in ConnsOf(p)
  /\ CanGetLock(lock[Wants(p)], c)
  /\ lock' = [lock EXCEPT ![Wants(p)] = AfterGetLock(@, c)]
  /\ run' = [run EXCEPT ![p] =
                [@ EXCEPT !.at = InsideLock(p),
                          !.left = IF p[2] = "aiTasks" THEN MaxProblems ELSE 0]]
  /\ UNCHANGED <<day, due, injected>>

\* Mutant.
RunWithoutLock(p, c) ==
  /\ run[p].at \in {"cronLock", "walletLock"}
  /\ c \in ConnsOf(p)
  /\ ~CanGetLock(lock[Wants(p)], c)
  /\ Goto(p, InsideLock(p))
  /\ UNCHANGED <<day, due, lock, injected>>
\* Mutant.
WaitForever(p, c) == FALSE

\* Five seconds pass: the cron wrapper skips the run, withMySqlLock throws into the
\* callback's catch.
LockTimeout(p, c) ==
  /\ run[p].at \in {"cronLock", "walletLock"}
  /\ c \in ConnsOf(p)
  /\ ~CanGetLock(lock[Wants(p)], c)
  /\ IF run[p].at = "cronLock" THEN Done(p) ELSE Goto(p, "cronRelease")
  /\ UNCHANGED <<day, due, lock, injected>>

\* Mutant.
InjectAgain(p) ==
  /\ run[p].at = "existing"
  /\ Goto(p, "check")
  /\ UNCHANGED <<day, due, lock, injected>>

\* injectDaily looks for a DAILY_INJECTION row of today.
FindExisting(p) ==
  /\ run[p].at = "existing"
  /\ Goto(p, IF injected > 0 THEN "walletRelease" ELSE "check")
  /\ UNCHANGED <<day, due, lock, injected>>

\* WalletService.transfer from the pool to the system user: what the pool has depends
\* on the rest of the platform.
CheckBalance(p) ==
  /\ run[p].at = "check"
  /\ \E step \in {"commit", "walletRelease"} : Goto(p, step)
  /\ UNCHANGED <<day, due, lock, injected>>

Inject(p) ==
  /\ run[p].at = "commit"
  /\ injected' = injected + 1
  /\ Goto(p, "walletRelease")
  /\ UNCHANGED <<day, due, lock>>

\* withRetry: a transaction lost to a write conflict is tried again.
RetryInject(p) ==
  /\ run[p].at = "commit"
  /\ run[p].tries + 1 < MaxTries
  /\ run' = [run EXCEPT ![p].at = "check", ![p].tries = @ + 1]
  /\ UNCHANGED <<day, due, lock, injected>>

\* One round of a publishing loop: the task is created and its reward spent, or the
\* reward is over budget, the creation throws, or what follows the creation throws.
PublishTask(p) ==
  /\ run[p].at = "publish"
  /\ run[p].left > 0 /\ run[p].spent < Budget
  /\ \E cost \in Rewards \cup {0} :
       /\ run[p].spent + cost <= Budget
       /\ run' = [run EXCEPT ![p].left = @ - 1, ![p].spent = @ + cost]
  /\ UNCHANGED <<day, due, lock, injected>>

PublishEnds(p) ==
  /\ run[p].at = "publish"
  /\ run[p].left = 0 \/ run[p].spent >= Budget
  /\ Goto(p, "cronRelease")
  /\ UNCHANGED <<day, due, lock, injected>>

\* The finally blocks: on whatever connection the pool gives.
ReleaseLock(p, c) ==
  /\ run[p].at \in {"walletRelease", "cronRelease"}
  /\ c \in ConnsOf(p)
  /\ \E l \in AfterReleaseLock(lock[Wants(p)], c) : lock' = [lock EXCEPT ![Wants(p)] = l]
  /\ IF run[p].at = "walletRelease" THEN Goto(p, "cronRelease") ELSE Done(p)
  /\ UNCHANGED <<day, due, injected>>

\* Any awaited statement may fail; the finally blocks still run.
StatementFails(p) ==
  /\ run[p].at # "idle"
  /\ CASE run[p].at \in {"existing", "check", "commit"} -> Goto(p, "walletRelease")
       [] run[p].at \in {"walletLock", "publish", "walletRelease"} -> Goto(p, "cronRelease")
       [] OTHER -> Done(p)
  /\ UNCHANGED <<day, due, lock, injected>>

\* One server dies: MySQL frees the locks of its sessions.
Crash(s) ==
  /\ \E job \in Jobs : run[<<s, job>>] # Idle
  /\ run' = [p \in Runs |-> IF p[1] = s THEN Idle ELSE run[p]]
  /\ lock' = [l \in Locks |-> IF lock[l].owner # NoConn /\ ServerOf[lock[l].owner] = s
                              THEN FreeLock ELSE lock[l]]
  /\ UNCHANGED <<day, due, injected>>
-------------------------------------------------------------------------------
Step(p) == \/ \E c \in Conns : GetLock(p, c) \/ LockTimeout(p, c) \/ ReleaseLock(p, c)
           \/ FindExisting(p) \/ CheckBalance(p) \/ Inject(p) \/ RetryInject(p)
           \/ PublishTask(p) \/ PublishEnds(p)

Next == \/ Midnight
        \/ \E p \in Runs : Step(p) \/ StatementFails(p) \/ Fire(p)
        \/ \E s \in Servers : Crash(s)

Spec == Init /\ [][Next]_vars

\* A run goes on, whether or not its statements fail.
FairSpec == Spec /\ \A p \in Runs : WF_vars(Step(p))
-------------------------------------------------------------------------------
\* The runs, locks and balances have the shapes declared above.
TypeOK ==
  /\ day \in 1..MaxDay
  /\ due \subseteq Runs
  /\ run \in [Runs -> RunState]
  /\ lock \in [Locks -> LockState]
  /\ injected \in Nat

\* The pool feeds the system user once a day, however many servers fire, whichever
\* connections their lock statements use and whoever crashes ("Daily injection
\* already exists for today, skipping duplicate run").
InjectedOncePerDay == injected <= 1

\* The runs of one callback on two servers do not overlap, except while they wait
\* for the lock: each is skipped unless its own pool got the lock.
Inside(p) == run[p].at \notin {"idle", "cronLock"}
OneRunAtATime == \A p, q \in Runs : Inside(p) /\ Inside(q) /\ p[2] = q[2] => p = q

\* Every callback that fired comes to its end: a lock that was left behind on a
\* connection delays the next one by five seconds and no more.
RunsEnd == \A p \in Runs : run[p].at # "idle" ~> run[p].at = "idle"
-------------------------------------------------------------------------------
\* The inductive invariant behind OneRunAtATime and InjectedOncePerDay: a run inside
\* its lock has it on one of its server's own connections, and nobody injects between
\* the search for an existing row and the insert.
HasLock(p, l) == lock[l].owner \in ConnsOf(p)
RunOK(p) ==
  /\ Inside(p) => HasLock(p, CronLock[p[2]])
  /\ run[p].at \in {"walletLock", "existing", "check", "commit", "walletRelease"} =>
       p[2] = "inject"
  /\ run[p].at \in {"existing", "check", "commit", "walletRelease"} => HasLock(p, "walletInject")
  /\ run[p].at \in {"check", "commit"} => injected = 0
Inv == TypeOK /\ (\A p \in Runs : RunOK(p)) /\ InjectedOncePerDay
=============================================================================
