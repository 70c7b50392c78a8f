---------------------------- MODULE DailyCronProofs ----------------------------
(***************************************************************************)
(* Proofs about DailyCron for any number of servers, connections and days:  *)
(* Inv is inductive, and with it at most one injection a day and at most    *)
(* one run of a callback inside its lock.                                  *)
(***************************************************************************)
EXTENDS DailyCron, TLAPS

\* Connections belong to one server, so two servers never hold one lock together.
LEMMA OwnersAreApart ==
  ASSUME NEW p \in Runs, NEW q \in Runs, NEW l \in Locks, HasLock(p, l), HasLock(q, l)
  PROVE  p[1] = q[1]
BY DEF HasLock, ConnsOf

\* The lock a run asks for or releases is one of the three.
LEMMA WantsType == \A p \in Runs : Wants(p) \in Locks /\ CronLock[p[2]] \in Locks
BY DEF Wants, Runs, Jobs, Locks, CronLock

\* Runs of one callback are told apart by their server.
LEMMA RunsApart == \A p, q \in Runs : p[1] = q[1] /\ p[2] = q[2] => p = q
BY DEF Runs

\* NamedLock: what GET_LOCK and RELEASE_LOCK make of a lock is a lock.
LEMMA LockTypes ==
  ASSUME NEW l \in LockState, NEW c \in Conns, CanGetLock(l, c)
  PROVE  AfterGetLock(l, c) \in LockState /\ AfterGetLock(l, c).owner = c
<1>1. CASE l = FreeLock
  BY <1>1, ConnAssumption DEF AfterGetLock, FreeLock, LockState
<1>2. CASE l \in [owner : Conns, depth : 1..MaxDepth]
  <2>1. l.depth \in 1..MaxDepth BY <1>2
  <2>2. (IF l.depth = MaxDepth THEN MaxDepth ELSE l.depth + 1) \in 1..MaxDepth
    BY <2>1, ConnAssumption
  <2> QED BY <2>2 DEF AfterGetLock, LockState
<1> QED BY <1>1, <1>2 DEF LockState

LEMMA ReleaseTypes ==
  ASSUME NEW l \in LockState, NEW c \in Conns, NEW m \in AfterReleaseLock(l, c)
  PROVE  m \in LockState /\ (l.owner # c => m = l)
<1>1. CASE l.owner # c
  BY <1>1 DEF AfterReleaseLock
<1>2. CASE l.owner = c
  <2>1. l \in [owner : Conns, depth : 1..MaxDepth]
    BY <1>2, ConnAssumption DEF LockState, FreeLock
  <2>2. l.depth \in 1..MaxDepth BY <2>1
  <2>3. m = l \/ m = FreeLock \/ (l.depth # 1 /\ m = [l EXCEPT !.depth = @ - 1])
    BY <1>2 DEF AfterReleaseLock
  <2>4. l.depth # 1 => l.depth - 1 \in 1..MaxDepth
    BY <2>2, ConnAssumption
  <2> QED BY <1>2, <2>1, <2>3, <2>4 DEF LockState
<1> QED BY <1>1, <1>2
-------------------------------------------------------------------------------
LEMMA InitInv == Init => Inv
<1> SUFFICES ASSUME Init PROVE Inv
  OBVIOUS
<1> USE DEF Init
<1>1. Idle \in RunState /\ FreeLock \in LockState
  BY CronAssumption DEF Idle, RunState, LockState
<1>2. TypeOK
  <2>1. MaxDay \in Nat /\ (MaxDay >= 1 => 1 \in 1..MaxDay)
    BY CronAssumption
  <2> QED BY <1>1, <2>1, CronAssumption DEF TypeOK
<1>3. \A p \in Runs : RunOK(p)
  BY DEF RunOK, Idle, Inside
<1> QED BY <1>2, <1>3 DEF Inv, InjectedOncePerDay
-------------------------------------------------------------------------------
\* A step of one run: the other runs keep what they had, so RunOK has to be shown of
\* the moving run only, as long as no lock another run is inside of changes hands.
LEMMA OthersKeep ==
  ASSUME Inv, NEW p \in Runs, NEW s \in RunState, run' = [run EXCEPT ![p] = s],
         \A q \in Runs \ {p}, l \in Locks : HasLock(q, l) => HasLock(q, l)',
         injected' = injected
         \/ (injected' \in Nat /\ run[p].at \in {"existing", "check", "commit", "walletRelease"})
  PROVE  \A q \in Runs \ {p} : RunOK(q)'
<1> SUFFICES ASSUME NEW q \in Runs \ {p} PROVE RunOK(q)'
  OBVIOUS
<1>1. run'[q] = run[q]
  BY DEF Inv, TypeOK
<1>2. RunOK(q) /\ RunOK(p)
  BY DEF Inv
<1>3. CronLock[q[2]] \in Locks /\ "walletInject" \in Locks
  BY WantsType DEF Locks
<1>4. ASSUME run[q].at \in {"check", "commit"} PROVE injected' = 0
  <2>1. CASE injected' = injected
    BY <1>2, <1>4, <2>1 DEF RunOK
  <2>2. CASE run[p].at \in {"existing", "check", "commit", "walletRelease"}
    <3>1. HasLock(p, "walletInject") /\ HasLock(q, "walletInject")
      BY <1>2, <1>4, <2>2 DEF RunOK
    <3>2. p[1] = q[1]
      BY <1>3, <3>1, OwnersAreApart
    <3>3. p[2] = q[2]
      BY <1>2, <1>4, <2>2 DEF RunOK
    <3> QED BY <3>2, <3>3, RunsApart
  <2> QED BY <2>1, <2>2
<1> QED BY <1>1, <1>2, <1>3, <1>4 DEF RunOK, Inside, HasLock, ConnsOf

LEMMA StepInv == Inv /\ [Next]_vars => Inv'
<1> SUFFICES ASSUME Inv, [Next]_vars PROVE Inv'
  OBVIOUS
<1> USE CronAssumption
<1>0. TypeOK /\ (\A p \in Runs : RunOK(p)) /\ InjectedOncePerDay
  BY DEF Inv
<1>t. /\ day \in 1..MaxDay /\ due \subseteq Runs /\ run \in [Runs -> RunState]
      /\ lock \in [Locks -> LockState] /\ injected \in Nat
  BY <1>0 DEF TypeOK
<1>i. Idle \in RunState /\ FreeLock \in LockState
  BY DEF Idle, RunState, LockState
<1>g. \A p \in Runs, step \in Steps : [run EXCEPT ![p].at = step] = [run EXCEPT ![p] = [run[p] EXCEPT !.at = step]]
                                    /\ [run[p] EXCEPT !.at = step] \in RunState
  BY <1>t DEF RunState
\* A run that moves within its lock and touches no lock and no row.
<1>move. ASSUME NEW p \in Runs, NEW s \in RunState, run' = [run EXCEPT ![p] = s],
                UNCHANGED <<day, lock, injected>>, due' \subseteq Runs,
                RunOK(p)'
         PROVE  Inv'
  <2>1. \A q \in Runs \ {p} : RunOK(q)'
    BY <1>move, OthersKeep DEF HasLock, ConnsOf
  <2>2. TypeOK'
    BY <1>move, <1>t DEF TypeOK
  <2>3. InjectedOncePerDay'
    BY <1>move, <1>0 DEF InjectedOncePerDay
  <2> QED BY <1>move, <2>1, <2>2, <2>3 DEF Inv
<1>1. CASE Midnight
  <2>1. TypeOK'
    BY <1>1, <1>t, <1>i DEF Midnight, TypeOK
  <2>2. \A p \in Runs : RunOK(p)'
    BY <1>1 DEF Midnight, RunOK, Inside, Idle
  <2> QED BY <1>1, <2>1, <2>2 DEF Midnight, Inv, InjectedOncePerDay
<1>2. ASSUME NEW p \in Runs, Fire(p) PROVE Inv'
  <2>1. "cronLock" \in Steps /\ run' = [run EXCEPT ![p] = [run[p] EXCEPT !.at = "cronLock"]]
    BY <1>2, <1>g DEF Fire, Goto, Steps
  <2>2. run'[p].at = "cronLock"
    BY <2>1, <1>t DEF RunState
  <2>3. RunOK(p)'
    BY <2>2 DEF RunOK, Inside
  <2> QED BY <1>2, <1>g, <2>1, <2>3, <1>move, <1>t DEF Fire
\* A run that moves to another step of itself.
<1>goto. ASSUME NEW p \in Runs, NEW step \in Steps, Goto(p, step),
                UNCHANGED <<day, due, lock, injected>>,
                run'[p].at = step => RunOK(p)'
         PROVE  Inv'
  <2>1. run'[p].at = step
    BY <1>goto, <1>t DEF Goto, RunState
  <2> QED BY <1>goto, <1>g, <1>t, <2>1, <1>move DEF Goto
<1>done. ASSUME NEW p \in Runs, Done(p), UNCHANGED <<day, due, lock, injected>>
         PROVE  Inv'
  <2>1. run'[p] = Idle
    BY <1>done, <1>t DEF Done
  <2>2. RunOK(p)'
    BY <2>1 DEF RunOK, Inside, Idle
  <2> QED BY <1>done, <1>i, <1>t, <2>2, <1>move DEF Done
\* A lock that changes hands is free, or the connection's own, so no other run is inside it.
<1>3. ASSUME NEW p \in Runs, NEW c \in Conns, GetLock(p, c) PROVE Inv'
  <2>l. PICK l \in Locks : l = Wants(p)
    BY WantsType
  <2> DEFINE s == [run[p] EXCEPT !.at = InsideLock(p), !.left = IF p[2] = "aiTasks" THEN MaxProblems ELSE 0]
  <2>1. /\ run[p].at \in {"cronLock", "walletLock"} /\ c \in ConnsOf(p)
        /\ CanGetLock(lock[l], c) /\ lock' = [lock EXCEPT ![l] = AfterGetLock(lock[l], c)]
        /\ run' = [run EXCEPT ![p] = s] /\ UNCHANGED <<day, due, injected>>
    <3>1. run' = [run EXCEPT ![p] = s]
      BY <1>3 DEF GetLock
    <3> QED BY <1>3, <3>1, <2>l DEF GetLock
  <2>2. l \in Locks
    BY <2>l
  <2>3. AfterGetLock(lock[l], c) \in LockState /\ AfterGetLock(lock[l], c).owner = c
    BY <2>1, <2>2, <1>t, LockTypes
  <2>4. /\ lock' \in [Locks -> LockState] /\ HasLock(p, l)'
        /\ \A m \in Locks \ {l} : lock'[m] = lock[m]
    BY <2>1, <2>2, <2>3, <1>t DEF HasLock, ConnsOf
  <2>5. s \in RunState /\ run'[p] = s
    <3>1. 0 \in 0..MaxProblems /\ MaxProblems \in 0..MaxProblems
      OBVIOUS
    <3>2. InsideLock(p) \in Steps
      BY DEF InsideLock, Steps
    <3>3. run[p] \in RunState BY <1>t
    <3> QED BY <2>1, <3>1, <3>2, <3>3, <1>t DEF RunState
  <2>6. \A q \in Runs \ {p}, m \in Locks : HasLock(q, m) => HasLock(q, m)'
    <3> SUFFICES ASSUME NEW q \in Runs \ {p}, HasLock(q, l) PROVE HasLock(q, l)'
      BY <2>2, <2>4 DEF HasLock, ConnsOf
    <3>1. lock[l].owner = c
      <4>1. lock[l].owner # NoConn
        BY ConnAssumption DEF HasLock, ConnsOf
      <4> QED BY <4>1, <2>1 DEF CanGetLock
    <3> QED BY <3>1, <2>1, <2>2, <2>3, <1>t DEF HasLock, ConnsOf
  <2>7. \A q \in Runs \ {p} : RunOK(q)'
    BY <2>1, <2>5, <2>6, OthersKeep
  <2>8. RunOK(p)'
    <3>1. RunOK(p) /\ p[2] \in Jobs
      BY <1>0 DEF Runs
    <3>2. CASE run[p].at = "walletLock"
      <4>1. s.at = "existing" /\ l = "walletInject" /\ p[2] = "inject" /\ CronLock[p[2]] = "cronInject"
        BY <3>1, <3>2, <1>t, <2>l DEF Wants, InsideLock, RunOK, RunState, CronLock
      <4>2. HasLock(p, CronLock[p[2]])'
        BY <3>1, <3>2, <4>1, <2>4 DEF RunOK, Inside, HasLock, ConnsOf, Locks
      <4> QED BY <4>1, <4>2, <2>4, <2>5 DEF RunOK, Inside
    <3>3. CASE run[p].at = "cronLock"
      <4>1. l = CronLock[p[2]]
        BY <3>3, <2>l DEF Wants
      <4>2. IF p[2] = "inject" THEN s.at = "walletLock" ELSE s.at = "publish"
        BY <3>3, <1>t DEF RunState, InsideLock
      <4> QED BY <4>1, <4>2, <2>4, <2>5 DEF RunOK, Inside
    <3> QED BY <2>1, <3>2, <3>3
  <2>9. TypeOK'
    BY <2>1, <2>4, <2>5, <1>t DEF TypeOK
  <2> QED BY <2>1, <2>7, <2>8, <2>9, <1>0 DEF Inv, InjectedOncePerDay
<1>4. ASSUME NEW p \in Runs, NEW c \in Conns, LockTimeout(p, c) PROVE Inv'
  <2>1. CASE run[p].at = "cronLock"
    BY <1>4, <2>1, <1>done DEF LockTimeout
  <2>2. CASE run[p].at = "walletLock"
    <3>1. Goto(p, "cronRelease") /\ "cronRelease" \in Steps /\ UNCHANGED <<day, due, lock, injected>>
      BY <1>4, <2>2 DEF LockTimeout, Steps
    <3>2. run'[p].at = "cronRelease" => RunOK(p)'
      BY <1>0, <2>2, <3>1 DEF RunOK, Inside, HasLock, ConnsOf
    <3> QED BY <3>1, <3>2, <1>goto
  <2> QED BY <1>4, <2>1, <2>2 DEF LockTimeout
<1>5. ASSUME NEW p \in Runs, FindExisting(p) PROVE Inv'
  <2>1. run[p].at = "existing" /\ UNCHANGED <<day, due, lock, injected>> /\ RunOK(p)
    BY <1>5, <1>0 DEF FindExisting
  <2>2. CASE injected > 0
    BY <1>5, <2>1, <2>2, <1>goto DEF FindExisting, Steps, RunOK, Inside, HasLock, ConnsOf
  <2>3. CASE ~(injected > 0)
    <3>1. injected = 0 BY <2>3, <1>t
    <3> QED BY <1>5, <2>1, <2>3, <3>1, <1>goto DEF FindExisting, Steps, RunOK, Inside, HasLock, ConnsOf
  <2> QED BY <2>2, <2>3
<1>6. ASSUME NEW p \in Runs, CheckBalance(p) PROVE Inv'
  <2>1. PICK step \in {"commit", "walletRelease"} : Goto(p, step)
    BY <1>6 DEF CheckBalance
  <2> QED BY <1>6, <1>0, <2>1, <1>goto DEF CheckBalance, Steps, RunOK, Inside, HasLock, ConnsOf
<1>7. ASSUME NEW p \in Runs, Inject(p) PROVE Inv'
  <2>1. /\ run[p].at = "commit" /\ injected = 0 /\ injected' = 1 /\ RunOK(p)
        /\ UNCHANGED <<day, due, lock>>
    BY <1>7, <1>0 DEF Inject, RunOK
  <2>2. run' = [run EXCEPT ![p] = [run[p] EXCEPT !.at = "walletRelease"]]
        /\ [run[p] EXCEPT !.at = "walletRelease"] \in RunState
    BY <1>7, <1>g DEF Inject, Goto, Steps
  <2>3. \A q \in Runs \ {p} : RunOK(q)'
    BY <2>1, <2>2, OthersKeep DEF HasLock, ConnsOf
  <2>4. run'[p].at = "walletRelease"
    BY <2>2, <1>t DEF RunState
  <2>5. RunOK(p)'
    BY <2>1, <2>4 DEF RunOK, Inside, HasLock, ConnsOf
  <2>6. TypeOK'
    BY <2>1, <2>2, <1>t DEF TypeOK
  <2> QED BY <2>1, <2>3, <2>5, <2>6 DEF Inv, InjectedOncePerDay
<1>8. ASSUME NEW p \in Runs, RetryInject(p) PROVE Inv'
  <2> DEFINE s == [run[p] EXCEPT !.at = "check", !.tries = @ + 1]
  <2>1. run' = [run EXCEPT ![p] = s] /\ s \in RunState
    <3>1. run[p] \in RunState /\ run[p].tries \in 0..(MaxTries - 1) /\ run[p].tries + 1 < MaxTries
      BY <1>8, <1>t DEF RetryInject, RunState
    <3>2. run[p].tries + 1 \in 0..(MaxTries - 1)
      BY <3>1
    <3> QED BY <1>8, <1>t, <3>1, <3>2 DEF RetryInject, RunState, Steps
  <2>2. run'[p].at = "check"
    BY <2>1, <1>t DEF RunState
  <2>3. RunOK(p)'
    BY <1>8, <1>0, <2>2 DEF RetryInject, RunOK, Inside, HasLock, ConnsOf
  <2> QED BY <1>8, <1>t, <2>1, <2>3, <1>move DEF RetryInject
<1>9. ASSUME NEW p \in Runs, PublishTask(p) PROVE Inv'
  <2>1. PICK cost \in Rewards \cup {0} :
           run' = [run EXCEPT ![p].left = @ - 1, ![p].spent = @ + cost]
    BY <1>9 DEF PublishTask
  <2> DEFINE s == [run[p] EXCEPT !.left = @ - 1, !.spent = @ + cost]
  <2>2. run' = [run EXCEPT ![p] = s] /\ s \in RunState
    <3>1. run[p] \in RunState /\ run[p].left \in 0..MaxProblems /\ run[p].left > 0
          /\ run[p].spent \in Nat /\ cost \in Nat
      BY <1>9, <1>t DEF PublishTask, RunState
    <3>2. run[p].left - 1 \in 0..MaxProblems /\ run[p].spent + cost \in Nat
      BY <3>1
    <3> QED BY <2>1, <1>t, <3>1, <3>2 DEF RunState
  <2>3. run'[p].at = "publish"
    BY <1>9, <2>2, <1>t DEF PublishTask, RunState
  <2>4. RunOK(p)'
    BY <1>9, <1>0, <2>3 DEF PublishTask, RunOK, Inside, HasLock, ConnsOf
  <2> QED BY <1>9, <1>t, <2>2, <2>4, <1>move DEF PublishTask
<1>10. ASSUME NEW p \in Runs, PublishEnds(p) PROVE Inv'
  BY <1>10, <1>0, <1>goto DEF PublishEnds, Steps, RunOK, Inside, HasLock, ConnsOf
\* RELEASE_LOCK on a connection that does not own the lock changes nothing; on the
\* owner's connection only this server's runs can have been inside.
<1>11. ASSUME NEW p \in Runs, NEW c \in Conns, ReleaseLock(p, c) PROVE Inv'
  <2> DEFINE l == Wants(p)
             s == IF run[p].at = "walletRelease" THEN [run[p] EXCEPT !.at = "cronRelease"]
                  ELSE Idle
  <2>0. l \in Locks
    BY WantsType
  <2>1. PICK x \in AfterReleaseLock(lock[l], c) : lock' = [lock EXCEPT ![l] = x]
    BY <1>11 DEF ReleaseLock
  <2>2. x \in LockState /\ (lock[l].owner # c => x = lock[l])
    BY <2>0, <2>1, <1>t, ReleaseTypes
  <2>3. /\ run[p].at \in {"walletRelease", "cronRelease"} /\ c \in ConnsOf(p)
        /\ UNCHANGED <<day, due, injected>>
    BY <1>11 DEF ReleaseLock
  <2>4. s \in RunState /\ run' = [run EXCEPT ![p] = s]
    BY <1>11, <1>g, <1>i DEF ReleaseLock, Goto, Done, Steps
  <2>5. lock' \in [Locks -> LockState] /\ \A m \in Locks \ {l} : lock'[m] = lock[m]
    BY <2>0, <2>1, <2>2, <1>t
  <2>6. \A q \in Runs \ {p} : RunOK(q)'
    <3> SUFFICES ASSUME NEW q \in Runs \ {p} PROVE RunOK(q)'
      OBVIOUS
    <3>1. RunOK(q) /\ RunOK(p) /\ run'[q] = run[q] /\ q[2] \in Jobs /\ p[2] \in Jobs
      BY <1>0, <2>4, <1>t DEF Runs
    <3>2. \A m \in Locks : HasLock(q, m) /\ (m = l => p[1] # q[1]) => HasLock(q, m)'
      <4> SUFFICES ASSUME NEW m \in Locks, HasLock(q, m), m = l => p[1] # q[1]
                   PROVE  HasLock(q, m)'
        OBVIOUS
      <4>1. CASE m # l
        BY <4>1, <2>5 DEF HasLock, ConnsOf
      <4>2. CASE m = l
        <5>1. lock[l].owner # c
          BY <4>2, <2>3 DEF HasLock, ConnsOf
        <5> QED BY <5>1, <4>2, <2>0, <2>1, <2>2, <1>t DEF HasLock, ConnsOf
      <4> QED BY <4>1, <4>2
    <3>3. p[1] = q[1] => p[2] # q[2]
      BY RunsApart
    <3>4. /\ l = CronLock[p[2]] \/ (l = "walletInject" /\ p[2] = "inject")
          /\ CronLock[q[2]] \in Locks /\ "walletInject" \in Locks
          /\ CronLock[q[2]] # "walletInject" /\ CronLock[p[2]] # "walletInject"
          /\ p[2] # q[2] => CronLock[q[2]] # CronLock[p[2]]
      BY <2>3, <3>1 DEF Wants, RunOK, CronLock, Jobs, Locks
    <3>5. Inside(q) => HasLock(q, CronLock[q[2]])'
      <4>1. CronLock[q[2]] = l => p[1] # q[1]
        BY <3>3, <3>4
      <4> QED BY <3>1, <3>2, <3>4, <4>1 DEF RunOK
    <3>6. run[q].at \in {"existing", "check", "commit", "walletRelease"} => HasLock(q, "walletInject")'
      <4> SUFFICES ASSUME run[q].at \in {"existing", "check", "commit", "walletRelease"}
                   PROVE  HasLock(q, "walletInject")'
        OBVIOUS
      <4>1. q[2] = "inject" /\ HasLock(q, "walletInject")
        BY <3>1 DEF RunOK
      <4>2. l = "walletInject" => p[1] # q[1]
        BY <3>3, <3>4, <4>1
      <4> QED BY <3>2, <3>4, <4>1, <4>2
    <3> QED BY <3>1, <3>5, <3>6, <2>3 DEF RunOK, Inside
  <2>7. RunOK(p)'
    <3>1. CASE run[p].at = "walletRelease"
      <4>1. RunOK(p) /\ l = "walletInject" /\ p[2] = "inject" /\ CronLock[p[2]] = "cronInject"
        BY <3>1, <1>0 DEF Wants, RunOK, CronLock
      <4>2. run'[p].at = "cronRelease"
        BY <3>1, <2>4, <1>t DEF RunState
      <4>3. HasLock(p, CronLock[p[2]])'
        BY <3>1, <4>1, <2>5 DEF RunOK, Inside, HasLock, ConnsOf, Locks
      <4> QED BY <4>1, <4>2, <4>3 DEF RunOK, Inside
    <3>2. CASE run[p].at = "cronRelease"
      <4>1. run'[p] = Idle
        BY <3>2, <2>4, <1>t
      <4> QED BY <4>1 DEF RunOK, Inside, Idle
    <3> QED BY <2>3, <3>1, <3>2
  <2>8. TypeOK'
    BY <2>3, <2>4, <2>5, <1>t DEF TypeOK
  <2> QED BY <2>3, <2>6, <2>7, <2>8, <1>0 DEF Inv, InjectedOncePerDay
<1>12. ASSUME NEW p \in Runs, StatementFails(p) PROVE Inv'
  <2>0. UNCHANGED <<day, due, lock, injected>> /\ run[p].at # "idle" /\ RunOK(p)
    BY <1>12, <1>0 DEF StatementFails
  <2>1. CASE run[p].at \in {"existing", "check", "commit"}
    BY <1>12, <2>0, <2>1, <1>goto DEF StatementFails, Steps, RunOK, Inside, HasLock, ConnsOf
  <2>2. CASE run[p].at \in {"walletLock", "publish", "walletRelease"}
    BY <1>12, <2>0, <2>2, <1>goto DEF StatementFails, Steps, RunOK, Inside, HasLock, ConnsOf
  <2>3. CASE run[p].at \notin {"existing", "check", "commit", "walletLock", "publish", "walletRelease"}
    BY <1>12, <2>0, <2>3, <1>done DEF StatementFails
  <2> QED BY <2>1, <2>2, <2>3
\* A crash frees the locks of the server's own connections only.
<1>13. ASSUME NEW s \in Servers, Crash(s) PROVE Inv'
  <2>1. /\ run' = [p \in Runs |-> IF p[1] = s THEN Idle ELSE run[p]]
        /\ lock' = [l \in Locks |-> IF lock[l].owner # NoConn /\ ServerOf[lock[l].owner] = s
                                    THEN FreeLock ELSE lock[l]]
        /\ UNCHANGED <<day, due, injected>>
    BY <1>13 DEF Crash
  <2>2. TypeOK'
    BY <2>1, <1>t, <1>i DEF TypeOK
  <2>3. \A q \in Runs, l \in Locks : q[1] # s /\ HasLock(q, l) => HasLock(q, l)'
    BY <2>1 DEF HasLock, ConnsOf
  <2>4. \A q \in Runs : RunOK(q)'
    <3> SUFFICES ASSUME NEW q \in Runs PROVE RunOK(q)'
      OBVIOUS
    <3>1. CASE q[1] = s
      BY <2>1, <3>1 DEF RunOK, Inside, Idle
    <3>2. CASE q[1] # s
      <4>1. run'[q] = run[q] /\ RunOK(q) /\ CronLock[q[2]] \in Locks /\ "walletInject" \in Locks
        BY <2>1, <3>2, <1>0, WantsType DEF Locks
      <4> QED BY <2>1, <2>3, <3>2, <4>1 DEF RunOK, Inside
    <3> QED BY <3>1, <3>2
  <2> QED BY <2>1, <2>2, <2>4, <1>0 DEF Inv, InjectedOncePerDay
<1>14. CASE UNCHANGED vars
  BY <1>0, <1>14 DEF vars, Inv, TypeOK, RunOK, Inside, HasLock, ConnsOf, InjectedOncePerDay
<1> QED
  BY <1>1, <1>2, <1>3, <1>4, <1>5, <1>6, <1>7, <1>8, <1>9, <1>10, <1>11, <1>12, <1>13, <1>14
     DEF Next, Step
-------------------------------------------------------------------------------
\* Inv is an invariant of the daily callbacks.
THEOREM Invariance == Spec => []Inv
BY InitInv, StepInv, PTL DEF Spec

\* The pool feeds the system user at most once a day: withMySqlLock and the search
\* for a row of the day make injectDaily's insert unique.
THEOREM OneInjection == Spec => []InjectedOncePerDay
<1>1. Inv => InjectedOncePerDay
  BY DEF Inv
<1> QED BY <1>1, Invariance, PTL

\* withCronLock: two servers are never inside the same callback.
THEOREM MutualExclusion == Spec => []OneRunAtATime
<1>1. Inv => OneRunAtATime
  <2> SUFFICES ASSUME Inv, NEW p \in Runs, NEW q \in Runs, Inside(p), Inside(q), p[2] = q[2]
               PROVE  p = q
    BY DEF OneRunAtATime
  <2>1. HasLock(p, CronLock[p[2]]) /\ HasLock(q, CronLock[p[2]]) /\ CronLock[p[2]] \in Locks
    BY WantsType DEF Inv, RunOK
  <2> QED BY <2>1, OwnersAreApart, RunsApart
<1> QED BY <1>1, Invariance, PTL
=============================================================================
