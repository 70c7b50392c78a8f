-------------------------- MODULE TaskGeneratorProofs --------------------------
(***************************************************************************)
(* Proofs about TaskGenerator for any numbers of items, requests, tasks,    *)
(* runs and failures.                                                      *)
(***************************************************************************)
EXTENDS TaskGenerator, FiniteSetTheorems, TLAPS

(***************************************************************************)
(* Facts about the values the workers handle.                               *)
(***************************************************************************)
LEMMA NullIds == NoId \notin Tasks /\ None \notin Raws /\ Drain \in Workers
BY GeneratorAssumption DEF NoId, Tasks, Raws, Workers

LEMMA NoTaskOK == NoTask \in TaskRows /\ NoTask.raw = None /\ NoTask.st = "none"
BY DEF NoTask, TaskRows

LEMMA NoRowOK == NoRow \in Rows /\ NoRow.task = NoId
BY DEF NoRow, Rows, RawStatus

LEMMA NameOK == \A r \in Raws \cup {None} :
  Name(r) \in Snaps /\ Name(r).id = r /\ Name(r).row.task = NoId
BY NoTaskOK, NoRowOK DEF Name, Snaps, NoRow

LEMMA RowOfOK == ASSUME raw \in [Raws -> Rows]
  PROVE \A r \in Raws : RowOf(r) \in Snaps /\ RowOf(r).id = r /\ RowOf(r).row = raw[r]
BY NoTaskOK DEF RowOf, Snaps

LEMMA SnapIs == ASSUME raw \in [Raws -> Rows], task \in [Tasks -> TaskRows]
  PROVE \A r \in Raws : /\ Snap(r) \in Snaps /\ Snap(r).id = r /\ Snap(r).row = raw[r]
                        /\ Snap(r).task = IF raw[r].task = NoId THEN NoTask ELSE task[raw[r].task]
<1> SUFFICES ASSUME NEW r \in Raws
             PROVE /\ Snap(r) \in Snaps /\ Snap(r).id = r /\ Snap(r).row = raw[r]
                   /\ Snap(r).task = IF raw[r].task = NoId THEN NoTask ELSE task[raw[r].task]
  OBVIOUS
<1>1. raw[r] \in Rows /\ raw[r].task \in Tasks \cup {NoId}
  BY DEF Rows
<1>2. (IF raw[r].task = NoId THEN NoTask ELSE task[raw[r].task]) \in TaskRows
  BY <1>1, NoTaskOK
<1> QED BY <1>1, <1>2 DEF Snap, Snaps

LEMMA PhasesOK == \A type \in RunTypes : Phases[type] \in Seq(PhaseNames) /\ Phases[type] # <<>>
<1>1. RunTypes = {"FETCH_GITHUB", "FETCH_HACKERONE", "SCORE", "PUBLISH", "SCORE_AND_PUBLISH"}
  BY DEF RunTypes, Phases
<1>2. /\ Phases["FETCH_GITHUB"] = <<"closed", "issues">>
      /\ Phases["FETCH_HACKERONE"] = <<"programs", "direct">>
      /\ Phases["SCORE"] = <<"score">>
      /\ Phases["PUBLISH"] = <<"reconcile", "publish">>
      /\ Phases["SCORE_AND_PUBLISH"] = <<"score", "reconcile", "publish">>
  BY DEF Phases
<1>3. /\ <<"closed", "issues">> \in Seq(PhaseNames) \ {<<>>}
      /\ <<"programs", "direct">> \in Seq(PhaseNames) \ {<<>>}
      /\ <<"score">> \in Seq(PhaseNames) \ {<<>>}
      /\ <<"reconcile", "publish">> \in Seq(PhaseNames) \ {<<>>}
      /\ <<"score", "reconcile", "publish">> \in Seq(PhaseNames) \ {<<>>}
  BY DEF PhaseNames
<1> QED BY <1>1, <1>2, <1>3

LEMMA IdleOK == Idle \in Worker /\ WorkerOK(Idle) /\ Idle.list = {} /\ Idle.hold = Name(None)
                /\ Idle.at = "off" /\ Idle.todo = <<>> /\ Idle.run = 0
<1>1. /\ Idle.list = {} /\ Idle.hold = Name(None) /\ Idle.at = "off" /\ Idle.todo = <<>> /\ Idle.run = 0
      /\ Idle.seen = {} /\ Idle.made = NoId
  BY DEF Idle
<1>2. Idle \in Worker
  BY NameOK DEF Idle, Worker, Places
<1>3. WorkerOK(Idle)
  BY <1>1 DEF WorkerOK, ItemPlaces, MakePlaces
<1> QED BY <1>1, <1>2, <1>3
-------------------------------------------------------------------------------
(***************************************************************************)
(* How a worker moves: it alone changes, and it stays a worker.             *)
(***************************************************************************)
Moved(w) ==
  /\ worker' \in [Workers -> Worker] /\ WorkerOK(worker'[w])
  /\ \A o \in Workers \ {w} : worker'[o] = worker[o]

\* It keeps its list and its phases.
Keeps(w) ==
  /\ worker'[w].list = worker[w].list /\ worker'[w].todo = worker[w].todo
  /\ worker'[w].run = worker[w].run

ToNext(w) == Moved(w) /\ Keeps(w) /\ worker'[w].at = "next" /\ worker'[w].hold = Name(None)
ToPlace(w, place) ==
  Moved(w) /\ Keeps(w) /\ worker'[w].at = place /\ worker'[w].hold = worker[w].hold
\* It drops what it had.
Stops(w) == /\ Moved(w) /\ worker'[w].list = {} /\ worker'[w].hold = Name(None)
            /\ worker'[w].at \in {"off", "end", "fail"}
            /\ w = Drain => worker'[w].run = worker[w].run /\ worker'[w].at # "off"

LEMMA WorkerIs == ASSUME Typing, NEW w \in Workers
  PROVE /\ worker[w] \in Worker /\ WorkerOK(worker[w]) /\ worker[w].todo \in Seq(PhaseNames)
        /\ worker[w].list \subseteq Snaps /\ worker[w].hold \in Snaps
        /\ worker[w].at \in Places /\ worker[w].run \in Runs \cup {0}
BY DEF Typing, Worker

LEMMA PhaseIs == ASSUME Typing, NEW w \in Workers, worker[w].at \notin {"off", "end", "fail"}
  PROVE worker[w].todo # <<>> /\ Phase(w) \in PhaseNames
BY WorkerIs DEF WorkerOK, Phase

LEMMA NextItemMoves == ASSUME Typing, NEW w \in Workers, NextItem(w),
                              worker[w].at \in ItemPlaces \cup {"next"}
  PROVE ToNext(w)
<1> DEFINE q == [worker[w] EXCEPT !.at = "next", !.hold = Name(None), !.made = NoId]
<1>1. /\ worker \in [Workers -> Worker] /\ worker[w] \in Worker /\ WorkerOK(worker[w])
      /\ Name(None) \in Snaps /\ Name(None).id = None
  BY WorkerIs, NameOK DEF Typing
<1>2. /\ q \in Worker /\ q.at = "next" /\ q.hold = Name(None) /\ q.made = NoId
      /\ q.list = worker[w].list /\ q.todo = worker[w].todo /\ q.run = worker[w].run
  BY <1>1 DEF Worker, Places
<1>3. worker' = [worker EXCEPT ![w] = q]
  BY <1>1 DEF NextItem
<1> HIDE DEF q
<1>4. WorkerOK(q)
  BY <1>1, <1>2, NullIds DEF WorkerOK, ItemPlaces, MakePlaces
<1> QED BY <1>1, <1>2, <1>3, <1>4 DEF ToNext, Moved, Keeps

LEMMA GoMoves == ASSUME Typing, NEW w \in Workers, NEW place \in ItemPlaces \ {"link"}, Go(w, place),
                        worker[w].at \in ItemPlaces,
                        place \in {"cancel", "review"} => WorkerOK([worker[w] EXCEPT !.at = place]),
                        place \in MakePlaces => worker[w].at \in MakePlaces
  PROVE ToPlace(w, place)
<1> DEFINE q == [worker[w] EXCEPT !.at = place]
<1>1. worker \in [Workers -> Worker] /\ worker[w] \in Worker /\ WorkerOK(worker[w])
  BY WorkerIs DEF Typing
<1>2. /\ q \in Worker /\ q.at = place /\ q.hold = worker[w].hold /\ q.made = worker[w].made
      /\ q.list = worker[w].list /\ q.todo = worker[w].todo /\ q.run = worker[w].run
  BY <1>1 DEF Worker, Places
<1>3. worker' = [worker EXCEPT ![w] = q]
  BY <1>1 DEF Go
<1>4. WorkerOK(q)
  <2>1. CASE place \in {"cancel", "review"}
    BY <2>1
  <2>2. CASE place \notin {"cancel", "review"}
    <3> HIDE DEF q
    <3> QED BY <1>1, <1>2, <2>2 DEF WorkerOK, ItemPlaces
  <2> QED BY <2>1, <2>2
<1> QED BY <1>1, <1>2, <1>3, <1>4 DEF ToPlace, Moved, Keeps

\* Idle, or with the run kept at the end of it.
LEMMA StopMoves == ASSUME Typing, NEW w \in Workers, NEW at \in {"end", "fail"},
                          \/ worker' = [worker EXCEPT ![w] = Idle] /\ w # Drain
                          \/ worker' = [worker EXCEPT ![w] =
                                          [Idle EXCEPT !.at = at, !.run = worker[w].run]]
  PROVE Stops(w)
<1> DEFINE q == [Idle EXCEPT !.at = at, !.run = worker[w].run]
<1>1. worker \in [Workers -> Worker] /\ worker[w] \in Worker /\ worker[w].run \in Runs \cup {0}
  BY WorkerIs DEF Typing
<1>2. /\ q \in Worker /\ q.at = at /\ q.hold = Name(None) /\ q.list = {} /\ q.run = worker[w].run
  BY <1>1, IdleOK DEF Worker, Places
<1>3. WorkerOK(q)
  <2> HIDE DEF q
  <2> QED BY <1>2 DEF WorkerOK, ItemPlaces, MakePlaces
<1>4. worker' = [worker EXCEPT ![w] = Idle] \/ worker' = [worker EXCEPT ![w] = q]
  OBVIOUS
<1> HIDE DEF q
<1>5. CASE worker' = [worker EXCEPT ![w] = Idle] /\ w # Drain
  BY <1>1, <1>5, IdleOK DEF Stops, Moved
<1>6. CASE worker' = [worker EXCEPT ![w] = q]
  BY <1>1, <1>2, <1>3, <1>6 DEF Stops, Moved
<1> QED BY <1>4, <1>5, <1>6 DEF q

\* Where an error goes.
LEMMA CatchMoves == ASSUME Typing, NEW w \in Workers, Catch(w),
                           worker[w].at \in ItemPlaces \cup {"list"}
  PROVE \/ Stops(w)
        \/ ToNext(w) /\ worker[w].at \in ItemPlaces /\ Phase(w) \notin {"closed", "reconcile"}
<1>1. CASE Phase(w) \in {"closed", "issues"}
  <2>1. worker' = [worker EXCEPT ![w] = [Idle EXCEPT !.at = "end", !.run = worker[w].run]]
    BY <1>1 DEF Catch
  <2> QED BY <2>1, StopMoves
<1>2. CASE Phase(w) \in {"programs", "direct", "publish"} /\ ~At(w, "list")
  <2>1. NextItem(w)
    BY <1>2 DEF Catch
  <2> QED BY <1>2, <2>1, NextItemMoves DEF At
<1>3. CASE /\ Phase(w) \notin {"closed", "issues"}
           /\ ~(Phase(w) \in {"programs", "direct", "publish"} /\ ~At(w, "list"))
  <2>1. Raise(w)
    BY <1>3 DEF Catch
  <2>2. CASE w = Drain
    <3>1. worker' = [worker EXCEPT ![w] = [Idle EXCEPT !.at = "fail", !.run = worker[w].run]]
      BY <2>1, <2>2 DEF Raise
    <3> QED BY <3>1, StopMoves
  <2>3. CASE w # Drain
    <3>1. worker' = [worker EXCEPT ![w] = Idle]
      BY <2>1, <2>3 DEF Raise
    <3> QED BY <2>3, <3>1, StopMoves
  <2> QED BY <2>2, <2>3
<1> QED BY <1>1, <1>2, <1>3
-------------------------------------------------------------------------------
(***************************************************************************)
(* Type correctness.                                                        *)
(***************************************************************************)
\* A task stays about its item.
TasksKept == \A t \in Tasks : task[t].raw # None => task'[t].raw = task[t].raw

LEMMA SnapKept ==
  ASSUME task \in [Tasks -> TaskRows], TasksKept, NEW s \in Snaps, SnapOK(s),
         s.id \in Raws \/ s = Name(None)
  PROVE  SnapOK(s)'
<1>1. s.row.task \in Tasks \cup {NoId} /\ NoId \notin Tasks
  BY NullIds DEF Snaps, Rows
<1>2. s = Name(None) => s.row.task = NoId
  BY NameOK
<1> QED BY <1>1, <1>2, NullIds DEF TasksKept, SnapOK

HistoryTyped ==
  /\ requests' \in 0 .. MaxRequests /\ faults' \in 0 .. MaxFaults
  /\ lost' \cup shared' \cup dropped' \subseteq Raws /\ stranded' \subseteq Runs
  /\ alone' \subseteq Workers
RunsTyped == /\ run' \in [Runs -> [type : RunTypes \cup {"none"}, st : RunStatus \cup {"none"}]]
             /\ QueueOK'

\* One worker moves, the rows it writes refer to tasks about their items.
LEMMA TypingFrom ==
  ASSUME Typing, NEW w \in Workers, Moved(w), HistoryTyped, RunsTyped, TasksKept,
         raw' \in [Raws -> Rows], task' \in [Tasks -> TaskRows],
         \A r \in Raws : raw'[r].task \in {raw[r].task, NoId} \/ task'[raw'[r].task].raw = r,
         \A s \in worker'[w].list \cup {worker'[w].hold} :
           s \in worker[w].list \cup {worker[w].hold} \/ SnapOK(s)',
         worker'[w].at = "link" => task'[worker'[w].made].raw = worker'[w].hold.id
  PROVE  Typing'
<1>t. TypeOK /\ HandsOK /\ worker \in [Workers -> Worker]
  BY DEF Typing
<1>1. \A r \in Raws : raw'[r].task # NoId => task'[raw'[r].task].raw = r
  <2>1. \A r \in Raws : raw[r].task \in Tasks \cup {NoId}
    BY <1>t DEF TypeOK, Rows
  <2> QED BY <1>t, <2>1, NullIds DEF TypeOK, TasksKept
<1>2. \A o \in Workers : At(o, "link")' => task'[worker'[o].made].raw = Item(o)'
  <2> SUFFICES ASSUME NEW o \in Workers, o # w, At(o, "link")
               PROVE  task'[worker[o].made].raw = Item(o)
    BY DEF Moved, At, Item
  <2>1. worker[o].made \in Tasks /\ Item(o) \in Raws
    BY WorkerIs DEF WorkerOK, At, Item, ItemPlaces
  <2> QED BY <1>t, <2>1, NullIds DEF TypeOK, TasksKept
<1>3. TypeOK'
  BY <1>1, <1>2 DEF TypeOK, HistoryTyped, RunsTyped
<1>4. HandsOK'
  <2>1. \A o \in Workers : \A s \in worker[o].list \cup {worker[o].hold} :
           s \in Snaps /\ (s.id \in Raws \/ s = Name(None)) /\ SnapOK(s)
    BY <1>t, WorkerIs DEF WorkerOK, HandsOK
  <2>2. \A o \in Workers : \A s \in worker[o].list \cup {worker[o].hold} : SnapOK(s)'
    BY <1>t, <2>1, SnapKept DEF TypeOK
  <2> QED BY <2>2 DEF HandsOK, Moved
<1>5. worker' \in [Workers -> Worker] /\ \A o \in Workers : WorkerOK(worker'[o])
  BY WorkerIs DEF Moved
<1> QED BY <1>3, <1>4, <1>5 DEF Typing, RunsTyped
-------------------------------------------------------------------------------
(***************************************************************************)
(* What the statements do.                                                  *)
(***************************************************************************)
\* What a query finds.
LEMMA ListIs ==
  ASSUME Typing, NEW phase \in PhaseNames, NEW seen \in SUBSET Raws
  PROVE  LET list == ListOf(phase, seen) IN
         /\ list \subseteq Snaps /\ \A s \in list : s.id \in Raws /\ SnapOK(s)
         /\ \A s, u \in list : s.id = u.id => s = u
         /\ phase \in {"closed", "reconcile"} => \A s \in list : s = Snap(s.id)
         /\ phase = "reconcile" => \A r \in Github : raw[r].task # NoId => Snap(r) \in list
         /\ phase \in {"score", "publish"}
              => \A s \in list : raw[s.id].st \in {"PENDING", "SCORED"}
         /\ phase = "direct" => \A s \in list : raw[s.id].task = NoId
<1> DEFINE list == ListOf(phase, seen)
<1>t. /\ raw \in [Raws -> Rows] /\ task \in [Tasks -> TaskRows] /\ Github \subseteq Raws
      /\ HackerOne \subseteq Raws
      /\ \A r \in Raws : raw[r].task # NoId => task[raw[r].task].raw = r
  BY DEF Typing, TypeOK, Raws
<1>s. \A r \in Raws : Snap(r) \in Snaps /\ Snap(r).id = r /\ SnapOK(Snap(r))
  BY <1>t, SnapIs DEF SnapOK
<1>n. \A r \in Raws : Name(r) \in Snaps /\ Name(r).id = r /\ SnapOK(Name(r))
  BY NameOK DEF SnapOK
<1>r. \A r \in Raws : RowOf(r) \in Snaps /\ RowOf(r).id = r /\ SnapOK(RowOf(r))
  BY <1>t, RowOfOK DEF SnapOK
<1>1. CASE phase = "closed"
  <2>1. list = {Snap(r) : r \in {x \in Github \ seen :
                              raw[x].st \in {"PENDING", "SCORING", "SCORED", "PUBLISHED"}}}
    BY <1>1 DEF ListOf
  <2> HIDE DEF list
  <2> QED BY <1>1, <1>t, <1>s, <2>1 DEF list
<1>2. CASE phase = "reconcile"
  <2>1. list = {Snap(r) : r \in {x \in Github : raw[x].task # NoId}}
    BY <1>2 DEF ListOf, Published
  <2> HIDE DEF list
  <2> QED BY <1>2, <1>t, <1>s, <2>1 DEF list
<1>3. CASE phase \in {"issues", "programs"}
  <2>1. list = {Name(r) : r \in seen}
    BY <1>3 DEF ListOf
  <2> HIDE DEF list
  <2> QED BY <1>3, <1>n, <2>1 DEF list
<1>4. CASE phase = "score"
  <2>1. list = {Name(r) : r \in {x \in Raws : raw[x].st = "PENDING"}}
    BY <1>4 DEF ListOf
  <2> HIDE DEF list
  <2> QED BY <1>4, <1>n, <2>1 DEF list
<1>5. CASE phase = "direct"
  <2>1. list = {RowOf(r) : r \in {x \in HackerOne :
                              raw[x].task = NoId /\ raw[x].st \in {"PENDING", "SCORED"}}}
    BY <1>5 DEF ListOf
  <2> HIDE DEF list
  <2> QED BY <1>5, <1>t, <1>r, <2>1 DEF list
<1>6. CASE phase = "publish"
  <2>1. list = {RowOf(r) : r \in {x \in Raws : raw[x].st = "SCORED" /\ raw[x].should = "yes"}}
    BY <1>6 DEF ListOf
  <2> HIDE DEF list
  <2> QED BY <1>6, <1>r, <2>1 DEF list
<1> QED BY <1>1, <1>2, <1>3, <1>4, <1>5, <1>6 DEF PhaseNames

LEMMA AnswersAre == ASSUME Typing, NEW w \in Workers PROVE Answers(w) \subseteq SUBSET Raws
<1>1. worker[w].seen \subseteq Raws /\ Github \subseteq Raws /\ HackerOne \subseteq Raws
  BY WorkerIs DEF Worker, Raws
<1> QED BY <1>1 DEF Answers

LEMMA ReadListIs == ASSUME Typing, NEW w \in Workers, ReadList(w)
  PROVE \E seen \in SUBSET Raws :
          /\ Moved(w) /\ worker'[w].at = "next" /\ worker'[w].hold = Name(None)
          /\ worker'[w].list = ListOf(Phase(w), seen) /\ Phase(w)' = Phase(w)
          /\ worker'[w].run = worker[w].run
          /\ shared' = shared \cup {r \in {s.id : s \in worker'[w].list} :
                                     \E o \in Workers \ {w} : r \in InHand(o)}
<1>1. PICK seen \in SUBSET Raws :
         /\ worker' = [worker EXCEPT ![w].at = "next", ![w].seen = seen,
                                     ![w].list = ListOf(Phase(w), seen)]
         /\ shared' = shared \cup
              {r \in {s.id : s \in ListOf(Phase(w), seen)} : \E o \in Workers \ {w} : r \in InHand(o)}
  BY AnswersAre DEF ReadList
<1> DEFINE list == ListOf(Phase(w), seen)
           q == [worker[w] EXCEPT !.at = "next", !.seen = seen, !.list = list]
<1>2. /\ worker \in [Workers -> Worker] /\ worker[w] \in Worker /\ WorkerOK(worker[w])
      /\ worker[w].at = "list"
  BY WorkerIs DEF Typing, ReadList, At
<1>3. Phase(w) \in PhaseNames /\ worker[w].todo # <<>>
  BY <1>2, PhaseIs
<1>4. /\ list \subseteq Snaps /\ \A s \in list : s.id \in Raws
      /\ \A s, u \in list : s.id = u.id => s = u
  BY <1>3, ListIs
<1> HIDE DEF list
<1>5. /\ q \in Worker /\ q.at = "next" /\ q.list = list /\ q.hold = worker[w].hold
      /\ q.todo = worker[w].todo /\ q.run = worker[w].run /\ q.made = worker[w].made
  BY <1>2, <1>4 DEF Worker, Places
<1>6. worker[w].hold = Name(None) /\ Name(None).id \notin Raws
  BY <1>2, NameOK, NullIds DEF WorkerOK, ItemPlaces
<1>7. worker' = [worker EXCEPT ![w] = q]
  BY <1>1, <1>2 DEF list
<1> HIDE DEF q
<1>8. WorkerOK(q)
  BY <1>3, <1>4, <1>5, <1>6 DEF WorkerOK, ItemPlaces, MakePlaces
<1>9. worker'[w] = q /\ Moved(w)
  BY <1>2, <1>5, <1>7, <1>8 DEF Moved
<1>10. Phase(w)' = Phase(w)
  BY <1>5, <1>9 DEF Phase
<1> QED BY <1>1, <1>5, <1>6, <1>9, <1>10 DEF list

LEMMA StepsAre ==
  ASSUME NEW phase \in PhaseNames, NEW s, NEW step \in Steps(phase, s)
  PROVE /\ step \in {"hide", "look", "lock", "create", "next", "cancel", "review"}
        /\ step = "lock" => phase = "score"
        /\ step = "create" => phase \in {"direct", "publish"}
        /\ step = "look" => phase \in {"issues", "programs"}
        /\ phase = "closed" => step = "hide"
        /\ step \in {"cancel", "review"} => phase = "reconcile"
        /\ phase = "reconcile" => step \in Reconcile(s)
<1>1. CASE phase = "closed"
  BY <1>1 DEF Steps
<1>2. CASE phase \in {"issues", "programs"}
  BY <1>2 DEF Steps
<1>3. CASE phase = "score"
  BY <1>3 DEF Steps
<1>4. CASE phase = "reconcile"
  BY <1>4 DEF Steps, Reconcile
<1>5. CASE phase \in {"direct", "publish"}
  <2>1. Steps(phase, s) = IF s.id \in HackerOne /\ s.row.task # NoId THEN {"next"} ELSE {"hide", "create"}
    BY <1>5 DEF Steps
  <2> QED BY <1>5, <2>1
<1> QED BY <1>1, <1>2, <1>3, <1>4, <1>5 DEF PhaseNames

LEMMA TakeIs == ASSUME Typing, NEW w \in Workers, Take(w)
  PROVE \E s \in worker[w].list : \E step \in Steps(Phase(w), s) :
          /\ Moved(w) /\ worker'[w].at = step /\ worker'[w].list = worker[w].list \ {s}
          /\ worker'[w].todo = worker[w].todo /\ worker'[w].run = worker[w].run
          /\ step = "next" => worker'[w].hold = Name(None)
          /\ step # "next" => worker'[w].hold.id = s.id /\ SnapOK(worker'[w].hold)
          /\ step # "next" /\ Phase(w) \in {"closed", "reconcile"} => worker'[w].hold = s
<1>0. PICK s \in worker[w].list : \E step \in Steps(Phase(w), s) :
         worker' = [worker EXCEPT ![w].at = step, ![w].list = @ \ {s},
                                  ![w].hold = IF step = "next" THEN Name(None)
                                              ELSE IF Phase(w) \in {"closed", "reconcile"} THEN s
                                              ELSE Name(s.id)]
  BY DEF Take
<1>1. PICK step \in Steps(Phase(w), s) :
         worker' = [worker EXCEPT ![w].at = step, ![w].list = @ \ {s},
                                  ![w].hold = IF step = "next" THEN Name(None)
                                              ELSE IF Phase(w) \in {"closed", "reconcile"} THEN s
                                              ELSE Name(s.id)]
  BY <1>0
<1> DEFINE hold == IF step = "next" THEN Name(None)
                   ELSE IF Phase(w) \in {"closed", "reconcile"} THEN s ELSE Name(s.id)
           q == [worker[w] EXCEPT !.at = step, !.list = @ \ {s}, !.hold = hold]
<1>2. /\ worker \in [Workers -> Worker] /\ worker[w] \in Worker /\ WorkerOK(worker[w])
      /\ worker[w].at = "next" /\ worker[w].list \in SUBSET Snaps /\ s \in Snaps
      /\ s.id \in Raws /\ SnapOK(s)
  BY WorkerIs DEF Typing, Take, At, WorkerOK, HandsOK
<1>3. Phase(w) \in PhaseNames /\ worker[w].todo # <<>>
  BY <1>2, PhaseIs
<1>4. /\ step \in {"hide", "look", "lock", "create", "next", "cancel", "review"}
      /\ step \in {"cancel", "review"} => Phase(w) = "reconcile"
      /\ Phase(w) = "reconcile" => step \in Reconcile(s)
      /\ step \in {"look", "lock", "create"} => Phase(w) \notin {"closed", "reconcile"}
  BY <1>3, StepsAre
<1>5. /\ hold \in Snaps /\ SnapOK(hold) /\ (step = "next" => hold = Name(None))
      /\ step # "next" => hold.id = s.id
      /\ step # "next" /\ Phase(w) \in {"closed", "reconcile"} => hold = s
  BY <1>2, NameOK DEF SnapOK
<1> HIDE DEF hold
<1>6. /\ q \in Worker /\ q.at = step /\ q.list = worker[w].list \ {s} /\ q.hold = hold
      /\ q.todo = worker[w].todo /\ q.run = worker[w].run /\ q.made = worker[w].made
  <2>1. worker[w].list \ {s} \in SUBSET Snaps
    BY <1>2
  <2>2. step \in Places
    BY <1>4 DEF Places, ItemPlaces
  <2> QED BY <1>2, <1>5, <2>1, <2>2 DEF Worker
<1>7. worker' = [worker EXCEPT ![w] = q]
  BY <1>1, <1>2 DEF hold
<1> HIDE DEF q
<1>8. WorkerOK(q)
  <2>1. step \in {"cancel", "review"} => hold = s
    BY <1>4, <1>5
  <2>2. step = "cancel" => /\ s.task.st \in {"OPEN", "REVIEWING"}
                           /\ s.task.claimed => s.task.st = "REVIEWING"
    BY <1>4 DEF Reconcile
  <2>3. step = "review" => s.task.st = "OPEN" /\ s.task.claimed
    BY <1>4 DEF Reconcile
  <2>4. /\ q.at \notin {"off", "end", "fail", "link"} /\ q.todo # <<>>
        /\ q.at \in ItemPlaces \cup {"next"} /\ (q.at \in ItemPlaces => q.hold.id \in Raws)
        /\ q.at \notin ItemPlaces => q.hold = Name(None)
    BY <1>2, <1>3, <1>4, <1>5, <1>6 DEF ItemPlaces
  <2>5. \A u \in q.list : u.id \in Raws \ {q.hold.id}
    BY <1>2, <1>5, <1>6, NameOK, NullIds DEF WorkerOK
  <2>6. \A t, u \in q.list : t.id = u.id => t = u
    BY <1>2, <1>6 DEF WorkerOK
  <2>7. q.at \in {"cancel", "review"} => Head(q.todo) = "reconcile"
    BY <1>4, <1>6 DEF Phase
  <2>8. q.at = "cancel" => /\ q.hold.task.st \in {"OPEN", "REVIEWING"}
                           /\ q.hold.task.claimed => q.hold.task.st = "REVIEWING"
                                                    /\ Head(q.todo) = "reconcile"
    <3> SUFFICES ASSUME q.at = "cancel"
                 PROVE  /\ q.hold.task.st \in {"OPEN", "REVIEWING"}
                        /\ q.hold.task.claimed => q.hold.task.st = "REVIEWING"
                                                 /\ Head(q.todo) = "reconcile"
      OBVIOUS
    <3>1. step = "cancel" /\ q.hold = s /\ Head(q.todo) = "reconcile"
      BY <1>6, <2>1, <2>7
    <3> QED BY <2>2, <3>1
  <2>9. q.at = "review" => q.hold.task.st = "OPEN" /\ q.hold.task.claimed
    BY <1>6, <2>1, <2>3
  <2>10. q.at \in MakePlaces => Head(q.todo) \notin {"closed", "reconcile"}
    BY <1>4, <1>6 DEF Phase, MakePlaces
  <2> QED BY <2>4, <2>5, <2>6, <2>8, <2>9, <2>10 DEF WorkerOK
<1>9. worker'[w] = q /\ Moved(w)
  BY <1>2, <1>6, <1>7, <1>8 DEF Moved
<1> QED BY <1>5, <1>6, <1>9

LEMMA EndPhaseIs == ASSUME Typing, NEW w \in Workers, EndPhase(w)
  PROVE /\ Moved(w) /\ worker'[w].at \in {"end", "list"} /\ worker'[w].list = {}
        /\ worker'[w].hold = Name(None) /\ worker'[w].run = worker[w].run
<1> DEFINE rest == Tail(worker[w].todo)
           seen == IF Phase(w) = "closed" THEN worker[w].seen ELSE {}
           at == IF rest = <<>> THEN "end" ELSE "list"
           q == [worker[w] EXCEPT !.todo = rest, !.seen = seen, !.at = at]
<1>1. /\ worker \in [Workers -> Worker] /\ worker[w] \in Worker /\ WorkerOK(worker[w])
      /\ worker[w].at = "next" /\ worker[w].list = {}
  BY WorkerIs DEF Typing, EndPhase, At
<1>2. rest \in Seq(PhaseNames) /\ seen \in SUBSET Raws /\ at \in Places
      /\ at \in {"end", "list"} /\ (at = "list" => rest # <<>>)
  BY <1>1, WorkerIs, PhaseIs DEF Worker, Places
<1>3. worker' = [worker EXCEPT ![w] = q]
  BY <1>1 DEF EndPhase
<1> HIDE DEF rest, seen, at
<1>4. /\ q \in Worker /\ q.at = at /\ q.list = {} /\ q.hold = worker[w].hold
      /\ q.todo = rest /\ q.run = worker[w].run
  BY <1>1, <1>2 DEF Worker
<1>5. worker[w].hold = Name(None)
  BY <1>1 DEF WorkerOK, ItemPlaces
<1> HIDE DEF q
<1>6. WorkerOK(q)
  BY <1>2, <1>4, <1>5 DEF WorkerOK, ItemPlaces, MakePlaces
<1> QED BY <1>1, <1>2, <1>3, <1>4, <1>5, <1>6 DEF Moved
-------------------------------------------------------------------------------
(***************************************************************************)
(* What most steps of a worker have in common: it keeps what it has in hand *)
(* or gives some of it back, no row changes its task, no task its item, and *)
(* what is being scored stays in hand.                                     *)
(***************************************************************************)
Shrinks(w) ==
  /\ worker'[w].list \subseteq worker[w].list
  /\ worker'[w].list # {} => worker'[w].todo = worker[w].todo
  /\ \/ worker'[w].hold = Name(None)
     \/ worker'[w].hold.id \in InHand(w) /\ SnapOK(worker[w].hold)'
  /\ worker'[w].at # "link" /\ (At(w, "link") => Item(w) \in lost')
  /\ worker'[w].at = "store" => worker'[w].hold.row.task = raw[worker'[w].hold.id].task
  /\ worker'[w].at \in {"lock", "score", "failed", "create"} => ForTask(w, worker'[w].hold.id)

Scoring(v, r) == v.hold.id = r /\ v.at \in {"score", "failed"}

RowsMove(w) ==
  \A r \in Raws :
    /\ raw'[r].task = raw[r].task
    /\ \/ raw'[r].st = raw[r].st
       \/ /\ r = Item(w)
          /\ raw'[r].st \in {"PENDING", "SCORING", "SCORED"} => r \in shared \/ raw[r].task = NoId
          /\ raw'[r].st = "SCORING" => r \in dropped' \/ Scoring(worker'[w], r)
    /\ Scoring(worker[w], r) /\ raw'[r].st = "SCORING" => r \in dropped' \/ Scoring(worker'[w], r)

Statement(w) ==
  /\ Moved(w) /\ HistoryTyped /\ RunsTyped
  /\ raw' \in [Raws -> Rows] /\ task' \in [Tasks -> TaskRows]
  /\ shared' = shared /\ lost \subseteq lost' /\ dropped \subseteq dropped'
  /\ \A t \in Tasks : task'[t].raw = task[t].raw
  /\ RowsMove(w)
  /\ worker'[w] = worker[w] \/ Shrinks(w)

LEMMA StatementTyping == ASSUME Typing, NEW w \in Workers, Statement(w) PROVE Typing'
<1>1. TasksKept
  BY DEF Statement, TasksKept
<1>2. \A r \in Raws : raw'[r].task \in {raw[r].task, NoId} \/ task'[raw'[r].task].raw = r
  BY DEF Statement, RowsMove
<1>3. SnapOK(Name(None))'
  BY NameOK DEF SnapOK
<1>4. /\ \A s \in worker'[w].list \cup {worker'[w].hold} :
            s \in worker[w].list \cup {worker[w].hold} \/ SnapOK(s)'
      /\ worker'[w].at = "link" => task'[worker'[w].made].raw = worker'[w].hold.id
  <2>1. CASE worker'[w] = worker[w]
    <3>1. worker[w].at = "link" => worker[w].made \in Tasks /\ task[worker[w].made].raw = worker[w].hold.id
      BY WorkerIs DEF Typing, TypeOK, At, Item, WorkerOK
    <3>2. worker[w].at = "link" => task'[worker[w].made].raw = worker[w].hold.id
      BY <3>1 DEF Statement
    <3> QED BY <2>1, <3>2
  <2>2. CASE Shrinks(w)
    <3>1. SnapOK(worker[w].hold)'
      BY <1>3, <2>2 DEF Shrinks
    <3>2. worker'[w].list \subseteq worker[w].list /\ worker'[w].at # "link"
      BY <2>2 DEF Shrinks
    <3> QED BY <3>1, <3>2
  <2> QED BY <2>1, <2>2 DEF Statement
<1> QED BY <1>1, <1>2, <1>4, TypingFrom DEF Statement

LEMMA StatementScoring == ASSUME Typing, ScoringInHand, NEW w \in Workers, Statement(w)
  PROVE ScoringInHand'
<1> SUFFICES ASSUME NEW r \in Raws, r \notin dropped', raw'[r].st = "SCORING"
             PROVE  \E o \in Workers : Scoring(worker'[o], r)
  BY DEF ScoringInHand, Scoring, Item
<1>1. CASE raw[r].st = "SCORING"
  <2>1. PICK o \in Workers : Scoring(worker[o], r)
    BY <1>1 DEF ScoringInHand, Scoring, Item, Statement
  <2>2. CASE o = w
    BY <2>1, <2>2 DEF Statement, RowsMove
  <2>3. CASE o # w
    BY <2>1, <2>3 DEF Statement, Moved
  <2> QED BY <2>2, <2>3
<1>2. CASE raw[r].st # "SCORING"
  BY <1>2 DEF Statement, RowsMove
<1> QED BY <1>1, <1>2

LEMMA StatementOneTask == ASSUME Typing, OneTask, NEW w \in Workers, Statement(w)
  PROVE OneTask'
<1>1. \A o \in Workers, r \in Raws : r \in InHand(o)' => r \in InHand(o)
  <2> SUFFICES ASSUME NEW r \in Raws, r \in InHand(w)' PROVE r \in InHand(w)
    BY DEF Statement, Moved, InHand, Item
  <2>1. CASE worker'[w] = worker[w]
    BY <2>1 DEF InHand, Item
  <2>2. CASE Shrinks(w)
    BY <2>2, NameOK, NullIds DEF Shrinks, InHand, Item
  <2> QED BY <2>1, <2>2 DEF Statement
<1>2. \A o \in Workers, r \in Raws : ForTask(o, r)' => ForTask(o, r)
  <2> SUFFICES ASSUME NEW r \in Raws, ForTask(w, r)' PROVE ForTask(w, r)
    BY DEF Statement, Moved, ForTask, Item, Phase
  <2>1. CASE worker'[w] = worker[w]
    BY <2>1 DEF ForTask, Item, Phase
  <2>2. CASE Shrinks(w)
    <3>1. CASE r \in {s.id : s \in worker'[w].list} /\ Phase(w)' \in {"direct", "score", "publish"}
      BY <2>2, <3>1 DEF Shrinks, ForTask, Phase
    <3>2. CASE Item(w)' = r /\ worker'[w].at \in {"lock", "score", "failed", "create", "link"}
      BY <2>2, <3>2 DEF Shrinks, Item
    <3> QED BY <3>1, <3>2 DEF ForTask
  <2> QED BY <2>1, <2>2 DEF Statement
<1>3. ASSUME NEW r \in Raws \ shared PROVE ItemOK(r)'
  <2>i. ItemOK(r) /\ raw'[r].task = raw[r].task
    BY DEF OneTask, Statement, RowsMove
  <2>1. \A o, p \in Workers : r \in InHand(o)' /\ r \in InHand(p)' => o = p
    BY <1>1, <2>i DEF ItemOK
  <2>2. \A o \in Workers : ForTask(o, r)' => raw'[r].task = NoId
    BY <1>2, <2>i DEF ItemOK
  <2>3. ASSUME NEW o \in Workers, At(o, "store")', Item(o)' = r
        PROVE  worker'[o].hold.row.task = raw'[r].task
    <3>1. CASE worker'[o] = worker[o]
      BY <2>3, <2>i, <3>1 DEF ItemOK, At, Item
    <3>2. CASE o = w /\ Shrinks(w)
      BY <2>3, <2>i, <3>2 DEF Shrinks, At, Item
    <3> QED BY <3>1, <3>2 DEF Statement, Moved
  <2>4. raw'[r].st \in {"PENDING", "SCORING", "SCORED"} => raw'[r].task = NoId
    BY <2>i DEF ItemOK, Statement, RowsMove
  <2> QED BY <2>1, <2>2, <2>3, <2>4 DEF ItemOK
<1>4. ASSUME NEW r \in Raws \ (lost' \cup shared'), NEW t \in Tasks PROVE TaskKnown(r, t)'
  <2> SUFFICES ASSUME task'[t].raw = r
               PROVE  \/ raw'[r].task = t
                      \/ \E o \in Workers : At(o, "link")' /\ Item(o)' = r /\ worker'[o].made = t
    BY DEF TaskKnown
  <2>1. task[t].raw = r /\ raw'[r].task = raw[r].task /\ TaskKnown(r, t)
    BY DEF OneTask, Statement, RowsMove
  <2>2. CASE raw[r].task = t
    BY <2>1, <2>2
  <2>3. ASSUME NEW o \in Workers, At(o, "link"), Item(o) = r, worker[o].made = t
        PROVE  worker'[o] = worker[o]
    BY <2>3 DEF Statement, Moved, Shrinks
  <2> QED BY <2>1, <2>2, <2>3 DEF TaskKnown, At, Item
<1> QED BY <1>3, <1>4 DEF OneTask, Statement
-------------------------------------------------------------------------------
(***************************************************************************)
(* The rest of the invariant: the runs, and the undisturbed workers.        *)
(***************************************************************************)
RunKept(w) == /\ UNCHANGED <<run, stranded>> /\ (w = Drain => worker'[w].run = worker[w].run)
              /\ worker'[w] = worker[w] \/ ~At(w, "off")
RunOK == RunInHand /\ RunKnown
LEMMA RunFrom == ASSUME Typing, RunOK, NEW w \in Workers, Moved(w), RunKept(w)
  PROVE RunOK'
BY NullIds DEF RunOK, RunInHand, RunKnown, RunKept, Moved, At

\* The step leaves the rows and the tasks alone, or disturbs all the other workers.
Quiet(w) == \/ UNCHANGED <<raw, task>> /\ alone' \subseteq alone \cup {w}
            \/ alone' \subseteq {w}
LEMMA AloneFrom ==
  ASSUME Inv, NEW w \in Workers, Moved(w), Quiet(w), alone \subseteq Workers,
         w \in alone' => Fresh(w)' /\ Heals(w)'
  PROVE  \A o \in alone' : Fresh(o)' /\ Heals(o)'
<1> SUFFICES ASSUME NEW o \in Workers, o \in alone', o # w, UNCHANGED <<raw, task>>, o \in alone
             PROVE  Fresh(o)' /\ Heals(o)'
  BY DEF Quiet
<1>1. Fresh(o) /\ Heals(o) /\ worker'[o] = worker[o]
  BY DEF Inv, Moved
<1>2. \A s : Now(s)' <=> Now(s)
  BY DEF Now
<1>3. \A s : Snap(s)' = Snap(s)
  BY DEF Snap
<1>4. Fresh(o)'
  BY <1>1, <1>2, <1>3 DEF Fresh, Phase, At
<1>5. Heals(o)'
  BY <1>1 DEF Heals, Healed, Phase, At, Item, InHand
<1> QED BY <1>4, <1>5

LEMMA Whole ==
  ASSUME Inv, NEW w \in Workers, Statement(w), RunOK', Quiet(w),
         w \in alone' => Fresh(w)' /\ Heals(w)'
  PROVE  Inv'
<1>1. Typing /\ ScoringInHand /\ OneTask /\ alone \subseteq Workers /\ Moved(w)
  BY DEF Inv, Typing, TypeOK, Statement
<1> QED BY <1>1, StatementTyping, StatementScoring, StatementOneTask, AloneFrom DEF Inv, RunOK

LEMMA Away == ASSUME NEW w \in Workers, Moved(w), worker'[w].at \in {"off", "list", "end", "fail"}
  PROVE Fresh(w)' /\ Heals(w)'
BY DEF Moved, WorkerOK, Fresh, Heals, ItemPlaces, At

LEMMA Aside == ASSUME NEW w \in Workers, worker'[w].at \notin {"store", "cancel", "review"},
                      Phase(w)' \notin {"closed", "reconcile"}
  PROVE Fresh(w)' /\ Heals(w)'
BY DEF Fresh, Heals, At
-------------------------------------------------------------------------------
(***************************************************************************)
(* What the parts of a step are to it.                                      *)
(***************************************************************************)
LEMMA QuietTyped ==
  ASSUME Typing, NEW w \in Workers, UNCHANGED <<queue, history>>, alone' \subseteq alone \cup {w}
  PROVE  /\ HistoryTyped /\ RunsTyped
         /\ shared' = shared /\ lost \subseteq lost' /\ dropped \subseteq dropped'
BY DEF Typing, TypeOK, queue, history, HistoryTyped, RunsTyped, QueueOK

LEMMA RowsSame ==
  ASSUME Typing, NEW w \in Workers, UNCHANGED raw,
         \A r \in Raws : Scoring(worker[w], r) => r \in dropped' \/ Scoring(worker'[w], r)
  PROVE  raw' \in [Raws -> Rows] /\ RowsMove(w)
BY DEF Typing, TypeOK, RowsMove

LEMMA TasksSame == ASSUME Typing, UNCHANGED task
  PROVE task' \in [Tasks -> TaskRows] /\ \A t \in Tasks : task'[t].raw = task[t].raw
BY DEF Typing, TypeOK

LEMMA PutRows ==
  ASSUME Typing, NEW w \in Workers, NEW st \in RawStatus, NEW should \in {"yes", "no", "unknown"},
         Put(w, st, should), Item(w) \in Raws
  PROVE  /\ raw' \in [Raws -> Rows] /\ UNCHANGED <<task, queue, history>>
         /\ alone' = alone \cap {w}
         /\ raw'[Item(w)].st = st /\ raw'[Item(w)].should = should
         /\ raw'[Item(w)].task = raw[Item(w)].task
         /\ \A r \in Raws \ {Item(w)} : raw'[r] = raw[r]
<1> DEFINE q == [raw[Item(w)] EXCEPT !.st = st, !.should = should]
<1>1. raw \in [Raws -> Rows] /\ raw[Item(w)] \in Rows
  BY DEF Typing, TypeOK
<1>2. q \in Rows /\ q.st = st /\ q.should = should /\ q.task = raw[Item(w)].task
  BY <1>1 DEF Rows
<1>3. raw' = [raw EXCEPT ![Item(w)] = q]
  BY <1>1 DEF Put
<1> HIDE DEF q
<1> QED BY <1>1, <1>2, <1>3 DEF Put, Disturbs

\* A write of the row in hand is a statement if the row may have that status.
LEMMA PutMoves ==
  ASSUME Typing, NEW w \in Workers, NEW st \in RawStatus, NEW should \in {"yes", "no", "unknown"},
         Put(w, st, should), Item(w) \in Raws,
         st \in {"PENDING", "SCORING", "SCORED"} => Item(w) \in shared \/ raw[Item(w)].task = NoId,
         st = "SCORING" => Scoring(worker'[w], Item(w))
  PROVE  RowsMove(w)
BY PutRows DEF RowsMove, Scoring, Item

LEMMA SetTaskRows ==
  ASSUME Typing, NEW w \in Workers, NEW st \in {"CANCELLED", "REVIEWING"}, SetTask(w, st)
  PROVE  LET t == worker[w].hold.row.task IN
         /\ UNCHANGED <<raw, queue, history>> /\ task' \in [Tasks -> TaskRows]
         /\ alone' = alone \cap {w}
         /\ \A u \in Tasks : task'[u].raw = task[u].raw /\ task'[u].claimed = task[u].claimed
         /\ \A u \in Tasks \ {t} : task'[u] = task[u]
         /\ t \in Tasks => task'[t].st = st
<1> DEFINE t == worker[w].hold.row.task
           q == [task[t] EXCEPT !.st = st]
<1>1. task \in [Tasks -> TaskRows]
  BY DEF Typing, TypeOK
<1>2. task' = [task EXCEPT ![t] = q]
  BY DEF SetTask
<1>3. CASE t \in Tasks
  <2>1. q \in TaskRows /\ q.st = st /\ q.raw = task[t].raw /\ q.claimed = task[t].claimed
    BY <1>1, <1>3 DEF TaskRows
  <2> HIDE DEF q, t
  <2>2. task' \in [Tasks -> TaskRows] /\ task'[t] = q /\ \A u \in Tasks \ {t} : task'[u] = task[u]
    BY <1>1, <1>2, <1>3, <2>1
  <2> QED BY <1>3, <2>1, <2>2 DEF SetTask, Disturbs, t
<1>4. CASE t \notin Tasks
  <2>1. task' = task
    BY <1>1, <1>2, <1>4
  <2> QED BY <1>1, <1>4, <2>1 DEF SetTask, Disturbs
<1> QED BY <1>3, <1>4
-------------------------------------------------------------------------------
(***************************************************************************)
(* Every step keeps the invariant: the loops.                               *)
(***************************************************************************)
LEMMA StepEndPhase == ASSUME Inv, NEW w \in Workers, EndPhase(w) PROVE Inv'
<1>1. /\ Typing /\ Moved(w) /\ worker'[w].list = {} /\ worker'[w].hold = Name(None)
      /\ worker'[w].run = worker[w].run /\ worker'[w].at \in {"end", "list"}
  BY EndPhaseIs DEF Inv
<1>2. /\ UNCHANGED <<raw, task, queue, history>> /\ alone' = alone \ {w} /\ worker[w].at = "next"
  BY DEF EndPhase, At
<1>3. Shrinks(w)
  BY <1>1, <1>2 DEF Shrinks, At
<1>4. RowsMove(w) /\ raw' \in [Raws -> Rows]
  BY <1>1, <1>2, RowsSame DEF Scoring
<1>5. Statement(w)
  BY <1>1, <1>2, <1>3, <1>4, QuietTyped, TasksSame DEF Statement
<1>6. RunOK'
  BY <1>1, <1>2, RunFrom DEF Inv, RunOK, RunKept, At, ItemPlaces, queue, history
<1> QED BY <1>2, <1>5, <1>6, Whole DEF Quiet

\* A reconciliation leaves an item alone only when there is nothing to heal about it.
LEMMA SkippedIsHealed ==
  ASSUME Typing, NEW r \in Github, "next" \in Reconcile(Snap(r))
  PROVE  Healed(r)
<1>1. /\ raw \in [Raws -> Rows] /\ task \in [Tasks -> TaskRows] /\ r \in Raws
  BY DEF Typing, TypeOK, Raws
<1>2. Snap(r).row = raw[r] /\ (raw[r].task # NoId => Snap(r).task = task[raw[r].task])
  BY <1>1, SnapIs
<1> DEFINE s == Snap(r)
<1> HIDE DEF s
<1>3. s.row = raw[r] /\ (raw[r].task # NoId => s.task = task[raw[r].task]) /\ "next" \in Reconcile(s)
  BY <1>2 DEF s
<1>4. CASE s.task.st \notin {"OPEN", "REVIEWING"}
  BY <1>3, <1>4 DEF Healed
<1>5. CASE s.task.st \in {"OPEN", "REVIEWING"}
  <2>1. ~(s.row.st = "SKIPPED" \/ s.row.should = "no")
    BY <1>3, <1>5 DEF Reconcile
  <2> QED BY <1>3, <2>1 DEF Healed
<1> QED BY <1>4, <1>5

LEMMA StepTake == ASSUME Inv, NEW w \in Workers, Take(w) PROVE Inv'
<1>t. Typing /\ worker[w].at = "next" /\ worker[w].list \in SUBSET Snaps /\ WorkerOK(worker[w])
  BY WorkerIs DEF Inv, Take, At
<1>0. PICK s \in worker[w].list : \E step \in Steps(Phase(w), s) :
          /\ Moved(w) /\ worker'[w].at = step /\ worker'[w].list = worker[w].list \ {s}
          /\ worker'[w].todo = worker[w].todo /\ worker'[w].run = worker[w].run
          /\ step = "next" => worker'[w].hold = Name(None)
          /\ step # "next" => worker'[w].hold.id = s.id /\ SnapOK(worker'[w].hold)
          /\ step # "next" /\ Phase(w) \in {"closed", "reconcile"} => worker'[w].hold = s
  BY <1>t, TakeIs
<1>1. PICK step \in Steps(Phase(w), s) :
          /\ Moved(w) /\ worker'[w].at = step /\ worker'[w].list = worker[w].list \ {s}
          /\ worker'[w].todo = worker[w].todo /\ worker'[w].run = worker[w].run
          /\ step = "next" => worker'[w].hold = Name(None)
          /\ step # "next" => worker'[w].hold.id = s.id /\ SnapOK(worker'[w].hold)
          /\ step # "next" /\ Phase(w) \in {"closed", "reconcile"} => worker'[w].hold = s
  BY <1>0
<1>2. UNCHANGED <<raw, task, queue, history, alone>>
  BY DEF Take
<1>3. Phase(w) \in PhaseNames /\ Phase(w)' = Phase(w) /\ s.id \in Raws /\ s.id # worker[w].hold.id
  BY <1>t, <1>1, PhaseIs DEF Phase, WorkerOK
<1>4. /\ step \in {"hide", "look", "lock", "create", "next", "cancel", "review"}
      /\ step = "lock" => Phase(w) = "score"
      /\ step = "create" => Phase(w) \in {"direct", "publish"}
      /\ Phase(w) = "closed" => step = "hide"
      /\ step \in {"cancel", "review"} => Phase(w) = "reconcile"
      /\ Phase(w) = "reconcile" => step \in Reconcile(s)
  BY <1>3, StepsAre
<1>5. SnapOK(worker[w].hold)' \/ step = "next"
  BY <1>1, <1>2 DEF SnapOK
<1>6. Shrinks(w)
  BY <1>t, <1>1, <1>4, <1>5 DEF Shrinks, InHand, ForTask, At
<1>7. RowsMove(w) /\ raw' \in [Raws -> Rows]
  BY <1>t, <1>2, RowsSame DEF Scoring
<1>8. Statement(w)
  BY <1>t, <1>1, <1>2, <1>6, <1>7, QuietTyped, TasksSame DEF Statement
<1>9. RunOK'
  BY <1>t, <1>1, <1>2, RunFrom DEF Inv, RunOK, RunKept, At, ItemPlaces, queue, history
<1>10. ASSUME w \in alone PROVE Fresh(w)' /\ Heals(w)'
  <2>1. Fresh(w) /\ Heals(w)
    BY <1>10 DEF Inv
  <2>2. CASE Phase(w) \notin {"closed", "reconcile"}
    BY <2>2, <1>1, <1>3, <1>4, Aside
  <2>3. CASE Phase(w) \in {"closed", "reconcile"}
    <3>1. /\ s = Snap(s.id) /\ \A u \in worker[w].list : u = Snap(u.id)
      BY <2>1, <2>3 DEF Fresh
    <3>2. \A r : Snap(r)' = Snap(r)
      BY <1>2 DEF Snap
    <3>3. /\ s.row = raw[s.id]
          /\ s.task = IF raw[s.id].task = NoId THEN NoTask ELSE task[raw[s.id].task]
      BY <1>t, <1>3, <3>1, SnapIs DEF Typing, TypeOK
    <3>4. Now(s)'
      BY <1>2, <3>3 DEF Now
    <3>5. step # "next" => Now(worker[w].hold)'
      <4> SUFFICES ASSUME step # "next" PROVE Now(worker[w].hold)'
        OBVIOUS
      <4>1. worker'[w].hold = s
        BY <1>1, <2>3
      <4> QED BY <4>1, <3>4 DEF Now
    <3>6. Fresh(w)'
      BY <1>1, <1>3, <1>4, <3>1, <3>2, <3>5 DEF Fresh, At
    <3>7. ASSUME Phase(w) = "reconcile" PROVE \A r \in Github : Healed(r)' \/ r \in InHand(w)'
      <4> SUFFICES ASSUME NEW r \in Github, r \notin InHand(w)' PROVE Healed(r)
        BY <1>2 DEF Healed
      <4>1. Healed(r) \/ r \in InHand(w)
        BY <1>t, <2>1, <3>7 DEF Heals
      <4>2. CASE r = s.id
        <5>1. step = "next"
          BY <1>1, <4>2 DEF InHand, Item
        <5>2. "next" \in Reconcile(Snap(r))
          BY <1>4, <3>1, <3>7, <4>2, <5>1
        <5> QED BY <1>t, <5>2, SkippedIsHealed
      <4>3. CASE r # s.id /\ r \in InHand(w)
        <5>1. r = worker[w].hold.id
          BY <1>1, <4>3 DEF InHand, Item
        <5>2. worker[w].hold = Name(None) /\ r \in Raws
          BY <1>t DEF WorkerOK, ItemPlaces, Raws
        <5> QED BY <5>1, <5>2, NameOK, NullIds
      <4> QED BY <4>1, <4>2, <4>3
    <3>8. Heals(w)'
      <4> SUFFICES ASSUME Phase(w) = "reconcile" PROVE Heals(w)'
        BY <1>3 DEF Heals
      <4>1. step \in {"cancel", "review", "next"}
        BY <1>4 DEF Reconcile
      <4>2. step # "next" => worker'[w].hold = s /\ Item(w)' = s.id
        BY <1>1, <2>3 DEF Item
      <4>3. step # "next" => worker'[w].hold.row = raw'[Item(w)']
        BY <1>2, <3>3, <4>2
      <4>4. step # "next" => (worker[w].hold.row = raw[Item(w)])'
        BY <4>3
      <4> QED BY <1>1, <3>7, <4>1, <4>4 DEF Heals, At
    <3> QED BY <3>6, <3>8
  <2> QED BY <2>2, <2>3
<1> QED BY <1>2, <1>8, <1>9, <1>10, Whole DEF Quiet
-------------------------------------------------------------------------------
(***************************************************************************)
(* Every step keeps the invariant: the statements about one item.           *)
(***************************************************************************)
LEMMA Ordinary ==
  ASSUME Inv, NEW w \in Workers, ~At(w, "off"), Moved(w), Shrinks(w), RowsMove(w), raw' \in [Raws -> Rows],
         task' \in [Tasks -> TaskRows], \A t \in Tasks : task'[t].raw = task[t].raw,
         UNCHANGED <<queue, history>>, Quiet(w), w = Drain => worker'[w].run = worker[w].run,
         w \in alone' => Fresh(w)' /\ Heals(w)'
  PROVE  Inv'
<1>1. Typing /\ alone \subseteq Workers /\ (alone' \subseteq alone \cup {w} \/ alone' \subseteq {w})
  BY DEF Inv, Typing, TypeOK, Quiet
<1>2. alone' \subseteq Workers
  BY DEF Inv, Typing, TypeOK, Quiet
<1>3. HistoryTyped /\ RunsTyped
  BY <1>2 DEF Inv, Typing, TypeOK, queue, history, HistoryTyped, RunsTyped, QueueOK
<1>4. Statement(w)
  BY <1>3 DEF Statement, history
<1>5. RunOK'
  BY RunFrom DEF Inv, RunOK, RunKept, At, ItemPlaces, queue, history
<1> QED BY <1>4, <1>5, Whole

LEMMA InItem == ASSUME Typing, NEW w \in Workers, worker[w].at \in ItemPlaces
  PROVE /\ Item(w) \in Raws /\ Phase(w) \in PhaseNames
        /\ worker[w].at \in MakePlaces => Phase(w) \notin {"closed", "reconcile"}
BY WorkerIs, PhaseIs DEF WorkerOK, ItemPlaces, Item, Phase

LEMMA StepLook == ASSUME Inv, NEW w \in Workers, Look(w) PROVE Inv'
<1> DEFINE hold == Snap(Item(w))
           q == [worker[w] EXCEPT !.at = "store", !.hold = hold]
<1>1. /\ Typing /\ worker \in [Workers -> Worker] /\ worker[w] \in Worker /\ WorkerOK(worker[w])
      /\ worker[w].at = "look" /\ raw \in [Raws -> Rows] /\ task \in [Tasks -> TaskRows]
      /\ UNCHANGED <<raw, task, queue, history>> /\ alone' = alone \cup {w}
      /\ \A r \in Raws : raw[r].task # NoId => task[raw[r].task].raw = r
  BY WorkerIs DEF Inv, Typing, TypeOK, Look, At
<1>2. Item(w) \in Raws /\ Phase(w) \notin {"closed", "reconcile"}
  BY <1>1, InItem DEF ItemPlaces, MakePlaces
<1>3. /\ hold \in Snaps /\ hold.id = Item(w) /\ hold.row = raw[Item(w)]
      /\ hold.task = IF raw[Item(w)].task = NoId THEN NoTask ELSE task[raw[Item(w)].task]
  BY <1>1, <1>2, SnapIs
<1>4. worker' = [worker EXCEPT ![w] = q]
  BY <1>1 DEF Look
<1> HIDE DEF hold
<1>5. /\ q \in Worker /\ q.at = "store" /\ q.hold = hold /\ q.list = worker[w].list
      /\ q.todo = worker[w].todo /\ q.run = worker[w].run
  BY <1>1, <1>3 DEF Worker, Places, ItemPlaces
<1> HIDE DEF q
<1>6. WorkerOK(q)
  BY <1>1, <1>2, <1>3, <1>5 DEF WorkerOK, ItemPlaces, MakePlaces, Item
<1>7. worker'[w] = q /\ Moved(w)
  BY <1>1, <1>4, <1>5, <1>6 DEF Moved
<1>8. Shrinks(w)
  <2>1. SnapOK(worker[w].hold)'
    <3>1. worker'[w].hold = hold
      BY <1>5, <1>7
    <3> QED BY <1>1, <1>2, <1>3, <3>1 DEF SnapOK
  <2> QED BY <1>1, <1>3, <1>5, <1>7, <2>1 DEF Shrinks, At, InHand
<1>9. RowsMove(w)
  BY <1>1, RowsSame DEF Scoring
<1>10. Phase(w)' \notin {"closed", "reconcile"}
  BY <1>2, <1>5, <1>7 DEF Phase
<1>11. Fresh(w)' /\ Heals(w)'
  <2>1. Now(worker[w].hold)'
    <3>1. worker'[w].hold = hold
      BY <1>5, <1>7
    <3> QED BY <1>1, <1>3, <3>1 DEF Now
  <2> QED BY <1>10, <2>1 DEF Fresh, Heals
<1> QED BY <1>1, <1>5, <1>7, <1>8, <1>9, <1>11, TasksSame, Ordinary DEF Quiet, At

\* A worker that gives an item up, or is done with it, without a write to its row.
LEMMA Gives ==
  ASSUME Inv, NEW w \in Workers, ToNext(w) \/ Stops(w), RowsMove(w), raw' \in [Raws -> Rows],
         task' \in [Tasks -> TaskRows], \A t \in Tasks : task'[t].raw = task[t].raw,
         UNCHANGED <<queue, history>>, ~At(w, "link"), ~At(w, "off"), Quiet(w),
         Phase(w) \notin {"closed", "reconcile"} \/ Stops(w) \/ (w \in alone' => Fresh(w)' /\ Heals(w)')
  PROVE  Inv'
<1>1. Moved(w) /\ Shrinks(w) /\ (w = Drain => worker'[w].run = worker[w].run)
  BY DEF ToNext, Stops, Shrinks, Keeps
<1>2. w \in alone' => Fresh(w)' /\ Heals(w)'
  <2>1. CASE Stops(w)
    BY <2>1, Away DEF Stops
  <2>2. CASE ToNext(w) /\ Phase(w) \notin {"closed", "reconcile"}
    BY <2>2, Aside DEF ToNext, Keeps, Phase
  <2> QED BY <2>1, <2>2
<1> QED BY <1>1, <1>2, Ordinary

LEMMA StepReuse == ASSUME Inv, NEW w \in Workers, Reuse(w) PROVE Inv'
<1>1. /\ Typing /\ worker[w].at = "store" /\ NextItem(w)
      /\ UNCHANGED <<raw, task, queue, history, alone>>
  BY DEF Inv, Reuse, At
<1>2. ToNext(w) /\ Phase(w) \notin {"closed", "reconcile"}
  BY <1>1, NextItemMoves, InItem DEF ItemPlaces, MakePlaces
<1>3. RowsMove(w) /\ raw' \in [Raws -> Rows]
  BY <1>1, RowsSame DEF Scoring
<1> QED BY <1>1, <1>2, <1>3, TasksSame, Gives DEF Quiet, At

\* Where two workers did not share the item, its row is as its worker read it.
LEMMA StoreKnows == ASSUME Inv, NEW w \in Workers, At(w, "store"), Item(w) \notin shared
  PROVE worker[w].hold.row.task = raw[Item(w)].task
BY InItem DEF Inv, OneTask, ItemOK, At, ItemPlaces

LEMMA StepStore == ASSUME Inv, NEW w \in Workers, Store(w) PROVE Inv'
<1>1. Typing /\ worker[w].at = "store" /\ NextItem(w) /\ At(w, "store")
  BY DEF Inv, Store, MayStore, At
<1>2. ToNext(w) /\ Phase(w) \notin {"closed", "reconcile"} /\ Item(w) \in Raws
  BY <1>1, NextItemMoves, InItem DEF ItemPlaces, MakePlaces
<1>3. CASE worker[w].hold.row.task = NoId
  <2>1. Put(w, "PENDING", "unknown")
    BY <1>3 DEF Store
  <2>2. Item(w) \in shared \/ raw[Item(w)].task = NoId
    BY <1>1, <1>3, StoreKnows
  <2>3. RowsMove(w)
    BY <1>1, <1>2, <2>1, <2>2, PutMoves DEF RawStatus
  <2>4. /\ raw' \in [Raws -> Rows] /\ UNCHANGED <<task, queue, history>> /\ alone' = alone \cap {w}
    BY <1>1, <1>2, <2>1, PutRows DEF RawStatus
  <2> QED BY <1>1, <1>2, <2>3, <2>4, TasksSame, Gives DEF Quiet, At
<1>4. CASE worker[w].hold.row.task # NoId
  <2>1. UNCHANGED <<raw, task, queue, history>> /\ alone' = alone \cap {w}
    BY <1>4 DEF Store, Disturbs
  <2>2. RowsMove(w) /\ raw' \in [Raws -> Rows]
    BY <1>1, <2>1, RowsSame DEF Scoring
  <2> QED BY <1>1, <1>2, <2>1, <2>2, TasksSame, Gives DEF Quiet, At
<1> QED BY <1>3, <1>4

\* What an undisturbed worker knows of the items it does not touch stays so.
Rest(w) == \A r \in Raws \ {Item(w)} :
  raw'[r] = raw[r] /\ (raw[r].task # NoId => task'[raw[r].task] = task[raw[r].task])

LEMMA FreshRest == ASSUME Typing, NEW w \in Workers, Fresh(w), Rest(w), Keeps(w)
  PROVE \A s \in worker'[w].list : Phase(w)' \in {"closed", "reconcile"} => s = Snap(s.id)'
<1> SUFFICES ASSUME NEW s \in worker[w].list, s = Snap(s.id) PROVE s = Snap(s.id)'
  BY DEF Fresh, Keeps, Phase
<1>1. s.id \in Raws \ {Item(w)}
  BY WorkerIs DEF WorkerOK, Item
<1> QED BY <1>1 DEF Rest, Snap

LEMMA HealsRest ==
  ASSUME Typing, NEW w \in Workers, Heals(w), Rest(w), Keeps(w), worker[w].at \in ItemPlaces,
         Phase(w) = "reconcile", \A r \in Github : r = Item(w) => r \in InHand(w)' \/ Healed(r)'
  PROVE  \A r \in Github : Healed(r)' \/ r \in InHand(w)'
<1> SUFFICES ASSUME NEW r \in Github PROVE Healed(r)' \/ r \in InHand(w)'
  OBVIOUS
<1>1. CASE r = Item(w)
  BY <1>1
<1>2. CASE r # Item(w)
  <2>1. Healed(r) \/ r \in {s.id : s \in worker[w].list}
    BY <1>2 DEF Heals, InHand
  <2>2. Healed(r) => Healed(r)'
    BY <1>2 DEF Rest, Healed, Raws
  <2> QED BY <2>1, <2>2 DEF Keeps, InHand
<1> QED BY <1>1, <1>2

LEMMA CancelMoves ==
  ASSUME Typing, NEW w \in Workers, Go(w, "cancel"), worker[w].at \in {"store", "hide"},
         Unclaimed(worker[w].hold)
  PROVE  ToPlace(w, "cancel")
<1> DEFINE q == [worker[w] EXCEPT !.at = "cancel"]
<1>1. worker[w] \in Worker /\ WorkerOK(worker[w])
  BY WorkerIs
<1>2. /\ q.at = "cancel" /\ q.hold = worker[w].hold /\ q.made = worker[w].made
      /\ q.list = worker[w].list /\ q.todo = worker[w].todo /\ q.run = worker[w].run
  BY <1>1 DEF Worker
<1> HIDE DEF q
<1>3. q.hold.task.st \in {"OPEN", "REVIEWING"} /\ ~q.hold.task.claimed
  BY <1>2 DEF Unclaimed
<1>4. WorkerOK(q)
  BY <1>1, <1>2, <1>3 DEF WorkerOK, ItemPlaces, MakePlaces
<1> QED BY <1>4, GoMoves DEF q, ItemPlaces, MakePlaces

\* It goes on with the same item.
LEMMA Stays ==
  ASSUME Inv, NEW w \in Workers, NEW place \in ItemPlaces \ {"link", "store"}, ToPlace(w, place),
         ~At(w, "link"), worker[w].at \in ItemPlaces,
         place \in {"lock", "score", "failed", "create"} => ForTask(w, Item(w)),
         RowsMove(w), raw' \in [Raws -> Rows],
         task' \in [Tasks -> TaskRows], \A t \in Tasks : task'[t].raw = task[t].raw,
         UNCHANGED <<queue, history>>, Quiet(w), w \in alone' => Fresh(w)' /\ Heals(w)'
  PROVE  Inv'
<1>1. worker'[w].hold = worker[w].hold /\ Moved(w) /\ Keeps(w) /\ worker'[w].at = place
  BY DEF ToPlace
<1>2. SnapOK(worker[w].hold)'
  <2>1. SnapOK(worker[w].hold) /\ worker[w].hold.row.task \in Tasks \cup {NoId}
    BY WorkerIs DEF Inv, Typing, HandsOK, Snaps, Rows
  <2> QED BY <1>1, <2>1 DEF SnapOK
<1>3. Shrinks(w)
  BY <1>1, <1>2 DEF Shrinks, Keeps, InHand, Item
<1> QED BY <1>1, <1>3, Ordinary DEF Keeps, At, ItemPlaces

LEMMA StepStoreSkipped == ASSUME Inv, NEW w \in Workers, StoreSkipped(w) PROVE Inv'
<1>1. /\ Typing /\ worker[w].at = "store" /\ Put(w, "SKIPPED", "no")
      /\ IF Unclaimed(worker[w].hold) THEN Go(w, "cancel") ELSE NextItem(w)
  BY DEF Inv, StoreSkipped, MayStore, At
<1>2. Phase(w) \notin {"closed", "reconcile"} /\ Item(w) \in Raws
  BY <1>1, InItem DEF ItemPlaces, MakePlaces
<1>3. RowsMove(w)
  BY <1>1, <1>2, PutMoves DEF RawStatus
<1>4. /\ raw' \in [Raws -> Rows] /\ UNCHANGED <<task, queue, history>> /\ alone' = alone \cap {w}
  BY <1>1, <1>2, PutRows DEF RawStatus
<1>5. CASE Unclaimed(worker[w].hold)
  <2>1. ToPlace(w, "cancel")
    BY <1>1, <1>5, CancelMoves
  <2>2. worker'[w].hold = worker[w].hold /\ worker'[w].at = "cancel" /\ Phase(w)' = Phase(w)
    BY <2>1 DEF ToPlace, Keeps, Phase
  <2>3. ASSUME w \in alone PROVE Fresh(w)' /\ Heals(w)'
    <3>1. Now(worker[w].hold)'
      BY <1>1, <1>4, <2>2, <2>3 DEF Inv, Fresh, Now
    <3> QED BY <1>2, <2>2, <3>1 DEF Fresh, Heals
  <2> QED BY <1>1, <1>3, <1>4, <2>1, <2>3, TasksSame, Stays DEF Quiet, At, ItemPlaces
<1>6. CASE ~Unclaimed(worker[w].hold)
  <2>1. ToNext(w)
    BY <1>1, <1>6, NextItemMoves DEF ItemPlaces
  <2> QED BY <1>1, <1>2, <1>3, <1>4, <2>1, TasksSame, Gives DEF Quiet, At
<1> QED BY <1>5, <1>6

LEMMA StepHide == ASSUME Inv, NEW w \in Workers, Hide(w) PROVE Inv'
<1>1. /\ Typing /\ worker[w].at = "hide" /\ Put(w, "SKIPPED", "no")
      /\ IF Phase(w) = "closed" /\ Unclaimed(worker[w].hold) THEN Go(w, "cancel") ELSE NextItem(w)
  BY DEF Inv, Hide, At
<1>2. Item(w) \in Raws
  BY <1>1, InItem DEF ItemPlaces
<1>3. RowsMove(w)
  BY <1>1, <1>2, PutMoves DEF RawStatus
<1>4. /\ raw' \in [Raws -> Rows] /\ UNCHANGED <<task, queue, history>> /\ alone' = alone \cap {w}
      /\ raw'[Item(w)].task = raw[Item(w)].task /\ Rest(w)
  BY <1>1, <1>2, PutRows DEF RawStatus, Rest
<1>5. CASE Phase(w) = "closed" /\ Unclaimed(worker[w].hold)
  <2>1. ToPlace(w, "cancel")
    BY <1>1, <1>5, CancelMoves
  <2>2. worker'[w].hold = worker[w].hold /\ worker'[w].at = "cancel" /\ Phase(w)' = Phase(w) /\ Keeps(w)
    BY <2>1 DEF ToPlace, Keeps, Phase
  <2>3. ASSUME w \in alone PROVE Fresh(w)' /\ Heals(w)'
    <3>1. Fresh(w)
      BY <2>3 DEF Inv
    <3>2. Now(worker[w].hold)'
      BY <1>1, <1>4, <1>5, <2>2, <3>1 DEF Fresh, Now, At
    <3>3. \A s \in worker'[w].list : Phase(w)' \in {"closed", "reconcile"} => s = Snap(s.id)'
      BY <1>1, <1>4, <2>2, <3>1, FreshRest
    <3> QED BY <1>5, <2>2, <3>2, <3>3 DEF Fresh, Heals
  <2> QED BY <1>1, <1>3, <1>4, <2>1, <2>3, TasksSame, Stays DEF Quiet, At, ItemPlaces
<1>6. CASE ~(Phase(w) = "closed" /\ Unclaimed(worker[w].hold))
  <2>1. ToNext(w)
    BY <1>1, <1>6, NextItemMoves DEF ItemPlaces
  <2>2. Keeps(w) /\ worker'[w].at = "next" /\ Phase(w)' = Phase(w)
    BY <2>1 DEF ToNext, Keeps, Phase
  <2>3. ASSUME w \in alone PROVE Fresh(w)' /\ Heals(w)'
    <3>1. Fresh(w) /\ Heals(w)
      BY <2>3 DEF Inv
    <3>2. \A s \in worker'[w].list : Phase(w)' \in {"closed", "reconcile"} => s = Snap(s.id)'
      BY <1>1, <1>4, <2>2, <3>1, FreshRest
    <3>3. ASSUME Phase(w) = "reconcile" PROVE \A r \in Github : Healed(r)' \/ r \in InHand(w)'
      <4>1. raw[Item(w)].task # NoId /\ task[raw[Item(w)].task].st = "CANCELLED"
        BY <1>1, <3>1, <3>3 DEF Heals, At, ItemPlaces
      <4>2. \A r \in Github : r = Item(w) => Healed(r)'
        BY <1>4, <4>1 DEF Healed
      <4> QED BY <1>1, <1>4, <2>2, <3>1, <3>3, <4>2, HealsRest DEF ItemPlaces
    <3> QED BY <2>2, <3>2, <3>3 DEF Fresh, Heals, At
  <2> QED BY <1>1, <1>3, <1>4, <2>1, <2>3, TasksSame, Gives DEF Quiet, At
<1> QED BY <1>5, <1>6

\* The task of the item in hand changes, the tasks of the other items do not.
LEMMA SetTaskMoves ==
  ASSUME Typing, NEW w \in Workers, NEW st \in {"CANCELLED", "REVIEWING"}, SetTask(w, st),
         worker[w].at \in ItemPlaces \ {"score", "failed"}
  PROVE  RowsMove(w) /\ raw' \in [Raws -> Rows] /\ Rest(w)
<1> DEFINE t == worker[w].hold.row.task
<1>1. /\ raw' = raw /\ \A u \in Tasks \ {t} : task'[u] = task[u]
  BY SetTaskRows
<1>2. /\ Item(w) \in Raws /\ SnapOK(worker[w].hold) /\ raw \in [Raws -> Rows]
      /\ \A r \in Raws : raw[r].task # NoId => task[raw[r].task].raw = r
  BY InItem DEF Typing, TypeOK, HandsOK
<1>3. ASSUME NEW r \in Raws \ {Item(w)}, raw[r].task # NoId PROVE task'[raw[r].task] = task[raw[r].task]
  <2>1. raw[r].task \in Tasks /\ raw[r].task # t
    BY <1>2, <1>3 DEF Rows, SnapOK, Item
  <2> QED BY <1>1, <2>1
<1>4. RowsMove(w)
  BY <1>1, RowsSame DEF Scoring
<1> QED BY <1>1, <1>2, <1>3, <1>4 DEF Rest

LEMMA StepCancel == ASSUME Inv, NEW w \in Workers, Cancel(w) PROVE Inv'
<1> DEFINE t == worker[w].hold.row.task
<1>1. /\ Typing /\ worker[w].at = "cancel" /\ SetTask(w, "CANCELLED")
      /\ IF Phase(w) = "reconcile" THEN Go(w, "hide") ELSE NextItem(w)
      /\ WorkerOK(worker[w]) /\ NoTask.st = "none"
  BY WorkerIs, NoTaskOK DEF Inv, Cancel, At
<1>2. Item(w) \in Raws
  BY <1>1, InItem DEF ItemPlaces
<1>3. RowsMove(w) /\ raw' \in [Raws -> Rows] /\ Rest(w)
  BY <1>1, SetTaskMoves DEF ItemPlaces
<1>4. /\ UNCHANGED <<raw, queue, history>> /\ task' \in [Tasks -> TaskRows] /\ alone' = alone \cap {w}
      /\ \A u \in Tasks : task'[u].raw = task[u].raw
      /\ t \in Tasks => task'[t].st = "CANCELLED"
  BY <1>1, SetTaskRows
<1>5. CASE Phase(w) = "reconcile"
  <2>1. ToPlace(w, "hide")
    BY <1>1, <1>5, GoMoves DEF ItemPlaces, MakePlaces
  <2>2. worker'[w].hold = worker[w].hold /\ worker'[w].at = "hide" /\ Phase(w)' = Phase(w) /\ Keeps(w)
    BY <2>1 DEF ToPlace, Keeps, Phase
  <2>3. ASSUME w \in alone PROVE Fresh(w)' /\ Heals(w)'
    <3>1. Fresh(w) /\ Heals(w) /\ Now(worker[w].hold) /\ worker[w].hold.row = raw[Item(w)]
      BY <1>1, <1>5, <2>3 DEF Inv, Fresh, Heals, ItemPlaces
    <3>2. \A s \in worker'[w].list : Phase(w)' \in {"closed", "reconcile"} => s = Snap(s.id)'
      BY <1>1, <1>3, <2>2, <3>1, FreshRest
    <3>3. \A r \in Github : r = Item(w) => r \in InHand(w)'
      BY <2>2 DEF InHand, Item
    <3>4. \A r \in Github : Healed(r)' \/ r \in InHand(w)'
      BY <1>1, <1>3, <1>5, <2>2, <3>1, <3>3, HealsRest DEF ItemPlaces
    <3>5. t \in Tasks
      <4>1. worker[w].hold.task.st \in {"OPEN", "REVIEWING"}
        BY <1>1 DEF WorkerOK
      <4>2. t \in Tasks \cup {NoId}
        BY <1>1, WorkerIs DEF Snaps, Rows
      <4> QED BY <1>1, <3>1, <4>1, <4>2 DEF Now
    <3>6. /\ worker'[w].hold.row = raw'[worker'[w].hold.id] /\ raw'[worker'[w].hold.id].task # NoId
          /\ task'[raw'[worker'[w].hold.id].task].st = "CANCELLED"
      BY <1>4, <2>2, <3>1, <3>5, NullIds DEF Item
    <3> QED BY <1>5, <2>2, <3>2, <3>4, <3>6 DEF Fresh, Heals, At, Item
  <2> QED BY <1>1, <1>3, <1>4, <2>1, <2>3, Stays DEF Quiet, At, ItemPlaces
<1>6. CASE Phase(w) # "reconcile"
  <2>1. ToNext(w)
    BY <1>1, <1>6, NextItemMoves DEF ItemPlaces
  <2>2. Keeps(w) /\ worker'[w].at = "next" /\ Phase(w)' = Phase(w)
    BY <2>1 DEF ToNext, Keeps, Phase
  <2>3. ASSUME w \in alone PROVE Fresh(w)' /\ Heals(w)'
    <3>1. Fresh(w)
      BY <2>3 DEF Inv
    <3>2. \A s \in worker'[w].list : Phase(w)' \in {"closed", "reconcile"} => s = Snap(s.id)'
      BY <1>1, <1>3, <2>2, <3>1, FreshRest
    <3> QED BY <1>6, <2>2, <3>2 DEF Fresh, Heals, At
  <2> QED BY <1>1, <1>3, <1>4, <2>1, <2>3, Gives DEF Quiet, At
<1> QED BY <1>5, <1>6

LEMMA StepReview == ASSUME Inv, NEW w \in Workers, Review(w) PROVE Inv'
<1> DEFINE t == worker[w].hold.row.task
<1>1. /\ Typing /\ worker[w].at = "review" /\ SetTask(w, "REVIEWING") /\ NextItem(w)
      /\ WorkerOK(worker[w]) /\ NoTask.st = "none"
  BY WorkerIs, NoTaskOK DEF Inv, Review, At
<1>2. RowsMove(w) /\ raw' \in [Raws -> Rows] /\ Rest(w)
  BY <1>1, SetTaskMoves DEF ItemPlaces
<1>3. /\ UNCHANGED <<raw, queue, history>> /\ task' \in [Tasks -> TaskRows] /\ alone' = alone \cap {w}
      /\ \A u \in Tasks : task'[u].raw = task[u].raw /\ task'[u].claimed = task[u].claimed
      /\ t \in Tasks => task'[t].st = "REVIEWING"
  BY <1>1, SetTaskRows
<1>4. ToNext(w)
  BY <1>1, NextItemMoves DEF ItemPlaces
<1>5. Keeps(w) /\ worker'[w].at = "next" /\ Phase(w)' = Phase(w)
  BY <1>4 DEF ToNext, Keeps, Phase
<1>6. ASSUME w \in alone PROVE Fresh(w)' /\ Heals(w)'
  <2>1. Fresh(w) /\ Heals(w) /\ Now(worker[w].hold)
    BY <1>1, <1>6 DEF Inv, Fresh
  <2>2. \A s \in worker'[w].list : Phase(w)' \in {"closed", "reconcile"} => s = Snap(s.id)'
    BY <1>1, <1>2, <1>5, <2>1, FreshRest
  <2>3. ASSUME Phase(w) = "reconcile" PROVE \A r \in Github : Healed(r)' \/ r \in InHand(w)'
    <3>1. worker[w].hold.row = raw[Item(w)]
      BY <1>1, <2>1, <2>3 DEF Heals, ItemPlaces
    <3>2. worker[w].hold.task.st = "OPEN" /\ worker[w].hold.task.claimed
      BY <1>1 DEF WorkerOK
    <3>3. t \in Tasks /\ task[t].claimed
      <4>1. t \in Tasks \cup {NoId}
        BY <1>1, WorkerIs DEF Snaps, Rows
      <4>2. t # NoId
        BY <1>1, <2>1, <3>2 DEF Now
      <4>3. worker[w].hold.task = task[t]
        BY <2>1, <4>2 DEF Now
      <4> QED BY <4>1, <4>2, <4>3, <3>2
    <3>4. raw'[Item(w)].task = t /\ task'[t].st = "REVIEWING" /\ task'[t].claimed
      BY <1>3, <3>1, <3>3
    <3>5. \A r \in Github : r = Item(w) => Healed(r)'
      BY <3>4 DEF Healed
    <3> QED BY <1>1, <1>2, <1>5, <2>1, <2>3, <3>5, HealsRest DEF ItemPlaces
  <2> QED BY <1>5, <2>2, <2>3 DEF Fresh, Heals, At
<1> QED BY <1>1, <1>2, <1>3, <1>4, <1>6, Gives DEF Quiet, At

\* What is being scored or published has no task, where no other worker has it.
LEMMA MakerKnows ==
  ASSUME Inv, NEW w \in Workers, worker[w].at \in {"lock", "score", "failed", "create", "link"}
  PROVE  /\ Item(w) \in Raws /\ Phase(w) \notin {"closed", "reconcile"} /\ ForTask(w, Item(w))
         /\ Item(w) \in shared \/ raw[Item(w)].task = NoId
<1>1. Typing /\ Item(w) \in Raws /\ Phase(w) \notin {"closed", "reconcile"}
  BY InItem DEF Inv, ItemPlaces, MakePlaces
<1>2. ForTask(w, Item(w))
  BY DEF ForTask
<1> QED BY <1>1, <1>2 DEF Inv, OneTask, ItemOK

LEMMA StepLock == ASSUME Inv, NEW w \in Workers, Lock(w) PROVE Inv'
<1>1. /\ Typing /\ worker[w].at = "lock" /\ Put(w, "SCORING", raw[Item(w)].should) /\ Go(w, "score")
  BY DEF Inv, Lock, At
<1>2. /\ Item(w) \in Raws /\ Phase(w) \notin {"closed", "reconcile"} /\ ForTask(w, Item(w))
      /\ Item(w) \in shared \/ raw[Item(w)].task = NoId
  BY <1>1, MakerKnows
<1>3. ToPlace(w, "score")
  BY <1>1, GoMoves DEF ItemPlaces, MakePlaces
<1>4. worker'[w].hold = worker[w].hold /\ worker'[w].at = "score" /\ Phase(w)' = Phase(w)
  BY <1>3 DEF ToPlace, Keeps, Phase
<1>5. raw[Item(w)].should \in {"yes", "no", "unknown"}
  BY <1>1, <1>2 DEF Typing, TypeOK, Rows
<1>6. Scoring(worker'[w], Item(w))
  BY <1>4 DEF Scoring, Item
<1>7. RowsMove(w)
  BY <1>1, <1>2, <1>5, <1>6, PutMoves DEF RawStatus
<1>8. /\ raw' \in [Raws -> Rows] /\ UNCHANGED <<task, queue, history>> /\ alone' = alone \cap {w}
  BY <1>1, <1>2, <1>5, PutRows DEF RawStatus
<1>9. Fresh(w)' /\ Heals(w)'
  BY <1>2, <1>4, Aside
<1> QED BY <1>1, <1>2, <1>3, <1>7, <1>8, <1>9, TasksSame, Stays DEF Quiet, At, ItemPlaces

LEMMA StepScore == ASSUME Inv, NEW w \in Workers, Score(w) PROVE Inv'
<1>1. PICK should \in {"yes", "no"} :
         Typing /\ worker[w].at = "score" /\ Put(w, "SCORED", should) /\ NextItem(w)
  BY DEF Inv, Score, At
<1>2. /\ Item(w) \in Raws /\ Phase(w) \notin {"closed", "reconcile"}
      /\ Item(w) \in shared \/ raw[Item(w)].task = NoId
  BY <1>1, MakerKnows
<1>3. RowsMove(w)
  BY <1>1, <1>2, PutMoves DEF RawStatus
<1>4. /\ raw' \in [Raws -> Rows] /\ UNCHANGED <<task, queue, history>> /\ alone' = alone \cap {w}
  BY <1>1, <1>2, PutRows DEF RawStatus
<1>5. ToNext(w)
  BY <1>1, NextItemMoves DEF ItemPlaces
<1> QED BY <1>1, <1>2, <1>3, <1>4, <1>5, TasksSame, Gives DEF Quiet, At

LEMMA StepScoreFails == ASSUME Inv, NEW w \in Workers, ScoreFails(w) PROVE Inv'
<1>1. /\ Typing /\ worker[w].at = "score" /\ Go(w, "failed")
      /\ UNCHANGED <<raw, task, queue, history, alone>>
  BY DEF Inv, ScoreFails, At
<1>2. /\ Item(w) \in Raws /\ Phase(w) \notin {"closed", "reconcile"} /\ ForTask(w, Item(w))
  BY <1>1, MakerKnows
<1>3. ToPlace(w, "failed")
  BY <1>1, GoMoves DEF ItemPlaces, MakePlaces
<1>4. worker'[w].hold = worker[w].hold /\ worker'[w].at = "failed" /\ Phase(w)' = Phase(w)
  BY <1>3 DEF ToPlace, Keeps, Phase
<1>5. RowsMove(w) /\ raw' \in [Raws -> Rows]
  BY <1>1, <1>4, RowsSame DEF Scoring
<1>6. Fresh(w)' /\ Heals(w)'
  BY <1>2, <1>4, Aside
<1> QED BY <1>1, <1>2, <1>3, <1>5, <1>6, TasksSame, Stays DEF Quiet, At, ItemPlaces

LEMMA StepFailed == ASSUME Inv, NEW w \in Workers, Failed(w) PROVE Inv'
<1>1. Typing /\ worker[w].at = "failed" /\ Put(w, "FAILED", raw[Item(w)].should) /\ NextItem(w)
  BY DEF Inv, Failed, At
<1>2. Item(w) \in Raws /\ Phase(w) \notin {"closed", "reconcile"}
  BY <1>1, MakerKnows
<1>3. raw[Item(w)].should \in {"yes", "no", "unknown"}
  BY <1>1, <1>2 DEF Typing, TypeOK, Rows
<1>4. RowsMove(w)
  BY <1>1, <1>2, <1>3, PutMoves DEF RawStatus
<1>5. /\ raw' \in [Raws -> Rows] /\ UNCHANGED <<task, queue, history>> /\ alone' = alone \cap {w}
  BY <1>1, <1>2, <1>3, PutRows DEF RawStatus
<1>6. ToNext(w)
  BY <1>1, NextItemMoves DEF ItemPlaces
<1> QED BY <1>1, <1>2, <1>4, <1>5, <1>6, TasksSame, Gives DEF Quiet, At

LEMMA StepCollides == ASSUME Inv, NEW w \in Workers, Collides(w) PROVE Inv'
<1>1. /\ Typing /\ worker[w].at \in {"store", "create"} /\ Catch(w)
      /\ UNCHANGED <<raw, task, queue, history, alone>>
  BY DEF Inv, Collides, At
<1>2. Stops(w) \/ (ToNext(w) /\ Phase(w) \notin {"closed", "reconcile"})
  BY <1>1, CatchMoves DEF ItemPlaces
<1>3. RowsMove(w) /\ raw' \in [Raws -> Rows]
  BY <1>1, RowsSame DEF Scoring
<1> QED BY <1>1, <1>2, <1>3, TasksSame, Gives DEF Quiet, At

LEMMA StepThrow == ASSUME Inv, NEW w \in Workers, Throw(w) PROVE Inv'
<1>1. /\ Typing /\ worker[w].at \in (ItemPlaces \cup {"list"}) \ {"score"} /\ Catch(w)
      /\ faults < MaxFaults /\ faults' = faults + 1
      /\ UNCHANGED <<run, raw, task, requests, shared, stranded, alone>>
      /\ lost' = IF At(w, "link") THEN lost \cup {Item(w)} ELSE lost
      /\ dropped' = IF At(w, "failed") THEN dropped \cup {Item(w)} ELSE dropped
  BY DEF Inv, Throw, ItemPlaces
<1>2. Stops(w) \/ (ToNext(w) /\ Phase(w) \notin {"closed", "reconcile"})
  BY <1>1, CatchMoves
<1>3. Moved(w) /\ Shrinks(w) /\ (w = Drain => worker'[w].run = worker[w].run)
  BY <1>1, <1>2 DEF ToNext, Stops, Shrinks, Keeps
<1>4. w \in alone' => Fresh(w)' /\ Heals(w)'
  <2>1. CASE Stops(w)
    BY <2>1, Away DEF Stops
  <2>2. CASE ToNext(w) /\ Phase(w) \notin {"closed", "reconcile"}
    BY <2>2, Aside DEF ToNext, Keeps, Phase
  <2> QED BY <1>2, <2>1, <2>2
<1>5. RowsMove(w) /\ raw' \in [Raws -> Rows]
  BY <1>1, RowsSame DEF Scoring, At, Item
<1>6. HistoryTyped /\ RunsTyped
  <2>1. faults + 1 \in 0 .. MaxFaults
    BY <1>1, GeneratorAssumption DEF Typing, TypeOK
  <2>2. worker[w].at \in ItemPlaces => Item(w) \in Raws
    BY <1>1, InItem
  <2> QED BY <1>1, <2>1, <2>2 DEF Typing, TypeOK, HistoryTyped, RunsTyped, QueueOK, At, ItemPlaces
<1>7. Statement(w)
  BY <1>1, <1>3, <1>5, <1>6, TasksSame DEF Statement
<1>8. RunOK'
  BY <1>1, <1>3, RunFrom DEF Inv, RunOK, RunKept, At, ItemPlaces
<1> QED BY <1>1, <1>4, <1>7, <1>8, Whole DEF Quiet
LEMMA StepLockLost == ASSUME Inv, NEW w \in Workers, LockLost(w) PROVE Inv'
<1>1. /\ Typing /\ worker[w].at = "lock" /\ Catch(w) /\ alone' = alone \cap {w}
      /\ faults < MaxFaults /\ faults' = faults + 1
      /\ raw' = [raw EXCEPT ![Item(w)].st = "SCORING"] /\ dropped' = dropped \cup {Item(w)}
      /\ UNCHANGED <<run, task, requests, lost, shared, stranded>>
  BY DEF Inv, LockLost, At, Disturbs
<1>2. Item(w) \in Raws /\ (Item(w) \in shared \/ raw[Item(w)].task = NoId)
  BY <1>1, MakerKnows
<1>3. Stops(w) \/ (ToNext(w) /\ Phase(w) \notin {"closed", "reconcile"})
  BY <1>1, CatchMoves DEF ItemPlaces
<1>4. Moved(w) /\ Shrinks(w) /\ (w = Drain => worker'[w].run = worker[w].run)
  BY <1>1, <1>3 DEF ToNext, Stops, Shrinks, Keeps, At
<1>5. w \in alone' => Fresh(w)' /\ Heals(w)'
  <2>1. CASE Stops(w)
    BY <2>1, Away DEF Stops
  <2>2. CASE ToNext(w) /\ Phase(w) \notin {"closed", "reconcile"}
    BY <2>2, Aside DEF ToNext, Keeps, Phase
  <2> QED BY <1>3, <2>1, <2>2
<1>6. RowsMove(w) /\ raw' \in [Raws -> Rows]
  <2> DEFINE q == [raw[Item(w)] EXCEPT !.st = "SCORING"]
  <2>1. raw \in [Raws -> Rows] /\ raw[Item(w)] \in Rows
    BY <1>1, <1>2 DEF Typing, TypeOK
  <2>2. q \in Rows /\ q.task = raw[Item(w)].task /\ raw' = [raw EXCEPT ![Item(w)] = q]
    BY <1>1, <2>1 DEF Rows, RawStatus
  <2> HIDE DEF q
  <2>3. /\ raw' \in [Raws -> Rows] /\ raw'[Item(w)].task = raw[Item(w)].task
        /\ \A r \in Raws \ {Item(w)} : raw'[r] = raw[r]
    BY <1>2, <2>1, <2>2
  <2> QED BY <1>1, <1>2, <2>3 DEF RowsMove, Scoring
<1>7. HistoryTyped /\ RunsTyped
  <2>1. faults + 1 \in 0 .. MaxFaults
    BY <1>1, GeneratorAssumption DEF Typing, TypeOK
  <2> QED BY <1>1, <1>2, <2>1 DEF Typing, TypeOK, HistoryTyped, RunsTyped, QueueOK
<1>8. Statement(w)
  BY <1>1, <1>4, <1>6, <1>7, TasksSame DEF Statement
<1>9. RunOK'
  BY <1>1, <1>4, RunFrom DEF Inv, RunOK, RunKept, At
<1> QED BY <1>1, <1>5, <1>8, <1>9, Whole DEF Quiet
-------------------------------------------------------------------------------
(***************************************************************************)
(* Every step keeps the invariant: runs and requests.                       *)
(***************************************************************************)
\* A worker with nothing in hand before and after.
LEMMA Turns ==
  ASSUME Inv, NEW w \in Workers, NEW v \in Worker, WorkerOK(v), v.hold = Name(None),
         v.at \in {"off", "list", "end", "fail"}, worker' = [worker EXCEPT ![w] = v],
         worker[w].at \in {"off", "end", "fail"},
         UNCHANGED <<raw, task, lost, shared, dropped, alone>>, HistoryTyped, RunsTyped, RunOK'
  PROVE  Inv'
<1>1. v.list = {}
  BY DEF WorkerOK, ItemPlaces
<1>2. Typing /\ Moved(w) /\ worker'[w] = v
  BY DEF Inv, Typing, Moved
<1>3. Shrinks(w)
  BY <1>1, <1>2 DEF Shrinks, At
<1>4. RowsMove(w) /\ raw' \in [Raws -> Rows]
  BY <1>2, RowsSame DEF Scoring
<1>5. Statement(w)
  BY <1>2, <1>3, <1>4, TasksSame DEF Statement
<1>6. Fresh(w)' /\ Heals(w)'
  BY <1>2, Away
<1> QED BY <1>5, <1>6, Whole DEF Quiet

\* A worker about to start on the phases of a run or of a request.
Started(n, type) == [Idle EXCEPT !.at = "list", !.run = n, !.todo = Phases[type]]
Asked(type) == [Idle EXCEPT !.at = "list", !.todo = Phases[type]]

LEMMA Begins == ASSUME NEW type \in RunTypes, NEW n \in Runs,
                       NEW v \in {Started(n, type), Asked(type)}
  PROVE /\ v \in Worker /\ WorkerOK(v) /\ v.hold = Name(None) /\ v.at = "list"
        /\ v = Started(n, type) => v.run = n
<1>1. Phases[type] \in Seq(PhaseNames) /\ Phases[type] # <<>>
  BY PhasesOK
<1>2. /\ v \in Worker /\ v.at = "list" /\ v.hold = Name(None) /\ v.list = {}
      /\ v.todo = Phases[type] /\ (v = Started(n, type) => v.run = n)
  BY <1>1, IdleOK DEF Worker, Places, Started, Asked
<1>3. WorkerOK(v)
  BY <1>1, <1>2 DEF WorkerOK, ItemPlaces, MakePlaces
<1> QED BY <1>2, <1>3

LEMMA StepCall == ASSUME Inv, NEW c \in Calls, NEW type \in RunTypes, Call(c, type) PROVE Inv'
<1> DEFINE v == Asked(type)
<1>1. v \in Worker /\ WorkerOK(v) /\ v.hold = Name(None) /\ v.at = "list"
  <2>1. 1 \in Runs
    BY GeneratorAssumption DEF Call, Runs, Inv, Typing, TypeOK
  <2> QED BY <2>1, Begins
<1>2. /\ Typing /\ c \in Workers /\ c # Drain /\ worker[c].at = "off"
      /\ worker \in [Workers -> Worker]
  BY GeneratorAssumption DEF Inv, Typing, Call, At, Workers
<1>3. worker' = [worker EXCEPT ![c] = v]
  BY DEF Call, Asked
<1> HIDE DEF v
<1>4. /\ requests < MaxRequests /\ requests' = requests + 1
      /\ UNCHANGED <<run, raw, task, faults, history, alone>>
  BY DEF Call
<1>5. requests + 1 \in 0 .. MaxRequests
  BY <1>2, <1>4, GeneratorAssumption DEF Typing, TypeOK
<1>6. HistoryTyped /\ RunsTyped
  BY <1>2, <1>4, <1>5 DEF Typing, TypeOK, history, HistoryTyped, RunsTyped, QueueOK
<1>7. RunOK'
  BY <1>2, <1>3, <1>4, NullIds DEF Inv, RunOK, RunInHand, RunKnown, At, history
<1> QED BY <1>1, <1>2, <1>3, <1>4, <1>6, <1>7, Turns DEF history

LEMMA StepFindRun == ASSUME Inv, FindRun PROVE Inv'
<1>1. PICK n \in Queued :
         /\ At(Drain, "off") /\ run' = [run EXCEPT ![n].st = "RUNNING"]
         /\ worker' = [worker EXCEPT ![Drain] =
                         [Idle EXCEPT !.at = "list", !.run = n, !.todo = Phases[run[n].type]]]
         /\ UNCHANGED <<raw, task, requests, faults, history, alone>>
  BY DEF FindRun
<1>2. /\ Typing /\ Drain \in Workers /\ worker[Drain].at = "off" /\ worker \in [Workers -> Worker]
      /\ run \in [Runs -> [type : RunTypes \cup {"none"}, st : RunStatus \cup {"none"}]]
      /\ n \in Runs /\ run[n].st = "QUEUED" /\ run[n].type \in RunTypes
      /\ WorkerOK(worker[Drain])
  BY <1>1, NullIds, WorkerIs DEF Inv, Typing, TypeOK, Queued, QueueOK, At
<1> DEFINE v == Started(n, run[n].type)
           q == [run[n] EXCEPT !.st = "RUNNING"]
<1>3. v \in Worker /\ WorkerOK(v) /\ v.hold = Name(None) /\ v.at = "list" /\ v.run = n
  BY <1>2, Begins
<1>4. worker' = [worker EXCEPT ![Drain] = v]
  BY <1>1 DEF Started
<1> HIDE DEF v
<1>5. /\ q \in [type : RunTypes \cup {"none"}, st : RunStatus \cup {"none"}]
      /\ q.type = run[n].type /\ q.st = "RUNNING" /\ run' = [run EXCEPT ![n] = q]
  BY <1>1, <1>2 DEF RunStatus
<1> HIDE DEF q
<1>6. HistoryTyped /\ RunsTyped
  BY <1>1, <1>2, <1>5 DEF Typing, TypeOK, history, HistoryTyped, RunsTyped, QueueOK
<1>7. RunOK'
  <2>1. worker[Drain].run = 0
    BY <1>2 DEF WorkerOK
  <2>2. \A m \in Runs \ stranded : run[m].st # "RUNNING"
    BY <2>1 DEF Inv, RunInHand, Runs
  <2>3. worker'[Drain].run = n /\ stranded' = stranded /\ n # 0
    BY <1>1, <1>2, <1>3, <1>4 DEF history, Runs
  <2>4. run'[n].type \in RunTypes /\ \A m \in Runs \ {n} : run'[m] = run[m]
    BY <1>2, <1>5
  <2> QED BY <2>2, <2>3, <2>4 DEF RunOK, RunInHand, RunKnown
<1> QED BY <1>1, <1>2, <1>3, <1>4, <1>6, <1>7, Turns DEF history

\* The drain is done with its run: the run has an outcome.
LEMMA RunEnds ==
  ASSUME Inv, NEW st \in {"COMPLETED", "FAILED"}, UNCHANGED <<requests, faults, history, alone>>,
         worker' = [worker EXCEPT ![Drain] = Idle],
         run' = [run EXCEPT ![worker[Drain].run].st = st]
  PROVE  HistoryTyped /\ RunsTyped /\ RunOK'
<1> DEFINE n == worker[Drain].run
           q == [run[n] EXCEPT !.st = st]
<1>1. /\ Typing /\ run \in [Runs -> [type : RunTypes \cup {"none"}, st : RunStatus \cup {"none"}]]
      /\ n \in Runs \cup {0} /\ 0 \notin Runs /\ worker'[Drain] = Idle
      /\ Idle.run = 0 /\ Idle.at = "off"
  BY NullIds, WorkerIs, IdleOK DEF Inv, Typing, TypeOK, Runs
<1>2. run' = [run EXCEPT ![n] = q]
  OBVIOUS
<1>3. HistoryTyped
  BY <1>1 DEF Typing, TypeOK, history, HistoryTyped
<1>4. \A m \in Runs \ stranded : run[m].st = "RUNNING" => n = m
  BY DEF Inv, RunInHand
<1>5. CASE n \in Runs
  <2>1. run[n].type \in RunTypes
    BY <1>1, <1>5 DEF Inv, RunKnown
  <2> QED
    <3>1. /\ q \in [type : RunTypes \cup {"none"}, st : RunStatus \cup {"none"}]
          /\ q.type = run[n].type /\ q.st = st
      BY <1>1, <1>5 DEF RunStatus
    <3> HIDE DEF q, n
    <3>2. run' \in [Runs -> [type : RunTypes \cup {"none"}, st : RunStatus \cup {"none"}]]
      BY <1>1, <1>2, <1>5, <3>1
    <3>3. RunOK'
      BY <1>1, <1>2, <1>4, <1>5, <3>1 DEF RunOK, RunInHand, RunKnown, At, history
    <3>4. QueueOK'
      BY <1>1, <1>2, <1>5, <2>1, <3>1 DEF QueueOK, Typing
    <3> QED BY <1>3, <3>2, <3>3, <3>4 DEF RunsTyped
<1>6. CASE n = 0
  <2>1. run' = run
    BY <1>1, <1>2, <1>6
  <2>2. RunsTyped
    BY <1>1, <2>1 DEF Typing, RunsTyped, QueueOK
  <2>3. RunOK'
    BY <1>4, <1>6, <1>1, <2>1 DEF RunOK, RunInHand, RunKnown, At, history
  <2> QED BY <1>3, <2>2, <2>3
<1> QED BY <1>1, <1>5, <1>6

LEMMA StepEnd == ASSUME Inv, NEW w \in Workers, End(w) PROVE Inv'
<1>1. /\ Typing /\ worker[w].at = "end" /\ worker' = [worker EXCEPT ![w] = Idle]
      /\ UNCHANGED <<raw, task, requests, faults, history, alone>>
  BY DEF Inv, End, At
<1>2. HistoryTyped /\ RunsTyped /\ RunOK'
  <2>1. CASE w = Drain
    BY <1>1, <2>1, RunEnds DEF End
  <2>2. CASE w # Drain
    <3>1. run' = run /\ worker'[Drain] = worker[Drain]
      BY <1>1, <2>2, NullIds DEF End, Typing
    <3>2. RunOK'
      BY <1>1, <3>1 DEF Inv, RunOK, RunInHand, RunKnown, At, history
    <3> QED BY <1>1, <3>1, <3>2 DEF Typing, TypeOK, history, HistoryTyped, RunsTyped, QueueOK
  <2> QED BY <2>1, <2>2
<1> QED BY <1>1, <1>2, IdleOK, Turns DEF history

LEMMA StepStoreError == ASSUME Inv, StoreError PROVE Inv'
<1>1. /\ Drain \in Workers /\ worker[Drain].at = "fail"
      /\ worker' = [worker EXCEPT ![Drain] = Idle]
      /\ UNCHANGED <<raw, task, requests, faults, history, alone>>
  BY NullIds DEF StoreError, At
<1>2. HistoryTyped /\ RunsTyped /\ RunOK'
  BY <1>1, RunEnds DEF StoreError
<1> QED BY <1>1, <1>2, IdleOK, Turns DEF history

LEMMA StepOutcomeLost == ASSUME Inv, OutcomeLost PROVE Inv'
<1>1. /\ Typing /\ Drain \in Workers /\ worker \in [Workers -> Worker] /\ worker[Drain] \in Worker
      /\ WorkerOK(worker[Drain]) /\ RunInHand /\ RunKnown
  BY NullIds, WorkerIs DEF Inv, Typing
<1>2. CASE /\ At(Drain, "end") /\ Go(Drain, "fail")
           /\ UNCHANGED <<raw, task, queue, history, alone>>
  <2> DEFINE v == [worker[Drain] EXCEPT !.at = "fail"]
  <2>1. /\ v \in Worker /\ v.at = "fail" /\ v.run = worker[Drain].run /\ v.list = worker[Drain].list
        /\ v.hold = worker[Drain].hold /\ worker[Drain].at = "end"
    BY <1>1, <1>2 DEF Worker, Places, At
  <2>2. worker[Drain].list = {} /\ worker[Drain].hold = Name(None)
    BY <1>1, <2>1 DEF WorkerOK, ItemPlaces
  <2>3. worker' = [worker EXCEPT ![Drain] = v]
    BY <1>2 DEF Go
  <2> HIDE DEF v
  <2>4. WorkerOK(v)
    BY <2>1, <2>2 DEF WorkerOK, ItemPlaces, MakePlaces
  <2>5. RunOK'
    BY <1>1, <1>2, <2>1, <2>3 DEF RunOK, RunInHand, RunKnown, At, queue, history
  <2>6. HistoryTyped /\ RunsTyped
    BY <1>1, <1>2 DEF Typing, TypeOK, queue, history, HistoryTyped, RunsTyped, QueueOK
  <2> QED BY <1>1, <1>2, <2>1, <2>2, <2>3, <2>4, <2>5, <2>6, Turns DEF history
<1>3. CASE /\ At(Drain, "fail") /\ faults < MaxFaults /\ faults' = faults + 1
           /\ worker' = [worker EXCEPT ![Drain] = Idle]
           /\ stranded' = stranded \cup {worker[Drain].run}
           /\ UNCHANGED <<run, raw, task, requests, lost, shared, dropped, alone>>
  <2>1. worker[Drain].run \in Runs /\ worker'[Drain] = Idle
    BY <1>1, <1>3, WorkerIs DEF RunKnown, At
  <2>2. faults + 1 \in 0 .. MaxFaults
    BY <1>1, <1>3, GeneratorAssumption DEF Typing, TypeOK
  <2>3. HistoryTyped /\ RunsTyped
    BY <1>1, <1>3, <2>1, <2>2 DEF Typing, TypeOK, HistoryTyped, RunsTyped, QueueOK
  <2>4. RunOK'
    BY <1>1, <1>3, <2>1, IdleOK DEF RunOK, RunInHand, RunKnown, At
  <2> QED BY <1>1, <1>3, <2>3, <2>4, IdleOK, Turns DEF At
<1> QED BY <1>2, <1>3 DEF OutcomeLost

LEMMA StepFindRunLost == ASSUME Inv, FindRunLost PROVE Inv'
<1>1. PICK n \in Queued :
         /\ At(Drain, "off") /\ faults < MaxFaults /\ faults' = faults + 1
         /\ run' = [run EXCEPT ![n].st = "RUNNING"] /\ stranded' = stranded \cup {n}
         /\ UNCHANGED <<raw, task, worker, requests, lost, shared, dropped, alone>>
  BY DEF FindRunLost
<1>2. /\ Typing /\ Drain \in Workers /\ worker[Drain] \in Worker /\ worker[Drain].at = "off"
      /\ worker \in [Workers -> Worker] /\ WorkerOK(worker[Drain]) /\ RunInHand /\ RunKnown
      /\ run \in [Runs -> [type : RunTypes \cup {"none"}, st : RunStatus \cup {"none"}]]
      /\ n \in Runs /\ run[n].type \in RunTypes /\ run[n] \in [type : RunTypes \cup {"none"}, st : RunStatus \cup {"none"}]
  BY <1>1, NullIds, WorkerIs DEF Inv, Typing, TypeOK, Queued, QueueOK, At
<1> DEFINE q == [run[n] EXCEPT !.st = "RUNNING"]
<1>3. /\ q \in [type : RunTypes \cup {"none"}, st : RunStatus \cup {"none"}]
      /\ q.type = run[n].type /\ run' = [run EXCEPT ![n] = q]
  BY <1>1, <1>2 DEF RunStatus
<1> HIDE DEF q
<1>4. /\ run' \in [Runs -> [type : RunTypes \cup {"none"}, st : RunStatus \cup {"none"}]]
      /\ run'[n].type = run[n].type /\ \A m \in Runs \ {n} : run'[m] = run[m]
  BY <1>2, <1>3
<1>5. faults + 1 \in 0 .. MaxFaults
  BY <1>1, <1>2, GeneratorAssumption DEF Typing, TypeOK
<1>6. HistoryTyped /\ RunsTyped
  BY <1>1, <1>2, <1>4, <1>5 DEF Typing, TypeOK, HistoryTyped, RunsTyped, QueueOK
<1>7. RunOK'
  BY <1>1, <1>2, <1>4 DEF RunOK, RunInHand, RunKnown, At, WorkerOK
<1>8. worker' = [worker EXCEPT ![Drain] = worker[Drain]]
  BY <1>1, <1>2
<1>9. worker[Drain].hold = Name(None)
  BY <1>2 DEF WorkerOK, ItemPlaces
<1>10. PICK v \in Worker : v = worker[Drain]
  BY <1>2
<1> QED BY <1>1, <1>2, <1>6, <1>7, <1>8, <1>9, <1>10, Turns

LEMMA StepStartRun == ASSUME Inv, NEW type \in RunTypes, StartRun(type) PROVE Inv'
<1>1. PICK n \in Runs :
         /\ run[n].st = "none" /\ requests < MaxRequests /\ requests' = requests + 1
         /\ run' = [run EXCEPT ![n] = [type |-> type, st |-> "QUEUED"]]
         /\ UNCHANGED <<raw, task, worker, faults, history, alone>>
  BY DEF StartRun
<1>2. /\ Typing /\ Drain \in Workers /\ WorkerOK(worker[Drain]) /\ RunInHand /\ RunKnown
      /\ run \in [Runs -> [type : RunTypes \cup {"none"}, st : RunStatus \cup {"none"}]]
  BY NullIds, WorkerIs DEF Inv, Typing, TypeOK
<1>3. requests + 1 \in 0 .. MaxRequests
  BY <1>1, <1>2, GeneratorAssumption DEF Typing, TypeOK
<1>4. /\ run' \in [Runs -> [type : RunTypes \cup {"none"}, st : RunStatus \cup {"none"}]]
      /\ run'[n].type = type /\ run'[n].st = "QUEUED" /\ \A m \in Runs \ {n} : run'[m] = run[m]
  BY <1>1, <1>2 DEF RunStatus
<1>5. HistoryTyped /\ RunsTyped
  BY <1>1, <1>2, <1>3, <1>4 DEF Typing, TypeOK, history, HistoryTyped, RunsTyped, QueueOK
<1>6. RunOK'
  BY <1>1, <1>2, <1>4 DEF RunOK, RunInHand, RunKnown, At, history
<1>7. Moved(Drain) /\ Statement(Drain)
  <2>1. RowsMove(Drain) /\ raw' \in [Raws -> Rows]
    BY <1>1, <1>2, RowsSame
  <2>2. Moved(Drain)
    BY <1>1, <1>2 DEF Moved, Typing
  <2> QED BY <1>1, <1>2, <1>5, <2>1, <2>2, TasksSame DEF Statement, history
<1>8. Drain \in alone' => Fresh(Drain)' /\ Heals(Drain)'
  BY <1>1 DEF Inv, Fresh, Heals, Healed, Snap, Now, Phase, At, InHand, Item
<1> QED BY <1>1, <1>2, <1>6, <1>7, <1>8, Whole DEF Quiet

\* Somebody works on a task: no worker is undisturbed.
LEMMA Others ==
  ASSUME Inv, UNCHANGED <<raw, worker, queue, history>>, alone' = {},
         task' \in [Tasks -> TaskRows], \A u \in Tasks : task'[u].raw = task[u].raw
  PROVE  Inv'
<1>1. Typing /\ Drain \in Workers /\ WorkerOK(worker[Drain]) /\ RunInHand /\ RunKnown
  BY NullIds, WorkerIs DEF Inv
<1>2. RowsMove(Drain) /\ raw' \in [Raws -> Rows]
  BY <1>1, RowsSame
<1>3. Moved(Drain)
  BY <1>1 DEF Moved, Typing
<1>4. Statement(Drain)
  BY <1>1, <1>2, <1>3, QuietTyped DEF Statement
<1>5. RunOK'
  BY <1>1, <1>3, RunFrom DEF RunOK, RunKept, queue, history
<1> QED BY <1>1, <1>4, <1>5, Whole DEF Quiet

LEMMA StepPeople == ASSUME Inv, NEW t \in Tasks, People(t) PROVE Inv'
<1>1. task \in [Tasks -> TaskRows]
  BY DEF Inv, Typing, TypeOK
<1>2. CASE Submit(t)
  <2> DEFINE q == [task[t] EXCEPT !.claimed = TRUE]
  <2>1. q \in TaskRows /\ q.raw = task[t].raw /\ task' = [task EXCEPT ![t] = q]
    BY <1>1, <1>2 DEF Submit, TaskRows
  <2> HIDE DEF q
  <2>2. task' \in [Tasks -> TaskRows] /\ \A u \in Tasks : task'[u].raw = task[u].raw
    BY <1>1, <2>1
  <2> QED BY <1>2, <2>2, Others DEF Submit
<1>3. ASSUME NEW st \in {"COMPLETED", "REVIEWING", "CANCELLED"}, task' = [task EXCEPT ![t].st = st],
             alone' = {}, UNCHANGED <<raw, worker, queue, history>>
      PROVE  Inv'
  <2> DEFINE q == [task[t] EXCEPT !.st = st]
  <2>1. q \in TaskRows /\ q.raw = task[t].raw /\ task' = [task EXCEPT ![t] = q]
    BY <1>1, <1>3 DEF TaskRows
  <2> HIDE DEF q
  <2>2. task' \in [Tasks -> TaskRows] /\ \A u \in Tasks : task'[u].raw = task[u].raw
    BY <1>1, <2>1
  <2> QED BY <1>3, <2>2, Others
<1>4. CASE Approve(t)
  BY <1>3, <1>4 DEF Approve
<1>5. CASE StartReview(t)
  BY <1>3, <1>5 DEF StartReview
<1>6. CASE OwnerCancels(t)
  BY <1>3, <1>6 DEF OwnerCancels
<1> QED BY <1>2, <1>4, <1>5, <1>6 DEF People
-------------------------------------------------------------------------------
(***************************************************************************)
(* Every step keeps the invariant: a list is read, a task is created and    *)
(* linked to its row, the server ends.                                      *)
(***************************************************************************)
LEMMA ScoringFrom ==
  ASSUME ScoringInHand, NEW w \in Workers, Moved(w), dropped' = dropped,
         worker[w].at \notin {"score", "failed"},
         \A r \in Raws : raw'[r].st = "SCORING" => raw[r].st = "SCORING"
  PROVE  ScoringInHand'
BY DEF ScoringInHand, Moved, Item

LEMMA CreateIs == ASSUME Inv, NEW w \in Workers, Create(w)
  PROVE \E t \in Tasks :
          /\ task[t] = NoTask /\ task' \in [Tasks -> TaskRows] /\ task'[t].raw = Item(w)
          /\ \A u \in Tasks \ {t} : task'[u] = task[u]
          /\ Moved(w) /\ Keeps(w) /\ worker'[w].at = "link" /\ worker'[w].made = t
          /\ worker'[w].hold = worker[w].hold
<1>1. PICK t \in Tasks :
         /\ task[t] = NoTask
         /\ task' = [task EXCEPT ![t] = [st |-> "OPEN", claimed |-> FALSE, raw |-> Item(w)]]
         /\ worker' = [worker EXCEPT ![w].at = "link", ![w].made = t]
  BY DEF Create
<1>2. /\ worker[w].at = "create" /\ Typing /\ worker \in [Workers -> Worker] /\ worker[w] \in Worker
      /\ WorkerOK(worker[w]) /\ task \in [Tasks -> TaskRows]
  BY WorkerIs DEF Inv, Typing, TypeOK, Create, At
<1>3. Item(w) \in Raws
  BY <1>2, MakerKnows
<1> DEFINE q == [worker[w] EXCEPT !.at = "link", !.made = t]
           x == [st |-> "OPEN", claimed |-> FALSE, raw |-> Item(w)]
<1>4. x \in TaskRows /\ x.raw = Item(w) /\ task' = [task EXCEPT ![t] = x]
  BY <1>1, <1>3 DEF TaskRows
<1>5. /\ q \in Worker /\ q.at = "link" /\ q.hold = worker[w].hold /\ q.list = worker[w].list
      /\ q.todo = worker[w].todo /\ q.run = worker[w].run /\ q.made = t
      /\ worker' = [worker EXCEPT ![w] = q]
  BY <1>1, <1>2 DEF Worker, Places, ItemPlaces
<1> HIDE DEF q, x
<1>6. WorkerOK(q)
  BY <1>2, <1>5 DEF WorkerOK, ItemPlaces, MakePlaces
<1>7. /\ task' \in [Tasks -> TaskRows] /\ task'[t].raw = Item(w)
      /\ \A u \in Tasks \ {t} : task'[u] = task[u]
  BY <1>2, <1>4
<1>8. Moved(w) /\ worker'[w] = q
  BY <1>2, <1>5, <1>6 DEF Moved
<1> QED BY <1>1, <1>5, <1>7, <1>8 DEF Keeps

LEMMA StepCreate == ASSUME Inv, NEW w \in Workers, Create(w) PROVE Inv'
<1>0. PICK t \in Tasks :
          /\ task[t] = NoTask /\ task' \in [Tasks -> TaskRows] /\ task'[t].raw = Item(w)
          /\ \A u \in Tasks \ {t} : task'[u] = task[u]
          /\ Moved(w) /\ Keeps(w) /\ worker'[w].at = "link" /\ worker'[w].made = t
          /\ worker'[w].hold = worker[w].hold
  BY CreateIs
<1>1. /\ Typing /\ worker[w].at = "create" /\ UNCHANGED <<raw, queue, history>>
      /\ alone' = alone \cap {w} /\ raw \in [Raws -> Rows] /\ OneTask
      /\ RunInHand /\ RunKnown /\ ScoringInHand /\ alone \subseteq Workers
  BY DEF Inv, Typing, TypeOK, Create, Disturbs, At
<1>2. Item(w) \in Raws /\ Phase(w) \notin {"closed", "reconcile"} /\ Phase(w)' = Phase(w)
  BY <1>0, <1>1, MakerKnows DEF Keeps, Phase
<1>3. Typing'
  <2>1. HistoryTyped /\ RunsTyped /\ TasksKept
    BY <1>0, <1>1, QuietTyped, NoTaskOK DEF TasksKept
  <2> QED BY <1>0, <1>1, <2>1, TypingFrom DEF Keeps, Item
<1>4. RunOK'
  BY <1>0, <1>1, RunFrom DEF RunOK, RunKept, queue, history, Keeps, At
<1>5. ScoringInHand'
  BY <1>0, <1>1, ScoringFrom DEF history
<1>6. OneTask'
  <2>1. \A o \in Workers : InHand(o)' = InHand(o) /\ worker'[o].hold = worker[o].hold
    BY <1>0 DEF Moved, Keeps, InHand, Item
  <2>2. \A o \in Workers, r \in Raws : ForTask(o, r)' => ForTask(o, r)
    <3> SUFFICES ASSUME NEW r \in Raws, ForTask(w, r)' PROVE ForTask(w, r)
      BY <1>0 DEF Moved, ForTask, Item, Phase
    <3> QED BY <1>0, <1>1, <1>2 DEF ForTask, Keeps, Item
  <2>3. \A o \in Workers : At(o, "store")' => At(o, "store")
    BY <1>0 DEF Moved, At
  <2>4. ASSUME NEW r \in Raws \ shared PROVE ItemOK(r)'
    <3>1. ItemOK(r)
      BY <1>1 DEF OneTask
    <3> QED BY <1>1, <2>1, <2>2, <2>3, <3>1 DEF ItemOK, Item
  <2>5. ASSUME NEW r \in Raws \ (lost \cup shared), NEW u \in Tasks PROVE TaskKnown(r, u)'
    <3>1. CASE u = t
      BY <1>0, <3>1 DEF TaskKnown, At, Item
    <3>2. CASE u # t
      <4>1. TaskKnown(r, u) /\ task'[u] = task[u] /\ raw' = raw
        BY <1>0, <1>1, <3>2 DEF OneTask
      <4>2. \A o \in Workers : At(o, "link") => worker'[o] = worker[o]
        BY <1>0, <1>1 DEF At, Moved
      <4> QED BY <4>1, <4>2 DEF TaskKnown, At, Item
    <3> QED BY <3>1, <3>2
  <2> QED BY <1>1, <2>4, <2>5 DEF OneTask, history
<1>7. \A o \in alone' : Fresh(o)' /\ Heals(o)'
  <2>1. Fresh(w)' /\ Heals(w)'
    BY <1>0, <1>2, Aside
  <2> QED BY <1>0, <1>1, <2>1, AloneFrom DEF Quiet
<1> QED BY <1>3, <1>4, <1>5, <1>6, <1>7 DEF Inv, RunOK

LEMMA StepLink == ASSUME Inv, NEW w \in Workers, Link(w) PROVE Inv'
<1> DEFINE x == [raw[Item(w)] EXCEPT !.st = "PUBLISHED", !.task = worker[w].made]
           t == worker[w].made
<1>1. /\ Typing /\ worker[w].at = "link" /\ NextItem(w) /\ UNCHANGED <<task, queue, history>>
      /\ alone' = alone \cap {w} /\ raw \in [Raws -> Rows] /\ task \in [Tasks -> TaskRows]
      /\ OneTask /\ RunInHand /\ RunKnown /\ ScoringInHand /\ alone \subseteq Workers
      /\ WorkerOK(worker[w])
  BY WorkerIs DEF Inv, Typing, TypeOK, Link, Disturbs, At
<1>2. /\ Item(w) \in Raws /\ Phase(w) \notin {"closed", "reconcile"} /\ ForTask(w, Item(w))
      /\ Item(w) \in shared \/ raw[Item(w)].task = NoId
  BY <1>1, MakerKnows
<1>3. t \in Tasks /\ task[t].raw = Item(w)
  BY <1>1 DEF WorkerOK, Typing, TypeOK, At
<1>4. ToNext(w) /\ Moved(w) /\ Keeps(w) /\ worker'[w].at = "next" /\ worker'[w].hold = Name(None)
      /\ Phase(w)' = Phase(w)
  BY <1>1, NextItemMoves DEF ItemPlaces, ToNext, Keeps, Phase
<1>5. /\ x \in Rows /\ x.st = "PUBLISHED" /\ x.task = t /\ raw' = [raw EXCEPT ![Item(w)] = x]
  BY <1>1, <1>2, <1>3 DEF Rows, RawStatus, Link
<1> HIDE DEF x, t
<1>6. /\ raw' \in [Raws -> Rows] /\ raw'[Item(w)].task = t /\ raw'[Item(w)].st = "PUBLISHED"
      /\ \A r \in Raws \ {Item(w)} : raw'[r] = raw[r]
  BY <1>1, <1>2, <1>5
<1>7. Typing'
  <2>1. HistoryTyped /\ RunsTyped /\ TasksKept
    BY <1>1, QuietTyped DEF TasksKept
  <2>2. SnapOK(worker[w].hold)'
    BY <1>4, NameOK DEF SnapOK
  <2>3. \A r \in Raws : raw'[r].task \in {raw[r].task, NoId} \/ task'[raw'[r].task].raw = r
    BY <1>1, <1>3, <1>6
  <2>4. \A s \in worker'[w].list \cup {worker'[w].hold} :
           s \in worker[w].list \cup {worker[w].hold} \/ SnapOK(s)'
    BY <1>4, <2>2 DEF Keeps
  <2> QED BY <1>1, <1>4, <1>6, <2>1, <2>3, <2>4, TypingFrom
<1>8. RunOK'
  BY <1>1, <1>4, RunFrom DEF RunOK, RunKept, queue, history, Keeps, At
<1>9. ScoringInHand'
  BY <1>1, <1>4, <1>6, ScoringFrom DEF history
<1>10. OneTask'
  <2>1. \A o \in Workers, r \in Raws : r \in InHand(o)' => r \in InHand(o) /\ ~(o = w /\ r = Item(w))
    <3>1. \A r \in Raws : r \in InHand(w)' => r \in {s.id : s \in worker[w].list}
      BY <1>4, NameOK, NullIds DEF InHand, Item, Keeps
    <3>2. \A s \in worker[w].list : s.id # Item(w)
      BY <1>1 DEF WorkerOK, Item
    <3> QED BY <1>4, <3>1, <3>2 DEF Moved, InHand, Item
  <2>2. \A o \in Workers, r \in Raws : ForTask(o, r)' => ForTask(o, r) /\ r \in InHand(o)'
    <3>1. \A r \in Raws : ForTask(w, r)' => ForTask(w, r)
      BY <1>4 DEF ForTask, Keeps, Phase
    <3>2. \A o \in Workers, r \in Raws : ForTask(o, r)' => r \in InHand(o)'
      BY DEF ForTask, InHand
    <3>3. \A o \in Workers \ {w}, r \in Raws : ForTask(o, r)' => ForTask(o, r)
      BY <1>4 DEF Moved, ForTask, Item, Phase
    <3> QED BY <3>1, <3>2, <3>3
  <2>3. \A o \in Workers : At(o, "store")' => o # w /\ worker'[o] = worker[o]
    BY <1>4 DEF Moved, At
  <2>4. ASSUME NEW r \in Raws \ shared PROVE ItemOK(r)'
    <3>1. ItemOK(r)
      BY <1>1 DEF OneTask
    <3>2. CASE r = Item(w)
      <4>1. \A o \in Workers : r \notin InHand(o)'
        BY <2>1, <3>1, <3>2 DEF ItemOK, InHand
      <4>2. \A o \in Workers : ~ForTask(o, r)'
        BY <2>2, <4>1
      <4>3. \A o \in Workers : At(o, "store")' => Item(o)' # r
        BY <4>1 DEF InHand
      <4> QED BY <1>6, <3>2, <4>1, <4>2, <4>3 DEF ItemOK
    <3>3. CASE r # Item(w)
      <4>1. raw'[r] = raw[r]
        BY <1>6, <3>3
      <4> QED BY <2>1, <2>2, <2>3, <3>1, <4>1 DEF ItemOK, At, Item
    <3> QED BY <3>2, <3>3
  <2>5. ASSUME NEW r \in Raws \ (lost \cup shared), NEW u \in Tasks PROVE TaskKnown(r, u)'
    <3>1. TaskKnown(r, u) /\ ItemOK(r)
      BY <1>1 DEF OneTask
    <3>2. \A o \in Workers \ {w} : worker'[o] = worker[o]
      BY <1>4 DEF Moved
    <3>3. CASE r = Item(w)
      <4>1. raw[r].task = NoId
        BY <1>2, <3>3
      <4>2. task[u].raw = r => u = t
        BY <1>1, <3>1, <3>3, <4>1, NullIds DEF TaskKnown, ItemOK, InHand, t
      <4> QED BY <1>1, <1>6, <3>3, <4>2 DEF TaskKnown
    <3>4. CASE r # Item(w)
      BY <1>1, <1>6, <3>1, <3>2, <3>4 DEF TaskKnown, At, Item
    <3> QED BY <3>3, <3>4
  <2> QED BY <1>1, <2>4, <2>5 DEF OneTask, history
<1>11. \A o \in alone' : Fresh(o)' /\ Heals(o)'
  <2>1. Fresh(w)' /\ Heals(w)'
    BY <1>2, <1>4, Aside
  <2> QED BY <1>1, <1>4, <2>1, AloneFrom DEF Quiet
<1> QED BY <1>7, <1>8, <1>9, <1>10, <1>11 DEF Inv, RunOK

LEMMA StepReadList == ASSUME Inv, NEW w \in Workers, ReadList(w) PROVE Inv'
<1>1. /\ Typing /\ worker[w].at = "list" /\ UNCHANGED <<raw, task, queue, lost, dropped, stranded>>
      /\ alone' = (IF Phase(w) \in {"closed", "reconcile"} THEN alone \cup {w} ELSE alone)
      /\ raw \in [Raws -> Rows] /\ task \in [Tasks -> TaskRows]
      /\ OneTask /\ RunInHand /\ RunKnown /\ ScoringInHand /\ alone \subseteq Workers
      /\ WorkerOK(worker[w]) /\ Phase(w) \in PhaseNames /\ shared \subseteq Raws
  BY WorkerIs, PhaseIs DEF Inv, Typing, TypeOK, ReadList, At
<1>2. PICK seen \in SUBSET Raws :
          /\ Moved(w) /\ worker'[w].at = "next" /\ worker'[w].hold = Name(None)
          /\ worker'[w].list = ListOf(Phase(w), seen) /\ Phase(w)' = Phase(w)
          /\ worker'[w].run = worker[w].run
          /\ shared' = shared \cup {r \in {s.id : s \in worker'[w].list} :
                                     \E o \in Workers \ {w} : r \in InHand(o)}
  BY <1>1, ReadListIs
<1> DEFINE list == ListOf(Phase(w), seen)
<1>3. /\ list \subseteq Snaps /\ \A s \in list : s.id \in Raws /\ SnapOK(s)
      /\ Phase(w) \in {"closed", "reconcile"} => \A s \in list : s = Snap(s.id)
      /\ Phase(w) = "reconcile" => \A r \in Github : raw[r].task # NoId => Snap(r) \in list
      /\ Phase(w) \in {"score", "publish"} => \A s \in list : raw[s.id].st \in {"PENDING", "SCORED"}
      /\ Phase(w) = "direct" => \A s \in list : raw[s.id].task = NoId
  BY <1>1, ListIs
<1> HIDE DEF list
<1>4. worker'[w].list = list
  BY <1>2 DEF list
<1>5. shared' \subseteq Raws
  BY <1>1, <1>2, <1>3, <1>4
<1>6. Typing'
  <2>1. HistoryTyped /\ RunsTyped /\ TasksKept
    BY <1>1, <1>5 DEF Typing, TypeOK, queue, HistoryTyped, RunsTyped, QueueOK, TasksKept
  <2>2. \A s \in list : SnapOK(s)'
    BY <1>1, <1>3 DEF SnapOK
  <2>3. SnapOK(worker[w].hold)'
    BY <1>2, NameOK DEF SnapOK
  <2> QED BY <1>1, <1>2, <1>4, <2>1, <2>2, <2>3, TypingFrom
<1>7. RunOK'
  BY <1>1, <1>2, RunFrom DEF RunOK, RunKept, queue, At
<1>8. ScoringInHand'
  BY <1>1, <1>2, ScoringFrom
<1>9. OneTask'
  <2>1. \A r \in Raws : r \in InHand(w)' => \E s \in list : s.id = r
    BY <1>2, <1>4, NameOK, NullIds DEF InHand, Item
  <2>2. \A o \in Workers \ {w} : /\ worker'[o] = worker[o] /\ InHand(o)' = InHand(o)
                                 /\ \A r : ForTask(o, r)' <=> ForTask(o, r)
    BY <1>2 DEF Moved, InHand, ForTask, Item, Phase
  <2>3. ASSUME NEW r \in Raws \ shared' PROVE ItemOK(r)'
    <3>0. r \notin shared
      BY <1>2
    <3>1. ItemOK(r) /\ raw' = raw
      BY <1>1, <3>0 DEF OneTask
    <3>2. r \in InHand(w)' => \A o \in Workers \ {w} : r \notin InHand(o)
      BY <1>2, <1>4, <2>1
    <3>3. \A o, p \in Workers : r \in InHand(o)' /\ r \in InHand(p)' => o = p
      <4> SUFFICES ASSUME NEW o \in Workers, NEW p \in Workers, r \in InHand(o)', r \in InHand(p)',
                          o # p PROVE FALSE
        OBVIOUS
      <4>1. CASE o = w
        BY <2>2, <3>2, <4>1
      <4>2. CASE p = w
        BY <2>2, <3>2, <4>2
      <4>3. CASE o # w /\ p # w
        BY <2>2, <3>1, <4>3 DEF ItemOK
      <4> QED BY <4>1, <4>2, <4>3
    <3>4. ForTask(w, r)' => raw[r].task = NoId
      <4> SUFFICES ASSUME ForTask(w, r)' PROVE raw[r].task = NoId
        OBVIOUS
      <4>1. r \in {s.id : s \in list} /\ Phase(w) \in {"direct", "score", "publish"}
        BY <1>2, <1>4 DEF ForTask
      <4> QED BY <1>3, <3>1, <4>1 DEF ItemOK
    <3>5. \A o \in Workers : ForTask(o, r)' => raw[r].task = NoId
      BY <2>2, <3>1, <3>4 DEF ItemOK
    <3>6. \A o \in Workers : At(o, "store")' => o # w
      BY <1>2 DEF At
    <3> QED BY <2>2, <3>1, <3>3, <3>5, <3>6 DEF ItemOK, At, Item
  <2>4. ASSUME NEW r \in Raws \ (lost' \cup shared'), NEW u \in Tasks PROVE TaskKnown(r, u)'
    <3>1. TaskKnown(r, u) /\ \A o \in Workers : At(o, "link") => o # w
      BY <1>1, <1>2 DEF OneTask, At
    <3> QED BY <1>1, <2>2, <3>1 DEF TaskKnown, At, Item
  <2> QED BY <2>3, <2>4 DEF OneTask
<1>10. \A o \in alone' : Fresh(o)' /\ Heals(o)'
  <2>1. CASE Phase(w) \in {"closed", "reconcile"}
    <3>1. \A r : Snap(r)' = Snap(r)
      BY <1>1 DEF Snap
    <3>2. Fresh(w)'
      BY <1>2, <1>3, <1>4, <2>1, <3>1 DEF Fresh, At
    <3>3. ASSUME Phase(w) = "reconcile", NEW r \in Github PROVE Healed(r)' \/ r \in InHand(w)'
      <4>1. CASE raw[r].task = NoId
        BY <1>1, <4>1 DEF Healed
      <4>2. CASE raw[r].task # NoId
        <5>1. Snap(r) \in worker'[w].list /\ Snap(r).id = r
          BY <1>1, <1>3, <1>4, <3>3, <4>2, SnapIs DEF Raws
        <5> QED BY <5>1 DEF InHand
      <4> QED BY <4>1, <4>2
    <3>4. Heals(w)'
      BY <1>2, <3>3 DEF Heals, At
    <3> QED BY <1>1, <1>2, <3>2, <3>4, AloneFrom DEF Quiet
  <2>2. CASE Phase(w) \notin {"closed", "reconcile"}
    <3>1. Fresh(w)' /\ Heals(w)'
      BY <1>2, <2>2, Aside
    <3> QED BY <1>1, <1>2, <2>2, <3>1, AloneFrom DEF Quiet
  <2> QED BY <2>1, <2>2
<1> QED BY <1>6, <1>7, <1>8, <1>9, <1>10 DEF Inv, RunOK

\* A server that has just started.
AtRest == worker = [w \in Workers |-> Idle]
Resting ==
  /\ worker \in [Workers -> Worker] /\ \A w \in Workers : WorkerOK(worker[w])
  /\ \A w \in Workers : /\ worker[w] = Idle /\ InHand(w) = {None}
                        /\ ~At(w, "store") /\ ~At(w, "link")
                        /\ \A r \in Raws : ~ForTask(w, r)
  /\ HandsOK

LEMMA NobodyAtWork == AtRest => Resting
<1> SUFFICES ASSUME AtRest PROVE Resting
  OBVIOUS
<1>1. \A w \in Workers : worker[w] = Idle /\ Item(w) = None
  BY IdleOK, NameOK DEF Item, AtRest
<1>2. \A w \in Workers : InHand(w) = {None}
  BY <1>1, IdleOK DEF InHand
<1>3. \A w \in Workers, r \in Raws : ~ForTask(w, r)
  BY <1>1, IdleOK DEF ForTask
<1>4. HandsOK
  BY <1>1, IdleOK, NameOK DEF HandsOK, SnapOK
<1> QED BY <1>1, <1>2, <1>3, <1>4, IdleOK DEF At, AtRest, Resting

LEMMA StepCrash == ASSUME Inv, Crash PROVE Inv'
<1>1. /\ Typing /\ worker' = [w \in Workers |-> Idle] /\ alone' = {} /\ stranded' = {}
      /\ faults < MaxFaults /\ faults' = faults + 1
      /\ UNCHANGED <<raw, task, requests, shared>>
      /\ lost' = lost \cup {Item(w) : w \in {x \in Workers : At(x, "link")}}
      /\ dropped' = dropped \cup
           {Item(w) : w \in {x \in Workers : worker[x].at \in {"score", "failed"}}}
      /\ run' = [n \in Runs |-> IF run[n].st = "RUNNING" THEN [run[n] EXCEPT !.st = "QUEUED"]
                                ELSE run[n]]
  BY DEF Inv, Crash
<1>2. /\ worker' \in [Workers -> Worker] /\ \A w \in Workers : WorkerOK(worker'[w])
      /\ \A w \in Workers : /\ worker'[w] = Idle /\ InHand(w)' = {None}
                            /\ ~At(w, "store")' /\ \A r \in Raws : ~ForTask(w, r)'
      /\ HandsOK'
  <2>1. AtRest'
    BY <1>1 DEF AtRest
  <2>2. Resting'
    BY <2>1, NobodyAtWork, PTL
  <2> QED BY <2>2 DEF Resting
<1>3. \A n \in Runs : /\ run'[n] \in [type : RunTypes \cup {"none"}, st : RunStatus \cup {"none"}]
                      /\ run'[n].st # "RUNNING" /\ run'[n].type = run[n].type
                      /\ run'[n].st # "none" => run[n].st # "none"
  <2>1. run \in [Runs -> [type : RunTypes \cup {"none"}, st : RunStatus \cup {"none"}]]
    BY <1>1 DEF Typing, TypeOK
  <2> QED BY <1>1, <2>1 DEF RunStatus
<1>4. /\ faults + 1 \in 0 .. MaxFaults
      /\ \A w \in Workers : worker[w].at \in ItemPlaces => Item(w) \in Raws
  BY <1>1, GeneratorAssumption, InItem DEF Typing, TypeOK
<1>5. lost' \cup dropped' \subseteq Raws
  BY <1>1, <1>4 DEF Typing, TypeOK, At, ItemPlaces
<1>6. TypeOK'
  <2>1. run' \in [Runs -> [type : RunTypes \cup {"none"}, st : RunStatus \cup {"none"}]]
    BY <1>1, <1>3
  <2>2. \A w \in Workers : ~At(w, "link")'
    BY <1>2, IdleOK DEF At
  <2> QED BY <1>1, <1>4, <1>5, <2>1, <2>2 DEF Typing, TypeOK
<1>7. QueueOK'
  BY <1>1, <1>3 DEF Typing, QueueOK
<1>8. RunInHand' /\ RunKnown'
  BY <1>2, <1>3, IdleOK, NullIds DEF RunInHand, RunKnown, At
<1>9. ScoringInHand'
  BY <1>1 DEF Inv, ScoringInHand
<1>10. OneTask'
  <2>1. ASSUME NEW r \in Raws \ shared' PROVE ItemOK(r)'
    <3>1. ItemOK(r)
      BY <1>1 DEF Inv, OneTask
    <3> QED BY <1>1, <1>2, <3>1, NullIds DEF ItemOK
  <2>2. ASSUME NEW r \in Raws \ (lost' \cup shared'), NEW t \in Tasks PROVE TaskKnown(r, t)'
    <3>1. TaskKnown(r, t) /\ \A w \in Workers : At(w, "link") => Item(w) # r
      BY <1>1 DEF Inv, OneTask
    <3> QED BY <1>1, <3>1 DEF TaskKnown
  <2> QED BY <2>1, <2>2 DEF OneTask
<1> QED BY <1>1, <1>2, <1>6, <1>7, <1>8, <1>9, <1>10 DEF Inv, Typing

LEMMA InitInv == Init => Inv
<1> SUFFICES ASSUME Init PROVE Inv
  OBVIOUS
<1> DEFINE Open == {[st |-> "OPEN", claimed |-> FALSE, raw |-> r] : r \in Raws}
           row(r) == [st |-> "PUBLISHED", should |-> "yes",
                      task |-> CHOOSE t \in Tasks : task[t].raw = r]
<1>1. /\ AtRest /\ run = [n \in Runs |-> [type |-> "none", st |-> "none"]]
      /\ task \in [Tasks -> {NoTask} \cup Open]
      /\ \A t, u \in Tasks : t < u /\ task[u] # NoTask => task[t].raw \notin {task[u].raw, None}
      /\ requests = 0 /\ faults = 0
      /\ lost = {} /\ shared = {} /\ dropped = {} /\ stranded = {} /\ alone = {}
  BY DEF Init, AtRest
<1>2. PICK pending \in SUBSET {r \in Raws : \A t \in Tasks : task[t].raw # r} :
        raw = [r \in Raws |->
                 IF r \in pending THEN [NoRow EXCEPT !.st = "PENDING"]
                 ELSE IF \E t \in Tasks : task[t].raw = r THEN row(r) ELSE NoRow]
  BY DEF Init
<1>3. Resting
  BY <1>1, NobodyAtWork
<1>4. \A x \in Open : x \in TaskRows /\ x.raw \in Raws
  <2> SUFFICES ASSUME NEW r \in Raws
               PROVE  /\ [st |-> "OPEN", claimed |-> FALSE, raw |-> r] \in TaskRows
                      /\ [st |-> "OPEN", claimed |-> FALSE, raw |-> r].raw \in Raws
    OBVIOUS
  <2> QED BY DEF TaskRows
<1>5. task \in [Tasks -> TaskRows] /\ \A t \in Tasks : task[t].raw \in Raws => task[t] # NoTask
  BY <1>1, <1>4, NoTaskOK, NullIds
<1>6. \A t, u \in Tasks : task[t].raw = task[u].raw /\ task[t].raw \in Raws => t = u
  <2> SUFFICES ASSUME NEW t \in Tasks, NEW u \in Tasks, t < u,
                      task[t].raw = task[u].raw, task[u].raw \in Raws PROVE FALSE
    BY GeneratorAssumption DEF Tasks
  <2> QED BY <1>1, <1>5
<1>7. \A r \in Raws, t \in Tasks : task[t].raw = r => raw[r] = row(r) /\ row(r).task = t
  <2> SUFFICES ASSUME NEW r \in Raws, NEW t \in Tasks, task[t].raw = r
               PROVE  raw[r] = row(r) /\ row(r).task = t
    OBVIOUS
  <2>1. (CHOOSE x \in Tasks : task[x].raw = r) = t
    BY <1>6
  <2>2. raw[r] = row(r)
    BY <1>2
  <2> QED BY <2>1, <2>2
<1>8. \A r \in Raws : (\A t \in Tasks : task[t].raw # r)
                        => raw[r] \in {[NoRow EXCEPT !.st = "PENDING"], NoRow}
  BY <1>2
<1>9. /\ [NoRow EXCEPT !.st = "PENDING"] \in Rows /\ [NoRow EXCEPT !.st = "PENDING"].task = NoId
      /\ [NoRow EXCEPT !.st = "PENDING"].st = "PENDING" /\ NoRow.st = "none"
  BY DEF NoRow, Rows, RawStatus
<1>10. ASSUME NEW r \in Raws
       PROVE  /\ raw[r] \in Rows /\ raw[r].st # "SCORING"
              /\ raw[r].task # NoId => task[raw[r].task].raw = r
              /\ raw[r].st \in {"PENDING", "SCORING", "SCORED"} => raw[r].task = NoId
  <2>1. CASE \E t \in Tasks : task[t].raw = r
    <3>1. PICK t \in Tasks : task[t].raw = r
      BY <2>1
    <3>2. raw[r] = row(r) /\ row(r).task = t
      BY <1>7, <3>1
    <3>3. row(r).st = "PUBLISHED" /\ row(r) \in Rows
      BY <3>2 DEF Rows, RawStatus
    <3> QED BY <3>1, <3>2, <3>3
  <2>2. CASE \A t \in Tasks : task[t].raw # r
    BY <1>8, <1>9, <2>2, NoRowOK
  <2> QED BY <2>1, <2>2
<1>11. raw \in [Raws -> Rows]
  BY <1>2, <1>10
<1>12. TypeOK
  <2>1. run \in [Runs -> [type : RunTypes \cup {"none"}, st : RunStatus \cup {"none"}]]
    BY <1>1
  <2>2. requests \in 0 .. MaxRequests /\ faults \in 0 .. MaxFaults
    BY <1>1, GeneratorAssumption
  <2> QED BY <1>1, <1>3, <1>5, <1>10, <1>11, <2>1, <2>2 DEF TypeOK, Resting
<1>13. Typing
  BY <1>1, <1>3, <1>12 DEF Typing, Resting, QueueOK
<1>14. RunInHand /\ RunKnown
  BY <1>1, <1>3, IdleOK, NullIds DEF RunInHand, RunKnown, Resting, At
<1>15. ScoringInHand
  BY <1>10 DEF ScoringInHand
<1>16. OneTask
  <2>1. \A r \in Raws : ItemOK(r)
    BY <1>3, <1>10, NullIds DEF ItemOK, Resting
  <2>2. ASSUME NEW r \in Raws, NEW t \in Tasks PROVE TaskKnown(r, t)
    <3> SUFFICES ASSUME task[t].raw = r PROVE raw[r].task = t
      BY DEF TaskKnown
    <3> HIDE DEF row
    <3> QED BY <1>7
  <2> QED BY <2>1, <2>2 DEF OneTask
<1> QED BY <1>1, <1>13, <1>14, <1>15, <1>16 DEF Inv

LEMMA StepInv == Inv /\ [Next]_vars => Inv'
<1> SUFFICES ASSUME Inv, [Next]_vars PROVE Inv'
  OBVIOUS
<1>1. CASE UNCHANGED vars
  <2>1. UNCHANGED <<raw, worker, run, task, requests, faults, lost, shared, dropped, stranded, alone>>
    BY <1>1 DEF vars
  <2>2. TypeOK' /\ QueueOK' /\ HandsOK' /\ RunInHand' /\ RunKnown' /\ ScoringInHand'
    BY <2>1 DEF Inv, Typing, TypeOK, QueueOK, HandsOK, SnapOK, RunInHand, RunKnown,
                ScoringInHand, At, Item
  <2>3. OneTask'
    BY <2>1 DEF Inv, OneTask, ItemOK, TaskKnown, InHand, ForTask, At, Item, Phase
  <2>4. \A w \in alone : Fresh(w)' /\ Heals(w)'
    BY <2>1 DEF Inv, Fresh, Heals, Healed, Snap, Now, Phase, At, InHand, Item
  <2> QED BY <2>1, <2>2, <2>3, <2>4 DEF Inv, Typing
<1>2. CASE Next
  <2>1. ASSUME NEW type \in RunTypes, StartRun(type) \/ \E c \in Calls : Call(c, type) PROVE Inv'
    BY <2>1, StepStartRun, StepCall
  <2>2. CASE FindRun \/ FindRunLost \/ StoreError \/ OutcomeLost \/ Crash
    BY <2>2, StepFindRun, StepFindRunLost, StepStoreError, StepOutcomeLost, StepCrash
  <2>3. ASSUME NEW w \in Workers, Work(w) \/ ScoreFails(w) \/ Throw(w) \/ LockLost(w) PROVE Inv'
    BY <2>3, StepReadList, StepEndPhase, StepTake, StepEnd, StepLook, StepReuse, StepStore,
       StepStoreSkipped, StepHide, StepCancel, StepReview, StepLock, StepScore, StepFailed,
       StepCreate, StepLink, StepCollides, StepScoreFails, StepThrow,
       StepLockLost DEF Work
  <2>4. ASSUME NEW t \in Tasks, People(t) PROVE Inv'
    BY <2>4, StepPeople
  <2> QED BY <1>2, <2>1, <2>2, <2>3, <2>4 DEF Next
<1> QED BY <1>1, <1>2
-------------------------------------------------------------------------------
(***************************************************************************)
(* The theorems.                                                            *)
(***************************************************************************)
THEOREM Invariance == Spec => []Inv
BY InitInv, StepInv, PTL DEF Spec

\* Every row refers to a task about its own item (task-generator.service.ts, publishing).
THEOREM TypeCorrect == Spec => []TypeOK
<1>1. Inv => TypeOK
  BY DEF Inv, Typing
<1> QED BY <1>1, Invariance, PTL

\* An item becomes at most one task, however often and by however many workers it is fetched,
\* scored and published, unless two of them had it at a time or its row never learnt of it.
THEOREM OneTaskPerItem == Spec => []PublishedOnce
<1>1. Inv => PublishedOnce
  <2> SUFFICES ASSUME Inv, NEW r \in Raws \ (lost \cup shared)
               PROVE  Cardinality({t \in Tasks : task[t].raw = r}) <= 1
    BY DEF PublishedOnce
  <2> DEFINE made == {t \in Tasks : task[t].raw = r}
  <2>1. ItemOK(r) /\ \A t \in Tasks : TaskKnown(r, t)
    BY DEF Inv, OneTask
  <2>2. \A w \in Workers : At(w, "link") /\ Item(w) = r => raw[r].task = NoId
    BY <2>1 DEF ItemOK, ForTask, At
  <2>3. \A t, u \in made : t = u
    BY <2>1, <2>2, NullIds DEF TaskKnown, ItemOK, InHand
  <2>4. CASE made = {}
    BY <2>4, FS_EmptySet
  <2>5. CASE made # {}
    <3>1. PICK t \in made : TRUE
      BY <2>5
    <3>2. made = {t}
      BY <2>3, <3>1
    <3>3. Cardinality({t}) = 1
      BY FS_Singleton
    <3> QED BY <3>2, <3>3
  <2> QED BY <2>4, <2>5
<1> QED BY <1>1, Invariance, PTL

\* No row is left in SCORING, where no run and no request takes it again, unless the process
\* ended under it, or the answer to the write of SCORING or the write of FAILED failed.
THEOREM NoneStuckScoring == Spec => []ScoringInHand
<1>1. Inv => ScoringInHand
  BY DEF Inv
<1> QED BY <1>1, Invariance, PTL

\* A run is RUNNING only while the drain works at it, unless the database did not answer the
\* write of RUNNING or refused that of FAILED.
THEOREM NoneStuckRunning == Spec => []RunInHand
<1>1. Inv => RunInHand
  BY DEF Inv
<1> QED BY <1>1, Invariance, PTL

\* An undisturbed reconciliation leaves no task open under a skipped row that names it, and
\* none under review there to which nobody submitted.
THEOREM ReconciliationHeals == Spec => ReconcileHeals
<1> DEFINE A == \A w \in alone, r \in Github :
       EndPhase(w) /\ Phase(w) = "reconcile" /\ raw[r].st = "SKIPPED" /\ raw[r].task # NoId
         => /\ task[raw[r].task].st # "OPEN"
            /\ task[raw[r].task].st = "REVIEWING" => task[raw[r].task].claimed
<1>1. Inv => A
  <2> SUFFICES ASSUME Inv, NEW w \in alone, NEW r \in Github, EndPhase(w), Phase(w) = "reconcile"
               PROVE  Healed(r)
    BY DEF Healed
  <2>1. /\ w \in Workers /\ worker[w].at = "next" /\ worker[w].list = {} /\ WorkerOK(worker[w])
        /\ Heals(w)
    BY WorkerIs DEF Inv, Typing, TypeOK, EndPhase, At
  <2>2. InHand(w) = {None} /\ r # None
    BY <2>1, NameOK, NullIds DEF InHand, Item, WorkerOK, ItemPlaces, Raws
  <2> QED BY <2>1, <2>2 DEF Heals
<1>2. Inv /\ [Next]_vars => [A]_vars
  BY <1>1
<1> QED BY <1>2, Invariance, PTL DEF ReconcileHeals, Spec

\* Who writes a task.
LEMMA TaskWriters == ASSUME Next, task' # task
  PROVE worker' = worker \/ \E o \in Workers : Cancel(o) \/ Review(o) \/ Create(o)
<1>1. ASSUME NEW o \in Workers, Work(o) PROVE task' = task \/ Cancel(o) \/ Review(o) \/ Create(o)
  BY <1>1 DEF Work, ReadList, EndPhase, Take, End, Look, Reuse, Store, StoreSkipped, Hide, Lock,
              Score, Failed, Link, Collides, Put
<1>2. ASSUME NEW o \in Workers, ScoreFails(o) \/ Throw(o) \/ LockLost(o) PROVE task' = task
  BY <1>2 DEF ScoreFails, Throw, LockLost
<1>3. ASSUME FindRun \/ FindRunLost \/ StoreError \/ OutcomeLost \/ Crash PROVE task' = task
  BY <1>3 DEF FindRun, FindRunLost, StoreError, OutcomeLost, Crash
<1>4. ASSUME NEW type \in RunTypes, StartRun(type) \/ \E c \in Calls : Call(c, type) PROVE task' = task
  BY <1>4 DEF StartRun, Call
<1>5. ASSUME NEW t \in Tasks, People(t) PROVE worker' = worker
  BY <1>5 DEF People, Submit, Approve, StartReview, OwnerCancels
<1> QED BY <1>1, <1>2, <1>3, <1>4, <1>5 DEF Next

\* An undisturbed worker changes the status of a task only while that is open or under review,
\* and an open one somebody submitted to goes under review; one under review that somebody
\* submitted to is cancelled by nobody but the reconciliation.
THEOREM ClaimedTasksKept == Spec => ClaimedIsKept
<1> DEFINE Kept(w, t) ==
             /\ task[t].st \in {"OPEN", "REVIEWING"}
             /\ task[t].claimed => IF task[t].st = "OPEN" THEN task'[t].st = "REVIEWING"
                                   ELSE Phase(w) = "reconcile"
           A == \A w \in Workers, t \in Tasks :
             w \in alone /\ worker'[w] # worker[w] /\ task[t].st # "none" /\ task'[t].st # task[t].st
               => Kept(w, t)
<1>1. Inv /\ [Next]_vars => [A]_vars
  <2> SUFFICES ASSUME Inv, Next, NEW w \in alone, NEW t \in Tasks, w \in Workers,
                      worker'[w] # worker[w], task[t].st # "none", task'[t].st # task[t].st
               PROVE  Kept(w, t)
    BY DEF vars
  <2>1. PICK o \in Workers : Cancel(o) \/ Review(o) \/ Create(o)
    BY TaskWriters
  <2>2. Typing /\ WorkerOK(worker[w]) /\ worker[w].hold \in Snaps /\ Fresh(w) /\ NoTask.st = "none"
    BY WorkerIs, NoTaskOK DEF Inv
  <2>3. CASE Create(o)
    BY <2>2, <2>3, CreateIs
  <2>4. ASSUME NEW st \in {"CANCELLED", "REVIEWING"}, SetTask(o, st),
               Go(o, "hide") \/ NextItem(o), worker[o].at = IF st = "CANCELLED" THEN "cancel" ELSE "review"
        PROVE  Kept(w, t)
    <3>1. o = w
      BY <2>2, <2>4 DEF Go, NextItem, Typing
    <3>2. t = worker[w].hold.row.task /\ task'[t].st = st
      BY <2>2, <2>4, <3>1, SetTaskRows
    <3>3. Now(worker[w].hold)
      BY <2>2, <2>4, <3>1 DEF Fresh
    <3>4. worker[w].hold.task = task[t]
      BY <3>2, <3>3, NullIds DEF Now
    <3>5. CASE st = "CANCELLED"
      <4>1. /\ task[t].st \in {"OPEN", "REVIEWING"}
            /\ task[t].claimed => task[t].st = "REVIEWING" /\ Phase(w) = "reconcile"
        BY <2>2, <2>4, <3>1, <3>4, <3>5 DEF WorkerOK, Phase
      <4> QED BY <4>1
    <3>6. CASE st = "REVIEWING"
      <4>1. task[t].st = "OPEN"
        BY <2>2, <2>4, <3>1, <3>4, <3>6 DEF WorkerOK
      <4> QED BY <4>1, <3>2, <3>6
    <3> QED BY <3>5, <3>6
  <2>5. CASE Cancel(o)
    BY <2>4, <2>5 DEF Cancel, At
  <2>6. CASE Review(o)
    BY <2>4, <2>6 DEF Review, At
  <2> QED BY <2>1, <2>3, <2>5, <2>6
<1> QED BY <1>1, Invariance, PTL DEF ClaimedIsKept, Spec
================================================================================
