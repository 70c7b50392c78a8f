-------------------------- MODULE ProjectBoardProofs --------------------------
(***************************************************************************)
(* Proofs about ProjectBoard: for any number of handlers under way at a     *)
(* time, whose statements interleave at will, its safety properties hold    *)
(* of every step of every handler.                                         *)
(*                                                                         *)
(* A step of one handler is seen by another one in one of two ways: either  *)
(* it writes nothing, or the other one has been overtaken and knows nothing *)
(* any more.  Rows never go away, so what a handler has in hand stays.      *)
(***************************************************************************)
EXTENDS ProjectBoard, FiniteSetTheorems, WellFoundedInduction, TLAPS

\* The tables have the shapes declared.
TablesTyped ==
  /\ item \in [Items -> ItemRows] /\ asg \in [Asgs -> AsgRows] /\ run \in [Runs -> RunRows]
  /\ review \subseteq ReviewRows /\ goal \in [Goals -> GoalStatuses \cup {"none"}]

\* No row goes away or changes what it refers to.
Grows ==
  /\ \A i \in Items : Exists(i) => Exists(i)'
  /\ \A a \in Placed : a \in Placed' /\ asg'[a].item = asg[a].item /\ asg'[a].role = asg[a].role
  /\ \A r \in Runs : run[r].st # "none" => run'[r].st # "none" /\ run'[r].item = run[r].item
  /\ review \subseteq review'

Same == UNCHANGED <<item, asg, run, review, goal>>

\* What a step of the board leaves to the goals' module.
Framed ==
  /\ goal' = goal
  /\ cascade' = [c \in Calls |-> IF call'[c] = Idle THEN Nothing ELSE cascade[c]]
  /\ requests' \in 0 .. MaxRequests

\* What a handler knows, whatever its snapshot.
Sees(h) == \A k \in Cascades : Knows(h, k)

\* What a loop has read of items that were not over.
StillOpen(h) ==
  h.op = "reconcile" => \A t \in h.todo : t.over \/ item[asg[t.asg].item].st \notin Terminal
--------------------------------------------------------------------------------
(***************************************************************************)
(* Numbers and sets.                                                       *)
(***************************************************************************)
\* A nonempty set of natural numbers has a least one.
LEMMA Least == ASSUME NEW S \in SUBSET Nat, S # {}
               PROVE  \E m \in S : \A n \in S : m <= n
<1> DEFINE R == OpToRel(<, Nat)
<1>1. IsWellFoundedOn(R, Nat)
  BY NatLessThanWellFounded
<1>2. \A m, n \in Nat : <<m, n>> \in R <=> m < n
  BY DEF OpToRel
<1> HIDE DEF R
<1>3. PICK m \in S : \A n \in S : ~ (<<n, m>> \in R)
  BY <1>1, WFMin
<1>4. \A n \in S : ~ (n < m)
  BY <1>2, <1>3
<1> QED BY <1>4

\* A nonempty set of numbers up to N has a greatest one.
LEMMA Latest == ASSUME NEW N \in Nat, NEW S \in SUBSET (1 .. N), S # {}
                PROVE  \E m \in S : \A n \in S : n <= m
<1> DEFINE T == {N - a : a \in S}
<1>1. T \in SUBSET Nat /\ T # {}
  <2>1. \A a \in S : N - a \in Nat
    OBVIOUS
  <2>2. T \in SUBSET Nat
    BY <2>1
  <2>3. T # {}
    OBVIOUS
  <2> QED BY <2>2, <2>3
<1>2. PICK m \in T : \A n \in T : m <= n
  BY <1>1, Least
<1>3. PICK a \in S : m = N - a
  OBVIOUS
<1>4. \A b \in S : N - a <= N - b
  BY <1>2, <1>3
<1>5. \A b \in S : b <= a
  BY <1>4
<1> QED BY <1>5

\* The next assignment is numbered after the ones there are.
LEMMA NextNumber == ASSUME RowsOK
                    PROVE  /\ Cardinality(Placed) \in 0 .. MaxAsg
                           /\ Placed = 1 .. Cardinality(Placed)
<1>1. PICK n \in 0 .. MaxAsg : Placed = 1 .. n
  BY DEF RowsOK
<1>2. Cardinality(1 .. n) = n
  BY <1>1, FS_Interval, BoardAssumption
<1> QED BY <1>1, <1>2

\* One more member makes a set at most one larger.
LEMMA OneMore == ASSUME NEW S, IsFiniteSet(S), NEW x, NEW T, T \subseteq S \cup {x}
                 PROVE  /\ IsFiniteSet(T) /\ Cardinality(S) \in Nat /\ Cardinality(T) \in Nat
                        /\ Cardinality(T) <= Cardinality(S) + 1
<1>1. /\ IsFiniteSet(S \cup {x}) /\ Cardinality(S) \in Nat
      /\ Cardinality(S \cup {x}) = IF x \in S THEN Cardinality(S) ELSE Cardinality(S) + 1
  BY FS_AddElement, FS_CardinalityType
<1>2. IsFiniteSet(T) /\ Cardinality(T) <= Cardinality(S \cup {x}) /\ Cardinality(T) \in Nat
  BY <1>1, FS_Subset, FS_CardinalityType
<1> QED BY <1>1, <1>2
--------------------------------------------------------------------------------
(***************************************************************************)
(* What stays when somebody else takes a step.                             *)
(***************************************************************************)
LEMMA HoldsStays == ASSUME NEW h, Holds(h), Grows PROVE Holds(h)'
BY DEF Holds, Grows

LEMMA FoundStays == ASSUME NEW k, k.runs \subseteq Runs, Found(k), Grows PROVE Found(k)'
BY DEF Found, Grows

LEMMA KnowsStays == ASSUME NEW h, NEW k, Knows(h, k), Same PROVE Knows(h, k)'
<1>1. /\ item' = item /\ asg' = asg /\ run' = run /\ review' = review /\ goal' = goal
  BY DEF Same
<1>2. OpenItems' = OpenItems /\ ActiveGoals' = ActiveGoals
  BY <1>1 DEF OpenItems, ActiveGoals
<1>3. /\ OpenOn(h.item)' = OpenOn(h.item) /\ OpenWork(h.goal)' = OpenWork(h.goal)
      /\ \A v \in Verdicts : NeedsReview(h.item, v)' = NeedsReview(h.item, v)
  BY <1>1, <1>2 DEF OpenOn, OpenWork, ItemsOf, Exists, NeedsReview
<1> QED BY <1>1, <1>2, <1>3 DEF Knows

LEMMA SameGrows == ASSUME Same PROVE Grows
BY DEF Same, Grows, Exists, Placed

LEMMA SameTables == ASSUME TablesTyped, RowsOK, Same PROVE TablesTyped' /\ RowsOK'
<1>1. TablesTyped'
  BY DEF Same, TablesTyped
<1>2. Placed' = Placed
  BY DEF Same, Placed
<1>3. RowsOK'
  BY <1>2 DEF Same, RowsOK, Exists
<1> QED BY <1>1, <1>3

\* The parts of the invariant that the steps use.
LEMMA InvParts == ASSUME Inv
                  PROVE  /\ TablesTyped /\ RowsOK /\ requests \in 0 .. MaxRequests
                         /\ call \in [Calls -> Handlers] /\ alone \in [Calls -> BOOLEAN]
                         /\ cascade \in [Calls -> Cascades]
BY DEF Inv, TypeOK, TablesTyped

LEMMA NothingOK == Nothing \in Cascades /\ Found(Nothing) /\ Found(Nothing)'
BY DEF Nothing, Cascades, Found

\* A handler that is idle.
LEMMA IdleOK == /\ Idle \in Handlers /\ Fits(Idle) /\ Holds(Idle) /\ Holds(Idle)'
                /\ Sees(Idle) /\ Sees(Idle)'
<1>1. Idle \in Handlers
  BY DEF Idle, Handlers, Ops, Steps, Roles
<1>2. Fits(Idle)
  BY DEF Idle, Fits, Updaters, Senders
<1>3. Holds(Idle) /\ Holds(Idle)'
  BY BoardAssumption DEF Idle, Holds
<1>4. Sees(Idle) /\ Sees(Idle)'
  BY DEF Idle, Sees, Knows, Updaters, Senders
<1> QED BY <1>1, <1>2, <1>3, <1>4
--------------------------------------------------------------------------------
(***************************************************************************)
(* The kinds of steps.                                                     *)
(***************************************************************************)
\* Every step of a handler.
LEMMA StepKeeps ==
  ASSUME Inv, NEW c \in Calls, NEW h \in Handlers, NEW k \in Cascades,
         TablesTyped', RowsOK', Grows, requests' \in 0 .. MaxRequests,
         call' = [call EXCEPT ![c] = h],
         alone' \in [Calls -> BOOLEAN],
         \A d \in Calls \ {c} : alone'[d] => alone[d] /\ Same,
         cascade' \in [Calls -> Cascades], cascade'[c] = k,
         \A d \in Calls \ {c} : cascade'[d] = cascade[d] \/ (call[d] = Idle /\ cascade'[d] = Nothing),
         Fits(h), Holds(h)', Found(k)', alone'[c] => Knows(h, k)'
  PROVE  Inv'
<1>1. TypeOK'
  BY InvParts DEF TypeOK, TablesTyped
<1>2. ASSUME NEW d \in Calls
      PROVE  (Fits(call[d]) /\ Holds(call[d]) /\ Found(cascade[d]) /\ (alone[d] => Knows(call[d], cascade[d])))'
  <2>1. CASE d = c
    <3>1. call'[c] = h /\ cascade'[c] = k
      BY InvParts
    <3> QED BY <2>1, <3>1
  <2>2. CASE d # c
    <3>1. PICK g \in Handlers : g = call[d]
      BY InvParts
    <3>2. PICK l \in Cascades : l = cascade'[d]
      OBVIOUS
    <3>3. call'[d] = g
      BY <2>2, <3>1, InvParts
    <3>4. Fits(g) /\ Holds(g) /\ Found(cascade[d]) /\ (alone[d] => Knows(g, cascade[d]))
      BY <3>1 DEF Inv
    <3>5. Found(l)' /\ (alone[d] => Knows(g, l))
      <4>1. CASE l = cascade[d]
        <5>1. l.runs \subseteq Runs
          BY DEF Cascades
        <5> QED BY <3>4, <4>1, <5>1, FoundStays
      <4>2. CASE g = Idle /\ l = Nothing
        <5>1. Sees(Idle)
          BY IdleOK
        <5> QED BY <4>2, <5>1, NothingOK DEF Sees
      <4> QED BY <2>2, <3>1, <3>2, <4>1, <4>2
    <3>6. Holds(g)'
      BY <3>4, HoldsStays
    <3>7. alone'[d] => Knows(g, l)'
      BY <2>2, <3>5, KnowsStays
    <3> QED BY <3>2, <3>3, <3>4, <3>5, <3>6, <3>7
  <2> QED BY <2>1, <2>2
<1> QED BY <1>1, <1>2 DEF Inv

\* A step of the board.
LEMMA BoardKeeps ==
  ASSUME Inv, NEW c \in Calls, NEW h \in Handlers,
         TablesTyped', RowsOK', Grows, Framed,
         call' = [call EXCEPT ![c] = h],
         alone' \in [Calls -> BOOLEAN],
         \A d \in Calls \ {c} : alone'[d] => alone[d] /\ Same,
         Fits(h), Holds(h)', alone'[c] => Sees(h)'
  PROVE  Inv'
<1>1. PICK k : k = cascade'[c]
  OBVIOUS
<1>2. cascade \in [Calls -> Cascades] /\ call \in [Calls -> Handlers]
  BY InvParts
<1>3. Nothing \in Cascades
  BY NothingOK
<1>4. cascade' \in [Calls -> Cascades] /\ (k = Nothing \/ k = cascade[c]) /\ k \in Cascades
  BY <1>1, <1>2, <1>3 DEF Framed
<1>5. \A d \in Calls \ {c} : cascade'[d] = cascade[d] \/ (call[d] = Idle /\ cascade'[d] = Nothing)
  BY <1>2 DEF Framed
<1>6. Found(k)'
  <2>1. CASE k = Nothing
    BY <2>1, NothingOK
  <2>2. CASE k = cascade[c]
    <3>1. k.runs \subseteq Runs
      BY <1>4 DEF Cascades
    <3>2. Found(k)
      BY <2>2 DEF Inv
    <3> QED BY <3>1, <3>2, FoundStays
  <2> QED BY <1>4, <2>1, <2>2
<1>7. alone'[c] => Knows(h, k)'
  BY <1>4 DEF Sees
<1>8. requests' \in 0 .. MaxRequests
  BY DEF Framed
<1> QED BY <1>1, <1>4, <1>5, <1>6, <1>7, <1>8, StepKeeps

\* A statement that writes no table ...
LEMMA ReadKeeps ==
  ASSUME Inv, NEW c \in Calls, NEW h \in Handlers, UNCHANGED <<item, asg, run, review>>, Framed,
         Goes(c, h), Unseen, Fits(h), Holds(h), alone[c] => Sees(h)
  PROVE  Inv'
<1>1. Same
  BY DEF Same, Framed
<1>2. TablesTyped' /\ RowsOK' /\ Grows
  BY <1>1, SameTables, SameGrows, InvParts
<1>3. Holds(h)' /\ (alone[c] => Sees(h)')
  BY <1>1, <1>2, HoldsStays, KnowsStays DEF Sees
<1>4. alone' = alone /\ alone \in [Calls -> BOOLEAN]
  BY InvParts DEF Unseen
<1> QED BY <1>1, <1>2, <1>3, <1>4, BoardKeeps DEF Goes

\* ... the first one of a handler.
LEMMA BeginKeeps ==
  ASSUME Inv, NEW c \in Calls, NEW h \in Handlers, UNCHANGED <<item, asg, run, review>>, Framed,
         Begins(c, h), Fits(h), Holds(h), Sees(h)
  PROVE  Inv'
<1>1. Same
  BY DEF Same, Framed
<1>2. TablesTyped' /\ RowsOK' /\ Grows
  BY <1>1, SameTables, SameGrows, InvParts
<1>3. Holds(h)' /\ Sees(h)'
  BY <1>1, <1>2, HoldsStays, KnowsStays DEF Sees
<1>4. alone' \in [Calls -> BOOLEAN] /\ \A d \in Calls \ {c} : alone'[d] => alone[d]
  BY InvParts DEF Begins
<1> QED BY <1>1, <1>2, <1>3, <1>4, BoardKeeps DEF Begins

\* A statement that writes overtakes everybody else.
LEMMA WriteKeeps ==
  ASSUME Inv, NEW c \in Calls, NEW h \in Handlers, NEW b \in BOOLEAN,
         TablesTyped', RowsOK', Grows, Framed,
         Goes(c, h), alone' = [d \in Calls |-> d = c /\ b],
         Fits(h), Holds(h)', b => Sees(h)'
  PROVE  Inv'
<1>1. alone' \in [Calls -> BOOLEAN] /\ alone'[c] = b /\ \A d \in Calls \ {c} : ~ alone'[d]
  OBVIOUS
<1> QED BY <1>1, BoardKeeps DEF Goes

\* A handler of one statement.
LEMMA NobodyKnows ==
  ASSUME Inv, TablesTyped', RowsOK', Grows, requests' \in 0 .. MaxRequests,
         cascade' \in [Calls -> Cascades], \A d \in Calls : cascade'[d] \in {Nothing, cascade[d]},
         UNCHANGED call, alone' = [d \in Calls |-> FALSE]
  PROVE  Inv'
<1>1. call \in [Calls -> Handlers]
  BY InvParts
<1>2. TypeOK'
  BY <1>1 DEF TypeOK, TablesTyped
<1>3. ASSUME NEW d \in Calls
      PROVE  (Fits(call[d]) /\ Holds(call[d]) /\ Found(cascade[d]) /\ (alone[d] => Knows(call[d], cascade[d])))'
  <2>1. PICK g \in Handlers : g = call[d]
    BY <1>1
  <2>2. PICK l \in Cascades : l = cascade'[d]
    OBVIOUS
  <2>3. call'[d] = g /\ ~ alone'[d]
    BY <2>1
  <2>4. Fits(g) /\ Holds(g) /\ Found(cascade[d])
    BY <2>1 DEF Inv
  <2>5. l = Nothing \/ l = cascade[d]
    BY <2>2
  <2>6. Found(l)'
    <3>1. l.runs \subseteq Runs
      BY DEF Cascades
    <3> QED BY <2>4, <2>5, <3>1, FoundStays, NothingOK
  <2>7. Holds(g)'
    BY <2>4, HoldsStays
  <2> QED BY <2>2, <2>3, <2>4, <2>6, <2>7
<1> QED BY <1>2, <1>3 DEF Inv

LEMMA DirectKeeps ==
  ASSUME Inv, TablesTyped', RowsOK', Grows, Framed,
         UNCHANGED call, alone' = [d \in Calls |-> FALSE]
  PROVE  Inv'
<1>1. cascade \in [Calls -> Cascades] /\ Nothing \in Cascades
  BY InvParts, NothingOK
<1>2. /\ requests' \in 0 .. MaxRequests /\ cascade' \in [Calls -> Cascades]
      /\ \A d \in Calls : cascade'[d] \in {Nothing, cascade[d]}
  BY <1>1 DEF Framed
<1> QED BY <1>2, NobodyKnows
--------------------------------------------------------------------------------
(***************************************************************************)
(* What the writes do to the tables.                                       *)
(***************************************************************************)
\* Items are written: none goes away.
LEMMA ItemsWritten ==
  ASSUME TablesTyped, RowsOK, item' \in [Items -> ItemRows], \A i \in Items : Exists(i) => Exists(i)',
         UNCHANGED <<asg, run, review, goal>>
  PROVE  TablesTyped' /\ RowsOK' /\ Grows
<1>1. TablesTyped'
  BY DEF TablesTyped
<1>2. Placed' = Placed
  BY DEF Placed
<1>3. RowsOK'
  BY <1>2 DEF RowsOK
<1>4. Grows
  BY <1>2 DEF Grows
<1> QED BY <1>1, <1>3, <1>4

LEMMA ItemSet ==
  ASSUME TablesTyped, RowsOK, NEW i \in Items, Exists(i), NEW s \in Statuses,
         item' = [item EXCEPT ![i].st = s], UNCHANGED <<asg, run, review, goal>>
  PROVE  TablesTyped' /\ RowsOK' /\ Grows
<1>1. item' \in [Items -> ItemRows]
  BY DEF TablesTyped, ItemRows
<1>2. s # "none"
  BY DEF Statuses, Claimable, Terminal, Completed
<1>3. \A j \in Items : Exists(j) => Exists(j)'
  BY <1>2 DEF TablesTyped, ItemRows, Exists
<1> QED BY <1>1, <1>3, ItemsWritten

\* An assignment gets another status.
LEMMA AsgSet ==
  ASSUME TablesTyped, RowsOK, NEW a \in Placed, NEW s \in AsgStatuses,
         asg' = [asg EXCEPT ![a].st = s], UNCHANGED <<item, run, review, goal>>
  PROVE  TablesTyped' /\ RowsOK' /\ Grows /\ Placed' = Placed
<1>1. a \in Asgs /\ s # "none"
  BY DEF Placed, AsgStatuses
<1>2. asg' \in [Asgs -> AsgRows]
  BY <1>1 DEF TablesTyped, AsgRows
<1>3. \A b \in Asgs : /\ asg'[b].item = asg[b].item /\ asg'[b].role = asg[b].role
                      /\ asg'[b].st = IF b = a THEN s ELSE asg[b].st
  BY <1>1 DEF TablesTyped, AsgRows
<1>4. Placed' = Placed
  BY <1>1, <1>3 DEF Placed
<1>5. TablesTyped'
  BY <1>2 DEF TablesTyped
<1>6. RowsOK'
  BY <1>3, <1>4 DEF RowsOK, Exists, Placed
<1>7. Grows
  BY <1>3, <1>4 DEF Grows, Exists, Placed
<1> QED BY <1>4, <1>5, <1>6, <1>7

\* An assignment is placed.
LEMMA AsgPlaced ==
  ASSUME TablesTyped, RowsOK, NEW i \in Items, Exists(i), NEW role \in Roles, Place(i, role),
         UNCHANGED <<item, run, review, goal>>
  PROVE  /\ TablesTyped' /\ RowsOK' /\ Grows
         /\ Cardinality(Placed) + 1 \in Asgs /\ Cardinality(Placed) + 1 \in Placed'
         /\ asg'[Cardinality(Placed) + 1].item = i
<1>1. PICK n \in 0 .. MaxAsg : n = Cardinality(Placed) /\ Placed = 1 .. n
  BY NextNumber
<1>2. PICK a : a = n + 1
  OBVIOUS
<1>3. a \in Asgs /\ asg' = [asg EXCEPT ![a] = [item |-> i, role |-> role, st |-> "PROPOSED"]]
  BY <1>1, <1>2 DEF Place
<1>4. asg' \in [Asgs -> AsgRows]
  BY <1>3 DEF TablesTyped, AsgRows, AsgStatuses
<1>5. /\ asg'[a] = [item |-> i, role |-> role, st |-> "PROPOSED"]
      /\ \A b \in Asgs \ {a} : asg'[b] = asg[b]
  BY <1>3 DEF TablesTyped
<1>6. Placed' = Placed \cup {a}
  BY <1>3, <1>5 DEF Placed
<1>7. Placed \cup {a} = 1 .. a /\ a \in 0 .. MaxAsg
  <2>1. n \in Nat /\ a \in 1 .. MaxAsg
    BY <1>3, BoardAssumption DEF Asgs
  <2>2. (1 .. n) \cup {n + 1} = 1 .. (n + 1)
    BY <2>1
  <2>3. Placed \cup {a} = 1 .. a
    BY <1>1, <1>2, <2>2, Zenon
  <2>4. a \in 0 .. MaxAsg
    BY <2>1, BoardAssumption
  <2> QED BY <2>3, <2>4
<1>8. TablesTyped'
  BY <1>4 DEF TablesTyped
<1>9. a \notin Placed
  <2>1. n \in Nat
    BY BoardAssumption
  <2>2. n + 1 \notin 1 .. n
    BY <2>1
  <2> QED BY <1>1, <1>2, <2>2
<1>10. RowsOK'
  <2>1. \A b \in Placed' : asg'[b].item \in Items /\ Exists(asg'[b].item)
    BY <1>3, <1>5, <1>6 DEF RowsOK, Placed
  <2>2. \E m \in 0 .. MaxAsg : Placed' = 1 .. m
    BY <1>6, <1>7
  <2> QED BY <2>1, <2>2 DEF RowsOK, Exists
<1>11. Grows
  BY <1>5, <1>6, <1>9 DEF Grows, Exists, Placed
<1>12. /\ a \in Asgs /\ a \in Placed' /\ asg'[a].item = i /\ Cardinality(Placed) + 1 = a
  <2>1. Cardinality(Placed) + 1 = a
    BY <1>1, <1>2, Zenon
  <2>2. asg'[a].item = i
    BY <1>5
  <2>3. a \in Placed'
    BY <1>6
  <2> QED BY <1>3, <2>1, <2>2, <2>3
<1> QED BY <1>8, <1>10, <1>11, <1>12

\* Runs and reviews are written.
LEMMA RunsWritten ==
  ASSUME TablesTyped, RowsOK, run' \in [Runs -> RunRows],
         \A r \in Runs : run[r].st # "none" => run'[r].st # "none" /\ run'[r].item = run[r].item,
         \A r \in Runs : run'[r].st # "none" => run'[r].item \in Items /\ Exists(run'[r].item),
         UNCHANGED <<item, asg, review, goal>>
  PROVE  TablesTyped' /\ RowsOK' /\ Grows
<1>1. TablesTyped'
  BY DEF TablesTyped
<1>2. Placed' = Placed
  BY DEF Placed
<1>3. RowsOK'
  BY <1>2 DEF RowsOK, Exists
<1>4. Grows
  BY <1>2 DEF Grows, Exists
<1> QED BY <1>1, <1>3, <1>4

LEMMA ReviewWritten ==
  ASSUME TablesTyped, RowsOK, review \subseteq review', review' \subseteq ReviewRows,
         UNCHANGED <<item, asg, run, goal>>
  PROVE  TablesTyped' /\ RowsOK' /\ Grows
<1>1. TablesTyped'
  BY DEF TablesTyped
<1>2. Placed' = Placed
  BY DEF Placed
<1>3. RowsOK'
  BY <1>2 DEF RowsOK, Exists
<1>4. Grows
  BY <1>2 DEF Grows, Exists
<1> QED BY <1>1, <1>3, <1>4
--------------------------------------------------------------------------------
(***************************************************************************)
(* The handlers, action by action.                                         *)
(***************************************************************************)
\* The handler that takes the step.
LEMMA Present ==
  ASSUME Inv, NEW c \in Calls
  PROVE  \E g \in Handlers : /\ g = call[c] /\ Fits(g) /\ Holds(g)
                             /\ g.step # "commit" /\ alone[c] => Sees(g)
<1>1. PICK g \in Handlers : g = call[c]
  BY InvParts
<1>2. Fits(g) /\ Holds(g) /\ (alone[c] => Knows(g, cascade[c]))
  BY <1>1 DEF Inv
<1>3. ASSUME g.step # "commit", alone[c] PROVE Sees(g)
  BY <1>2, <1>3 DEF Knows, Sees
<1> QED BY <1>1, <1>2, <1>3

\* What its caller goes on with.
LEMMA AfterOK ==
  ASSUME NEW h \in Handlers, h.op = "dispatch" => h.item \in Items
  PROVE  \E g \in Handlers : /\ g = After(h) /\ Fits(g)
                             /\ Holds(h) => Holds(g)
                             /\ Holds(h)' => Holds(g)'
                             /\ StillOpen(h) => Sees(g)
                             /\ StillOpen(h)' => Sees(g)'
<1>1. CASE h.op = "dispatch"
  <2>1. PICK g : g = [h EXCEPT !.step = "place"]
    OBVIOUS
  <2>2. g \in Handlers /\ g.op = "dispatch" /\ g.step = "place" /\ g.item = h.item /\ g.todo = h.todo
    BY <1>1, <2>1 DEF Handlers, Steps
  <2>3. g = After(h)
    BY <1>1, <2>1 DEF After
  <2>4. Fits(g)
    BY <1>1, <2>2 DEF Fits, Updaters, Senders
  <2>5. (Holds(h) => Holds(g)) /\ (Holds(h)' => Holds(g)')
    BY <2>2 DEF Holds
  <2>6. Sees(g) /\ Sees(g)'
    BY <2>2 DEF Sees, Knows
  <2> QED BY <2>2, <2>3, <2>4, <2>5, <2>6
<1>2. CASE h.op = "reconcile" /\ h.todo # {}
  <2>1. PICK g : g = [h EXCEPT !.step = "inspect"]
    OBVIOUS
  <2>2. g \in Handlers /\ g.op = "reconcile" /\ g.step = "inspect" /\ g.item = h.item /\ g.todo = h.todo
    BY <1>2, <2>1 DEF Handlers, Steps
  <2>3. g = After(h)
    BY <1>2, <2>1 DEF After
  <2>4. Fits(g)
    BY <2>2 DEF Fits, Updaters, Senders
  <2>5. (Holds(h) => Holds(g)) /\ (Holds(h)' => Holds(g)')
    BY <2>2 DEF Holds
  <2>6. (StillOpen(h) => Sees(g)) /\ (StillOpen(h)' => Sees(g)')
    BY <1>2, <2>2 DEF StillOpen, Sees, Knows, Updaters, Senders
  <2> QED BY <2>2, <2>3, <2>4, <2>5, <2>6
<1>3. CASE h.op # "dispatch" /\ ~ (h.op = "reconcile" /\ h.todo # {})
  <2>1. After(h) = Idle
    BY <1>3 DEF After
  <2> QED BY <2>1, IdleOK
<1> QED BY <1>1, <1>2, <1>3

\* What a handler that was not overtaken knows of its loop.
LEMMA SeesOpen == ASSUME NEW h, Sees(h) PROVE StillOpen(h)
<1>1. Nothing \in Cascades
  BY NothingOK
<1> QED BY <1>1 DEF Sees, Knows, StillOpen

LEMMA CreateStartKeeps ==
  ASSUME Inv, NEW c \in Calls, NEW g \in Goals \cup {NoGoal}, NEW auto \in BOOLEAN, NEW st \in Statuses,
         Framed, CreateStart(c, g, auto, st)
  PROVE  Inv'
<1>1. PICK s \in Steps : s = IF st \in Terminal THEN "insert" ELSE "capacity"
  BY DEF Steps
<1>2. PICK h : h = [Idle EXCEPT !.op = "create", !.goal = g, !.auto = auto, !.put = st, !.step = s]
  OBVIOUS
<1>3. /\ h \in Handlers /\ h.op = "create" /\ h.put = st /\ h.item = NoItem /\ h.todo = {}
      /\ h.step = s
  BY <1>2, IdleOK DEF Idle, Handlers, Ops
<1>4. Fits(h)
  BY <1>1, <1>3 DEF Fits, Updaters, Senders
<1>5. Holds(h)
  BY <1>1, <1>3, BoardAssumption DEF Holds
<1>6. Sees(h)
  BY <1>1, <1>3 DEF Sees, Knows, Updaters, Senders
<1> QED BY <1>1, <1>2, <1>3, <1>4, <1>5, <1>6, BeginKeeps DEF CreateStart

LEMMA CreateCapacityKeeps ==
  ASSUME Inv, NEW c \in Calls, Framed, CreateCapacity(c)
  PROVE  Inv'
<1>1. PICK g \in Handlers : /\ g = call[c] /\ Fits(g) /\ Holds(g)
                            /\ g.step # "commit" /\ alone[c] => Sees(g)
  BY Present
<1>2. g.step = "capacity"
  BY <1>1 DEF CreateCapacity, Is
<1>3. CASE Cardinality(OpenItems) >= MaxOpen
  BY <1>3, IdleOK, ReadKeeps DEF CreateCapacity
<1>4. CASE ~ (Cardinality(OpenItems) >= MaxOpen)
  <2>1. PICK h : h = [g EXCEPT !.step = "insert"]
    OBVIOUS
  <2>2. /\ h \in Handlers /\ h.op = g.op /\ h.put = g.put /\ h.item = g.item /\ h.todo = g.todo
        /\ h.step = "insert"
    BY <2>1 DEF Handlers, Steps
  <2>3. g.op = "create" /\ g.put \in Statuses
    BY <1>1, <1>2 DEF Fits
  <2>4. Fits(h)
    BY <2>2, <2>3 DEF Fits, Updaters, Senders
  <2>5. Holds(h)
    BY <1>1, <2>2, <2>3 DEF Holds
  <2>6. Cardinality(OpenItems) < MaxOpen
    <3>1. Cardinality(OpenItems) \in Nat
      BY BoardAssumption, FS_Subset, FS_CardinalityType DEF OpenItems
    <3> QED BY <1>4, <3>1, BoardAssumption
  <2>7. Sees(h)
    BY <2>2, <2>3, <2>6 DEF Sees, Knows, Updaters, Senders
  <2>8. Goes(c, h)
    BY <1>1, <1>4, <2>1 DEF CreateCapacity
  <2> QED BY <2>2, <2>4, <2>5, <2>7, <2>8, ReadKeeps DEF CreateCapacity
<1> QED BY <1>3, <1>4

LEMMA CreateInsertKeeps ==
  ASSUME Inv, NEW c \in Calls, NEW i \in Items, NEW under \in Goals \cup {NoGoal}, Framed,
         CreateInsert(c, i, under)
  PROVE  Inv'
<1>1. PICK g \in Handlers : /\ g = call[c] /\ Fits(g) /\ Holds(g)
                            /\ g.step # "commit" /\ alone[c] => Sees(g)
  BY Present
<1>2. g.put \in Statuses /\ g.put # "none"
  BY <1>1 DEF CreateInsert, Is, Fits, Statuses, Claimable, Terminal, Completed
<1>3. PICK t \in ItemRows : t = [st |-> g.put, goal |-> g.goal, under |-> under, auto |-> g.auto]
  BY <1>2 DEF Handlers, ItemRows
<1>4. item' = [item EXCEPT ![i] = t] /\ t.st # "none"
  BY <1>1, <1>2, <1>3 DEF CreateInsert
<1>5. item' \in [Items -> ItemRows] /\ \A j \in Items : Exists(j) => Exists(j)'
  BY <1>4, InvParts DEF TablesTyped, Exists
<1>6. TablesTyped' /\ RowsOK' /\ Grows
  BY <1>5, InvParts, ItemsWritten DEF CreateInsert, Framed
<1>7. alone[c] \in BOOLEAN
  BY InvParts
<1> QED BY <1>6, <1>7, IdleOK, WriteKeeps DEF CreateInsert, Writes

LEMMA OwnerSetsKeeps ==
  ASSUME Inv, NEW i \in Items, NEW st \in Statuses, Framed, OwnerSets(i, st)
  PROVE  Inv'
<1>1. TablesTyped' /\ RowsOK' /\ Grows
  BY InvParts, ItemSet DEF OwnerSets, Framed
<1> QED BY <1>1, DirectKeeps DEF OwnerSets

LEMMA RuntimeSetsKeeps ==
  ASSUME Inv, NEW c \in Calls, NEW i \in Items, NEW st \in Statuses, NEW statusOnly \in BOOLEAN, Framed,
         RuntimeSets(c, i, st, statusOnly)
  PROVE  Inv'
<1>0. PICK o \in {"runtime", "edit"} : o = IF statusOnly THEN "runtime" ELSE "edit"
  OBVIOUS
<1>1. PICK h : h = [Idle EXCEPT !.op = o, !.item = i, !.put = st, !.step = "setItem"]
  OBVIOUS
<1>2. /\ h \in Handlers /\ h.op = o /\ h.put = st /\ h.item = i /\ h.todo = {}
      /\ h.step = "setItem"
  BY <1>1, IdleOK DEF Idle, Handlers, Ops, Steps
<1>3. Fits(h)
  BY <1>2 DEF Fits, Updaters, Senders
<1>4. Holds(h)
  BY <1>2 DEF Holds, RuntimeSets
<1>5. Sees(h)
  BY <1>0, <1>2 DEF Sees, Knows, Updaters, Senders, RuntimeSets
<1>6. Begins(c, h)
  BY <1>0, <1>1 DEF RuntimeSets
<1> QED BY <1>2, <1>3, <1>4, <1>5, <1>6, BeginKeeps DEF RuntimeSets

LEMMA ManagerAssignsKeeps ==
  ASSUME Inv, NEW i \in Items, NEW role \in Roles, Framed, ManagerAssigns(i, role)
  PROVE  Inv'
<1>1. TablesTyped' /\ RowsOK' /\ Grows
  BY InvParts, AsgPlaced DEF ManagerAssigns, Framed
<1> QED BY <1>1, DirectKeeps DEF ManagerAssigns

LEMMA ClaimStartKeeps ==
  ASSUME Inv, NEW c \in Calls, NEW i \in Items, Framed, ClaimStart(c, i)
  PROVE  Inv'
<1>1. PICK h : h = [Idle EXCEPT !.op = "claim", !.item = i, !.step = "placeOne"]
  OBVIOUS
<1>2. /\ h \in Handlers /\ h.op = "claim" /\ h.item = i /\ h.todo = {} /\ h.step = "placeOne"
  BY <1>1, IdleOK DEF Idle, Handlers, Ops, Steps
<1>3. Fits(h)
  BY <1>2 DEF Fits, Updaters, Senders
<1>4. Holds(h)
  BY <1>2 DEF Holds, ClaimStart, Exists, Claimable
<1>5. Sees(h)
  BY <1>2 DEF Sees, Knows, Updaters, Senders, ClaimStart
<1> QED BY <1>1, <1>2, <1>3, <1>4, <1>5, BeginKeeps DEF ClaimStart

LEMMA ClaimPlaceKeeps ==
  ASSUME Inv, NEW c \in Calls, Framed, ClaimPlace(c)
  PROVE  Inv'
<1>1. PICK g \in Handlers : /\ g = call[c] /\ Fits(g) /\ Holds(g)
                            /\ g.step # "commit" /\ alone[c] => Sees(g)
  BY Present
<1>2. g.item \in Items /\ Exists(g.item) /\ g.role \in Roles
  BY <1>1 DEF ClaimPlace, Is, Fits, Holds, Handlers
<1>3. TablesTyped' /\ RowsOK' /\ Grows
  BY <1>1, <1>2, InvParts, AsgPlaced DEF ClaimPlace, Framed
<1>4. alone[c] \in BOOLEAN
  BY InvParts
<1> QED BY <1>3, <1>4, IdleOK, WriteKeeps DEF ClaimPlace, Writes

LEMMA SeesKnows == ASSUME NEW h, Sees(h) PROVE Knows(h, Nothing)
BY NothingOK DEF Sees

\* The item of an assignment that was placed.
LEMMA ItemOf == ASSUME Inv, NEW a \in Placed
                PROVE  a \in Asgs /\ asg[a].item \in Items /\ Exists(asg[a].item)
BY InvParts DEF RowsOK, Placed

LEMMA UpdateAssignmentKeeps ==
  ASSUME Inv, NEW c \in Calls, NEW a \in Asgs, NEW st \in AsgStatuses, NEW role \in Roles \cup {"manager"}, Framed,
         UpdateAssignment(c, a, st, role)
  PROVE  Inv'
<1>1. PICK o \in Ops, by \in Roles : /\ o = IF role \in Roles THEN "assignment" ELSE "manager"
                                   /\ by = IF role \in Roles THEN role ELSE "WORKER"
  BY DEF Ops, Roles
<1>2. PICK i \in Items : i = asg[a].item /\ a \in Placed /\ Exists(i)
  BY ItemOf DEF UpdateAssignment
<1>3. PICK h : h = [Idle EXCEPT !.op = o, !.role = by, !.asg = a, !.item = i, !.to = st, !.step = "write"]
  OBVIOUS
<1>4. /\ h \in Handlers /\ h.op = o /\ h.role = by /\ h.asg = a /\ h.item = i /\ h.to = st
      /\ h.todo = {} /\ h.step = "write"
  BY <1>3, IdleOK DEF Idle, Handlers, Steps
<1>5. Fits(h)
  BY <1>1, <1>4 DEF Fits, Updaters, Senders
<1>6. Holds(h)
  <2>1. st = "COMPLETED" => by = "WORKER" \/ \E r \in review : r.asg = a
    BY <1>1 DEF UpdateAssignment, Roles
  <2> QED BY <1>1, <1>2, <1>4, <2>1 DEF Holds
<1>7. Sees(h)
  BY <1>1, <1>4 DEF Sees, Knows, Updaters, Senders
<1>8. Begins(c, h)
  BY <1>1, <1>2, <1>3, IdleOK DEF UpdateAssignment, Idle
<1> QED BY <1>4, <1>5, <1>6, <1>7, <1>8, BeginKeeps DEF UpdateAssignment

LEMMA MessageFailsKeeps ==
  ASSUME Inv, NEW c \in Calls, NEW a \in Asgs, Framed, MessageFails(c, a)
  PROVE  Inv'
<1>1. a \in Placed
  BY DEF MessageFails, Placed, Open
<1>2. PICK i \in Items : i = asg[a].item /\ Exists(i)
  BY <1>1, ItemOf
<1>3. PICK h : h = [Idle EXCEPT !.op = "message", !.asg = a, !.item = i, !.to = "FAILED", !.step = "write"]
  OBVIOUS
<1>4. /\ h \in Handlers /\ h.op = "message" /\ h.asg = a /\ h.item = i /\ h.to = "FAILED" /\ h.todo = {}
      /\ h.step = "write"
  BY <1>3, IdleOK DEF Idle, Handlers, Steps, Ops, AsgStatuses
<1>5. Fits(h)
  BY <1>4 DEF Fits, Updaters, Senders, AsgStatuses
<1>6. Holds(h)
  BY <1>1, <1>2, <1>4 DEF Holds
<1>7. Sees(h)
  BY <1>4 DEF Sees, Knows, Updaters, Senders
<1>8. Begins(c, h)
  BY <1>2, <1>3 DEF MessageFails
<1> QED BY <1>4, <1>5, <1>6, <1>7, <1>8, BeginKeeps DEF MessageFails

LEMMA AssignmentWriteKeeps ==
  ASSUME Inv, NEW c \in Calls, Framed, AssignmentWrite(c)
  PROVE  Inv'
<1>1. PICK g \in Handlers : /\ g = call[c] /\ Fits(g) /\ Holds(g)
                            /\ g.step # "commit" /\ alone[c] => Sees(g)
  BY Present
<1>2. g.step = "write"
  BY <1>1 DEF AssignmentWrite, Is
<1>3. /\ g.op \in Updaters \cup {"message"} /\ g.to \in AsgStatuses /\ g.item \in Items
      /\ g.op \in {"message", "dispatch"} => g.to = "FAILED"
  BY <1>1, <1>2 DEF Fits
<1>4. g.asg \in Placed
  BY <1>1, <1>2 DEF Holds
<1>5. TablesTyped' /\ RowsOK' /\ Grows
  <2>1. asg' = [asg EXCEPT ![g.asg].st = g.to]
    BY <1>1 DEF AssignmentWrite
  <2> QED BY <1>3, <1>4, <2>1, InvParts, AsgSet DEF AssignmentWrite, Framed
<1>6. Holds(g)'
  BY <1>1, <1>5, HoldsStays
<1>7. alone[c] \in BOOLEAN
  BY InvParts
<1>8. CASE ~ AsgMoves(asg[g.asg].role, g.to)
  <2>1. PICK h \in Handlers : h = After(g) /\ Fits(h) /\ Holds(h)' /\ Sees(h)'
    <3>1. StillOpen(g)'
      BY <1>3 DEF StillOpen, Updaters
    <3> QED BY <1>3, <1>6, <3>1, AfterOK
  <2>2. Goes(c, h)
    BY <1>1, <1>8, <2>1 DEF AssignmentWrite
  <2> QED BY <1>5, <1>7, <2>1, <2>2, WriteKeeps DEF AssignmentWrite, Writes
<1>9. CASE AsgMoves(asg[g.asg].role, g.to)
  <2>1. PICK s \in Steps : s = IF g.to = "FAILED" THEN "countOpen" ELSE "fetch"
    BY DEF Steps
  <2>2. PICK h : h = [g EXCEPT !.step = s]
    OBVIOUS
  <2>3. /\ h \in Handlers /\ h.op = g.op /\ h.to = g.to /\ h.item = g.item /\ h.todo = g.todo
        /\ h.step = s
    BY <2>2 DEF Handlers
  <2>4. g.to \in {"ACTIVE", "COMPLETED", "FAILED"}
    BY <1>9 DEF AsgMoves
  <2>5. Fits(h)
    BY <1>3, <2>1, <2>3, <2>4 DEF Fits, Updaters, Senders
  <2>6. Holds(h)'
    BY <1>6, <2>1, <2>3 DEF Holds
  <2>7. Sees(h)'
    BY <1>3, <2>1, <2>3 DEF Sees, Knows, Updaters, Senders
  <2>8. Goes(c, h)
    BY <1>1, <1>9, <2>1, <2>2 DEF AssignmentWrite
  <2> QED BY <1>5, <1>7, <2>3, <2>5, <2>6, <2>7, <2>8, WriteKeeps DEF AssignmentWrite, Writes
<1> QED BY <1>8, <1>9

LEMMA CountOpenKeeps ==
  ASSUME Inv, NEW c \in Calls, Framed, CountOpen(c)
  PROVE  Inv'
<1>1. PICK g \in Handlers : /\ g = call[c] /\ Fits(g) /\ Holds(g)
                            /\ g.step # "commit" /\ alone[c] => Sees(g)
  BY Present
<1>2. g.step = "countOpen"
  BY <1>1 DEF CountOpen, Is
<1>3. g.op \in Senders /\ g.item \in Items /\ (g.op # "reconcile" => g.to = "FAILED")
  BY <1>1, <1>2 DEF Fits
<1>4. alone[c] => Knows(g, Nothing)
  BY <1>1, <1>2, SeesKnows
<1>5. CASE OpenOn(g.item) # {}
  <2>1. alone[c] => StillOpen(g)
    BY <1>1, <1>2, SeesOpen
  <2>2. PICK h \in Handlers : h = After(g) /\ Fits(h) /\ Holds(h) /\ (alone[c] => Sees(h))
    BY <1>1, <1>3, <2>1, AfterOK
  <2>3. Goes(c, h)
    BY <1>1, <1>5, <2>2 DEF CountOpen
  <2> QED BY <2>2, <2>3, ReadKeeps DEF CountOpen
<1>6. CASE OpenOn(g.item) = {} /\ g.op \in {"reconcile", "message"}
  <2>1. PICK h : h = [g EXCEPT !.step = "setItem", !.put = Revision]
    OBVIOUS
  <2>2. /\ h \in Handlers /\ h.op = g.op /\ h.item = g.item /\ h.todo = g.todo
        /\ h.step = "setItem" /\ h.put = Revision
    BY <2>1 DEF Handlers, Steps, Statuses, Claimable, Revision
  <2>3. Fits(h)
    BY <1>3, <1>6, <2>2 DEF Fits, Updaters, Senders, Revision, Statuses, Claimable
  <2>4. Holds(h)
    BY <1>1, <2>2 DEF Holds
  <2>5. alone[c] => Sees(h)
    BY <1>2, <1>4, <1>6, <2>2 DEF Sees, Knows, Updaters
  <2>6. Goes(c, h)
    BY <1>1, <1>6, <2>1 DEF CountOpen
  <2> QED BY <2>2, <2>3, <2>4, <2>5, <2>6, ReadKeeps DEF CountOpen
<1>7. CASE OpenOn(g.item) = {} /\ g.op \notin {"reconcile", "message"}
  <2>1. PICK h : h = [g EXCEPT !.step = "fetch"]
    OBVIOUS
  <2>2. /\ h \in Handlers /\ h.op = g.op /\ h.item = g.item /\ h.todo = g.todo /\ h.to = g.to
        /\ h.step = "fetch"
    BY <2>1 DEF Handlers, Steps
  <2>3. Fits(h)
    BY <1>3, <1>7, <2>2 DEF Fits, Updaters, Senders
  <2>4. Holds(h)
    BY <1>1, <2>2 DEF Holds
  <2>5. alone[c] => Sees(h)
    BY <1>3, <1>7, <2>2 DEF Sees, Knows, Updaters, Senders
  <2>6. Goes(c, h)
    BY <1>1, <1>7, <2>1 DEF CountOpen
  <2> QED BY <2>2, <2>3, <2>4, <2>5, <2>6, ReadKeeps DEF CountOpen
<1> QED BY <1>5, <1>6, <1>7

\* What an update of an assignment makes of its item.
LEMMA TargetOK == ASSUME NEW to \in {"ACTIVE", "COMPLETED", "FAILED"}, NEW current
                  PROVE  Target(to, current) \in Statuses /\ (Target(to, current) = Revision => to = "FAILED")
BY DEF Target, Statuses, Claimable, Active, Handoff, Revision, Initial

LEMMA FetchKeeps ==
  ASSUME Inv, NEW c \in Calls, Framed, Fetch(c)
  PROVE  Inv'
<1>1. PICK g \in Handlers : /\ g = call[c] /\ Fits(g) /\ Holds(g)
                            /\ g.step # "commit" /\ alone[c] => Sees(g)
  BY Present
<1>2. g.step = "fetch"
  BY <1>1 DEF Fetch, Is
<1>3. g.op \in Updaters /\ g.item \in Items /\ g.to \in {"ACTIVE", "COMPLETED", "FAILED"}
  BY <1>1, <1>2 DEF Fits
<1>4. alone[c] => Knows(g, Nothing)
  BY <1>1, <1>2, SeesKnows
<1>5. CASE item[g.item].st \in Terminal
  <2>1. StillOpen(g)
    BY <1>3 DEF StillOpen, Updaters
  <2>2. PICK h \in Handlers : h = After(g) /\ Fits(h) /\ Holds(h) /\ Sees(h)
    BY <1>1, <1>3, <2>1, AfterOK
  <2>3. Goes(c, h)
    BY <1>1, <1>5, <2>2 DEF Fetch
  <2> QED BY <2>2, <2>3, ReadKeeps DEF Fetch
<1>6. CASE item[g.item].st \notin Terminal
  <2>1. PICK p \in Statuses : p = Target(g.to, item[g.item].st) /\ (p = Revision => g.to = "FAILED")
    BY <1>3, TargetOK
  <2>2. PICK h : h = [g EXCEPT !.step = "setItem", !.put = p]
    OBVIOUS
  <2>3. /\ h \in Handlers /\ h.op = g.op /\ h.item = g.item /\ h.todo = g.todo
        /\ h.step = "setItem" /\ h.put = p
    BY <2>2 DEF Handlers, Steps
  <2>4. Fits(h)
    BY <1>3, <2>3 DEF Fits, Updaters, Senders
  <2>5. Holds(h)
    BY <1>1, <2>3 DEF Holds
  <2>6. alone[c] => Sees(h)
    BY <1>2, <1>3, <1>4, <1>6, <2>1, <2>3 DEF Sees, Knows, Updaters
  <2>7. Goes(c, h)
    BY <1>1, <1>6, <2>1, <2>2 DEF Fetch
  <2> QED BY <2>3, <2>4, <2>5, <2>6, <2>7, ReadKeeps DEF Fetch
<1> QED BY <1>5, <1>6

LEMMA SetItemKeeps ==
  ASSUME Inv, NEW c \in Calls, Framed, SetItem(c)
  PROVE  Inv'
<1>1. PICK g \in Handlers : /\ g = call[c] /\ Fits(g) /\ Holds(g)
                            /\ g.step # "commit" /\ alone[c] => Sees(g)
  BY Present
<1>2. g.step = "setItem"
  BY <1>1 DEF SetItem, Is
<1>3. g.item \in Items /\ g.put \in Statuses /\ (g.op = "reconcile" => g.put = Revision)
  BY <1>1, <1>2 DEF Fits
<1>4. Exists(g.item) /\ item' = [item EXCEPT ![g.item].st = g.put]
  BY <1>1, <1>3 DEF Holds, SetItem
<1>5. TablesTyped' /\ RowsOK' /\ Grows
  BY <1>3, <1>4, InvParts, ItemSet DEF SetItem, Framed
<1>6. Holds(g)'
  BY <1>1, <1>5, HoldsStays
<1>7. alone[c] => StillOpen(g)'
  <2>1. alone[c] => StillOpen(g)
    BY <1>1, <1>2, SeesOpen
  <2>2. ASSUME g.op = "reconcile" PROVE \A i \in Items : item[i].st \notin Terminal => item'[i].st \notin Terminal
    <3>1. Revision \notin Terminal
      BY DEF Revision, Terminal, Completed
    <3>2. \A i \in Items : item'[i].st = IF i = g.item THEN Revision ELSE item[i].st
      BY <1>3, <1>4, <2>2, InvParts DEF TablesTyped, ItemRows
    <3> QED BY <3>1, <3>2
  <2>3. \A t \in g.todo : asg[t.asg].item \in Items
    BY <1>1, ItemOf DEF Holds
  <2>4. asg' = asg
    BY DEF SetItem
  <2> QED BY <2>1, <2>2, <2>3, <2>4 DEF StillOpen
<1>8. PICK h \in Handlers : h = After(g) /\ Fits(h) /\ Holds(h)' /\ (alone[c] => Sees(h)')
  BY <1>3, <1>6, <1>7, AfterOK
<1>9. Goes(c, h)
  BY <1>1, <1>8 DEF SetItem
<1>10. alone[c] \in BOOLEAN
  BY InvParts
<1> QED BY <1>5, <1>8, <1>9, <1>10, WriteKeeps DEF SetItem, Writes

LEMMA DispatchStartKeeps ==
  ASSUME Inv, NEW c \in Calls, NEW i \in Items, NEW role \in Roles, Framed, DispatchStart(c, i, role)
  PROVE  Inv'
<1>1. PICK s \in Steps : s = IF item[i].st \in Terminal THEN "findOpen" ELSE "existing"
  BY DEF Steps
<1>2. PICK h : h = [Idle EXCEPT !.op = "dispatch", !.item = i, !.role = role, !.step = s]
  OBVIOUS
<1>3. /\ h \in Handlers /\ h.op = "dispatch" /\ h.item = i /\ h.todo = {} /\ h.step = s
  BY <1>2, IdleOK DEF Idle, Handlers, Ops
<1>4. Fits(h)
  BY <1>1, <1>3 DEF Fits, Updaters, Senders
<1>5. Holds(h)
  BY <1>1, <1>3 DEF Holds, DispatchStart
<1>6. Sees(h)
  BY <1>1, <1>3 DEF Sees, Knows, Updaters, Senders
<1>7. Begins(c, h)
  BY <1>1, <1>2 DEF DispatchStart
<1> QED BY <1>3, <1>4, <1>5, <1>6, <1>7, BeginKeeps DEF DispatchStart

LEMMA DispatchFindOpenKeeps ==
  ASSUME Inv, NEW c \in Calls, Framed, DispatchFindOpen(c)
  PROVE  Inv'
<1>1. PICK g \in Handlers : /\ g = call[c] /\ Fits(g) /\ Holds(g)
                            /\ g.step # "commit" /\ alone[c] => Sees(g)
  BY Present
<1>2. g.step = "findOpen" /\ g.op = "dispatch" /\ g.item \in Items
  BY <1>1 DEF DispatchFindOpen, Is, Fits
<1>3. PICK F : F = {a \in OpenOn(g.item) : asg[a].role = g.role}
  OBVIOUS
<1>4. F \subseteq Placed /\ F \subseteq Asgs
  BY <1>3 DEF OpenOn, Open, Placed
<1>5. CASE F = {}
  <2>1. Goes(c, Idle)
    BY <1>1, <1>3, <1>5 DEF DispatchFindOpen
  <2> QED BY <2>1, IdleOK, ReadKeeps DEF DispatchFindOpen
<1>6. CASE F # {}
  <2>1. PICK T : T = {[asg |-> a, over |-> TRUE] : a \in F}
    OBVIOUS
  <2>2. T \in SUBSET [asg : Asgs, over : BOOLEAN] /\ \A t \in T : t.asg \in Placed
    <3>1. \A a \in F : /\ [asg |-> a, over |-> TRUE] \in [asg : Asgs, over : BOOLEAN]
                       /\ [asg |-> a, over |-> TRUE].asg \in Placed
      BY <1>4
    <3> QED BY <2>1, <3>1
  <2>3. PICK h : h = [g EXCEPT !.step = "mark", !.todo = T]
    OBVIOUS
  <2>4. h \in Handlers /\ h.op = g.op /\ h.item = g.item /\ h.todo = T /\ h.step = "mark"
    BY <2>2, <2>3 DEF Handlers, Steps
  <2>5. Fits(h)
    BY <1>2, <2>4 DEF Fits, Updaters, Senders
  <2>6. Holds(h)
    BY <1>1, <1>2, <2>2, <2>4 DEF Holds
  <2>7. Sees(h)
    BY <1>2, <2>4 DEF Sees, Knows, Updaters, Senders
  <2>8. Goes(c, h)
    BY <1>1, <1>3, <1>6, <2>1, <2>3 DEF DispatchFindOpen
  <2> QED BY <2>4, <2>5, <2>6, <2>7, <2>8, ReadKeeps DEF DispatchFindOpen
<1> QED BY <1>5, <1>6

\* An assignment in hand is failed.
LEMMA Failing ==
  ASSUME Inv, NEW a \in Placed, asg' = [asg EXCEPT ![a].st = "FAILED"],
         UNCHANGED <<item, run, review>>, Framed
  PROVE  TablesTyped' /\ RowsOK' /\ Grows
<1>1. "FAILED" \in AsgStatuses
  BY DEF AsgStatuses
<1> QED BY <1>1, InvParts, AsgSet DEF Framed

LEMMA DispatchMarkKeeps ==
  ASSUME Inv, NEW c \in Calls, NEW t \in call[c].todo, Framed, DispatchMark(c, t)
  PROVE  Inv'
<1>1. PICK g \in Handlers : /\ g = call[c] /\ Fits(g) /\ Holds(g)
                            /\ g.step # "commit" /\ alone[c] => Sees(g)
  BY Present
<1>2. g.step = "mark" /\ g.op = "dispatch" /\ g.item \in Items /\ t \in g.todo
  BY <1>1 DEF DispatchMark, Is, Fits
<1>3. t.asg \in Placed
  BY <1>1, <1>2 DEF Holds
<1>4. TablesTyped' /\ RowsOK' /\ Grows
  BY <1>3, Failing DEF DispatchMark
<1>5. alone[c] \in BOOLEAN
  BY InvParts
<1>6. Holds(g)'
  BY <1>1, <1>4, HoldsStays
<1>7. CASE g.todo = {t}
  <2>1. Goes(c, Idle)
    BY <1>1, <1>7 DEF DispatchMark
  <2> QED BY <1>4, <1>5, <2>1, IdleOK, WriteKeeps DEF DispatchMark, Writes
<1>8. CASE g.todo # {t}
  <2>1. PICK h : h = [g EXCEPT !.todo = @ \ {t}]
    OBVIOUS
  <2>2. h \in Handlers /\ h.op = g.op /\ h.item = g.item /\ h.todo = g.todo \ {t} /\ h.step = g.step
    BY <2>1 DEF Handlers
  <2>3. Fits(h)
    BY <1>2, <2>2 DEF Fits, Updaters, Senders
  <2>4. Holds(h)'
    BY <1>2, <1>6, <2>2 DEF Holds
  <2>5. Sees(h)'
    BY <1>2, <2>2 DEF Sees, Knows, Updaters, Senders
  <2>6. Goes(c, h)
    BY <1>1, <1>8, <2>1 DEF DispatchMark
  <2> QED BY <1>4, <1>5, <2>2, <2>3, <2>4, <2>5, <2>6, WriteKeeps DEF DispatchMark, Writes
<1> QED BY <1>7, <1>8

LEMMA DispatchExistingKeeps ==
  ASSUME Inv, NEW c \in Calls, Framed, DispatchExisting(c)
  PROVE  Inv'
<1>1. PICK g \in Handlers : /\ g = call[c] /\ Fits(g) /\ Holds(g)
                            /\ g.step # "commit" /\ alone[c] => Sees(g)
  BY Present
<1>2. g.step = "existing" /\ g.op = "dispatch" /\ g.item \in Items
  BY <1>1 DEF DispatchExisting, Is, Fits
<1>3. PICK M : M = {a \in Asgs : /\ asg[a].item = g.item /\ asg[a].role = g.role
                                 /\ asg[a].st \in Open \cup {"COMPLETED"}}
  OBVIOUS
<1>4. PICK a : a = CHOOSE x \in M : \A b \in M : b <= x
  OBVIOUS
<1>5. \/ Goes(c, Idle)
      \/ Goes(c, [g EXCEPT !.step = "place"])
      \/ M # {} /\ Goes(c, [g EXCEPT !.step = "write", !.to = "FAILED", !.asg = a])
  BY <1>1, <1>3, <1>4 DEF DispatchExisting
<1>6. CASE Goes(c, Idle)
  BY <1>6, IdleOK, ReadKeeps DEF DispatchExisting
<1>7. CASE Goes(c, [g EXCEPT !.step = "place"])
  <2>1. PICK h : h = [g EXCEPT !.step = "place"]
    OBVIOUS
  <2>2. h \in Handlers /\ h.op = g.op /\ h.item = g.item /\ h.todo = g.todo /\ h.step = "place"
    BY <2>1 DEF Handlers, Steps
  <2>3. Fits(h)
    BY <1>2, <2>2 DEF Fits, Updaters, Senders
  <2>4. Holds(h)
    BY <1>1, <1>2, <2>2 DEF Holds
  <2>5. Sees(h)
    BY <1>2, <2>2 DEF Sees, Knows, Updaters, Senders
  <2> QED BY <1>7, <2>1, <2>2, <2>3, <2>4, <2>5, ReadKeeps DEF DispatchExisting
<1>8. CASE M # {} /\ Goes(c, [g EXCEPT !.step = "write", !.to = "FAILED", !.asg = a])
  <2>1. M \in SUBSET (1 .. MaxAsg) /\ MaxAsg \in Nat
    BY <1>3, BoardAssumption DEF Asgs
  <2>2. \E x \in M : \A b \in M : b <= x
    BY <1>8, <2>1, Latest
  <2>3. a \in M
    BY <1>4, <2>2
  <2>4. a \in Placed /\ a \in Asgs /\ asg[a].item = g.item
    BY <1>3, <2>3 DEF Placed, Open
  <2>5. PICK h : h = [g EXCEPT !.step = "write", !.to = "FAILED", !.asg = a]
    OBVIOUS
  <2>6. /\ h \in Handlers /\ h.op = g.op /\ h.item = g.item /\ h.todo = g.todo /\ h.step = "write"
        /\ h.to = "FAILED" /\ h.asg = a
    BY <2>4, <2>5 DEF Handlers, Steps, AsgStatuses
  <2>7. Fits(h)
    BY <1>2, <2>6 DEF Fits, Updaters, Senders, AsgStatuses
  <2>8. Holds(h)
    BY <1>1, <1>2, <2>4, <2>6 DEF Holds
  <2>9. Sees(h)
    BY <1>2, <2>6 DEF Sees, Knows, Updaters, Senders
  <2> QED BY <1>8, <2>5, <2>6, <2>7, <2>8, <2>9, ReadKeeps DEF DispatchExisting
<1> QED BY <1>5, <1>6, <1>7, <1>8

LEMMA DispatchPlaceKeeps ==
  ASSUME Inv, NEW c \in Calls, Framed, DispatchPlace(c)
  PROVE  Inv'
<1>1. PICK g \in Handlers : /\ g = call[c] /\ Fits(g) /\ Holds(g)
                            /\ g.step # "commit" /\ alone[c] => Sees(g)
  BY Present
<1>2. g.step = "place" /\ g.op = "dispatch" /\ g.item \in Items /\ g.role \in Roles
  BY <1>1 DEF DispatchPlace, Is, Fits, Handlers
<1>3. CASE Goes(c, Idle) /\ Unseen /\ UNCHANGED asg
  BY <1>3, IdleOK, ReadKeeps DEF DispatchPlace
<1>4. CASE /\ Goes(c, [Idle EXCEPT !.op = "create", !.put = Initial, !.step = "capacity"])
           /\ Unseen /\ UNCHANGED asg
  <2>1. PICK h : h = [Idle EXCEPT !.op = "create", !.put = Initial, !.step = "capacity"]
    OBVIOUS
  <2>2. /\ h \in Handlers /\ h.op = "create" /\ h.item = NoItem /\ h.todo = {} /\ h.step = "capacity"
        /\ h.put = Initial /\ Initial \in Statuses
    BY <2>1, IdleOK DEF Idle, Handlers, Steps, Ops, Statuses, Claimable, Initial
  <2>3. Fits(h)
    BY <2>2 DEF Fits, Updaters, Senders
  <2>4. Holds(h)
    BY <2>2, BoardAssumption DEF Holds
  <2>5. Sees(h)
    BY <2>2 DEF Sees, Knows, Updaters, Senders
  <2> QED BY <1>4, <2>1, <2>2, <2>3, <2>4, <2>5, ReadKeeps DEF DispatchPlace
<1>5. CASE /\ Place(g.item, g.role)
           /\ Goes(c, [g EXCEPT !.step = "wake", !.asg = Cardinality(Placed) + 1])
           /\ Writes(c)
  <2>1. Exists(g.item)
    BY <1>1, <1>2 DEF Holds
  <2>2. PICK a : a = Cardinality(Placed) + 1
    OBVIOUS
  <2>3. TablesTyped' /\ RowsOK' /\ Grows /\ a \in Asgs /\ a \in Placed' /\ asg'[a].item = g.item
    BY <1>2, <1>5, <2>1, <2>2, InvParts, AsgPlaced DEF DispatchPlace, Framed
  <2>4. PICK h : h = [g EXCEPT !.step = "wake", !.asg = a]
    OBVIOUS
  <2>5. /\ h \in Handlers /\ h.op = g.op /\ h.item = g.item /\ h.todo = g.todo /\ h.step = "wake"
        /\ h.asg = a
    BY <2>3, <2>4 DEF Handlers, Steps
  <2>6. Fits(h)
    BY <1>2, <2>5 DEF Fits, Updaters, Senders
  <2>7. Holds(g)'
    BY <1>1, <2>3, HoldsStays
  <2>8. Holds(h)'
    BY <1>2, <2>3, <2>5, <2>7 DEF Holds
  <2>9. Sees(h)'
    BY <1>2, <2>5 DEF Sees, Knows, Updaters, Senders
  <2>10. alone[c] \in BOOLEAN /\ Goes(c, h)
    BY <1>5, <2>2, <2>4, InvParts
  <2> QED BY <1>5, <2>3, <2>5, <2>6, <2>8, <2>9, <2>10, WriteKeeps DEF Writes
<1> QED BY <1>1, <1>3, <1>4, <1>5 DEF DispatchPlace

LEMMA DispatchWakeKeeps ==
  ASSUME Inv, NEW c \in Calls, Framed, DispatchWake(c)
  PROVE  Inv'
<1>1. PICK g \in Handlers : /\ g = call[c] /\ Fits(g) /\ Holds(g)
                            /\ g.step # "commit" /\ alone[c] => Sees(g)
  BY Present
<1>2. g.step = "wake" /\ g.op = "dispatch" /\ g.item \in Items
  BY <1>1 DEF DispatchWake, Is, Fits
<1>3. PICK h : h = [g EXCEPT !.step = "write", !.to = "FAILED"]
  OBVIOUS
<1>4. /\ h \in Handlers /\ h.op = g.op /\ h.item = g.item /\ h.todo = g.todo /\ h.step = "write"
      /\ h.to = "FAILED" /\ h.asg = g.asg
  BY <1>3 DEF Handlers, Steps, AsgStatuses
<1>5. Fits(h)
  BY <1>2, <1>4 DEF Fits, Updaters, Senders, AsgStatuses
<1>6. Holds(h)
  BY <1>1, <1>2, <1>4 DEF Holds
<1>7. Sees(h)
  BY <1>2, <1>4 DEF Sees, Knows, Updaters, Senders
<1>8. Goes(c, Idle) \/ Goes(c, h)
  BY <1>1, <1>3 DEF DispatchWake
<1> QED BY <1>4, <1>5, <1>6, <1>7, <1>8, IdleOK, ReadKeeps DEF DispatchWake

LEMMA CreateRunKeeps ==
  ASSUME Inv, NEW c \in Calls, NEW r \in Runs, NEW i \in Items, Framed, CreateRun(c, r, i)
  PROVE  Inv'
<1>1. PICK h : h = [Idle EXCEPT !.op = "run", !.item = i, !.put = Active, !.step = "setItem"]
  OBVIOUS
<1>2. /\ h \in Handlers /\ h.op = "run" /\ h.item = i /\ h.todo = {} /\ h.step = "setItem"
      /\ h.put = Active /\ Active \in Statuses
  BY <1>1, IdleOK DEF Idle, Handlers, Steps, Ops, Statuses, Active
<1>3. Exists(i) /\ run' = [run EXCEPT ![r] = [item |-> i, st |-> "QUEUED"]] /\ run[r].st = "none"
  BY DEF CreateRun
<1>4. /\ run' \in [Runs -> RunRows]
      /\ \A s \in Runs : run'[s] = IF s = r THEN [item |-> i, st |-> "QUEUED"] ELSE run[s]
  BY <1>3, InvParts DEF TablesTyped, RunRows, RunStatuses
<1>5. TablesTyped' /\ RowsOK' /\ Grows
  <2>1. \A s \in Runs : run'[s].st # "none" => run'[s].item \in Items /\ Exists(run'[s].item)
    BY <1>3, <1>4, InvParts DEF RowsOK
  <2>2. \A s \in Runs : run[s].st # "none" => run'[s].st # "none" /\ run'[s].item = run[s].item
    BY <1>3, <1>4
  <2> QED BY <1>4, <2>1, <2>2, InvParts, RunsWritten DEF CreateRun, Framed
<1>6. Fits(h)
  BY <1>2 DEF Fits, Updaters, Senders
<1>7. Holds(h)'
  <2>1. Holds(h)
    BY <1>2, <1>3 DEF Holds
  <2> QED BY <1>5, <2>1, HoldsStays
<1>8. Sees(h)'
  BY <1>2 DEF Sees, Knows, Updaters, Senders
<1>9. alone' = [d \in Calls |-> d = c /\ TRUE]
  BY DEF CreateRun
<1> QED BY <1>1, <1>2, <1>5, <1>6, <1>7, <1>8, <1>9, WriteKeeps DEF CreateRun

LEMMA UpdateRunKeeps ==
  ASSUME Inv, NEW c \in Calls, NEW r \in Runs, NEW st \in RunStatuses, Framed, UpdateRun(c, r, st)
  PROVE  Inv'
<1>1. PICK i \in Items : i = run[r].item /\ Exists(i)
  BY InvParts DEF UpdateRun, RowsOK
<1>2. run' = [run EXCEPT ![r].st = st] /\ st # "none" /\ run[r].st # "none"
  BY DEF UpdateRun, RunStatuses
<1>3. /\ run' \in [Runs -> RunRows]
      /\ \A s \in Runs : /\ run'[s].item = run[s].item
                         /\ run'[s].st = IF s = r THEN st ELSE run[s].st
  BY <1>2, InvParts DEF TablesTyped, RunRows
<1>4. TablesTyped' /\ RowsOK' /\ Grows
  <2>1. \A s \in Runs : run'[s].st # "none" => run'[s].item \in Items /\ Exists(run'[s].item)
    BY <1>2, <1>3, InvParts DEF RowsOK
  <2>2. \A s \in Runs : run[s].st # "none" => run'[s].st # "none" /\ run'[s].item = run[s].item
    BY <1>2, <1>3
  <2> QED BY <1>3, <2>1, <2>2, InvParts, RunsWritten DEF UpdateRun, Framed
<1>5. alone' = [d \in Calls |-> d = c /\ TRUE]
  BY DEF UpdateRun
<1>6. CASE st \notin {"RUNNING", "SUCCEEDED", "FAILED"}
  <2>1. Goes(c, Idle)
    BY <1>6 DEF UpdateRun
  <2> QED BY <1>4, <1>5, <2>1, IdleOK, WriteKeeps
<1>7. CASE st \in {"RUNNING", "SUCCEEDED", "FAILED"}
  <2>1. PICK p \in Statuses : p = ByRun[st]
    BY <1>7 DEF ByRun, Statuses, Claimable, Active, Handoff, Revision
  <2>2. PICK h : h = [Idle EXCEPT !.op = "run", !.item = i, !.put = p, !.step = "setItem"]
    OBVIOUS
  <2>3. /\ h \in Handlers /\ h.op = "run" /\ h.item = i /\ h.todo = {} /\ h.step = "setItem"
        /\ h.put = p
    BY <2>2, IdleOK DEF Idle, Handlers, Steps, Ops
  <2>4. Fits(h)
    BY <2>3 DEF Fits, Updaters, Senders
  <2>5. Holds(h)'
    <3>1. Holds(h)
      BY <1>1, <2>3 DEF Holds
    <3> QED BY <1>4, <3>1, HoldsStays
  <2>6. Sees(h)'
    BY <2>3 DEF Sees, Knows, Updaters, Senders
  <2>7. Goes(c, h)
    BY <1>1, <1>7, <2>1, <2>2 DEF UpdateRun
  <2> QED BY <1>4, <1>5, <2>3, <2>4, <2>5, <2>6, <2>7, WriteKeeps
<1> QED BY <1>6, <1>7

LEMMA CreateReviewKeeps ==
  ASSUME Inv, NEW c \in Calls, NEW i \in Items, NEW a \in Asgs \cup {0}, NEW v \in Verdicts, Framed,
         CreateReview(c, i, a, v)
  PROVE  Inv'
<1>1. PICK p \in Statuses : p = ByVerdict[v]
  BY DEF ByVerdict, Verdicts, Statuses, Terminal, Completed, Claimable, Closed, Revision
<1>2. PICK h : h = [Idle EXCEPT !.op = "review", !.item = i, !.put = p, !.step = "setItem"]
  OBVIOUS
<1>3. /\ h \in Handlers /\ h.op = "review" /\ h.item = i /\ h.todo = {} /\ h.step = "setItem"
      /\ h.put = p
  BY <1>2, IdleOK DEF Idle, Handlers, Steps, Ops
<1>4. PICK x \in ReviewRows : x = [item |-> i, asg |-> a, verdict |-> v]
  BY DEF ReviewRows
<1>5. TablesTyped' /\ RowsOK' /\ Grows
  <2>1. review' = review \cup {x}
    BY <1>4 DEF CreateReview
  <2>2. review \subseteq review' /\ review' \subseteq ReviewRows
    BY <2>1, InvParts DEF TablesTyped
  <2> QED BY <2>2, InvParts, ReviewWritten DEF CreateReview, Framed
<1>6. Fits(h)
  BY <1>3 DEF Fits, Updaters, Senders
<1>7. Holds(h)'
  <2>1. Holds(h)
    BY <1>3 DEF Holds, CreateReview
  <2> QED BY <1>5, <2>1, HoldsStays
<1>8. Sees(h)'
  BY <1>3 DEF Sees, Knows, Updaters, Senders
<1>9. alone' = [d \in Calls |-> d = c /\ TRUE]
  BY DEF CreateReview
<1>10. Goes(c, h)
  BY <1>1, <1>2 DEF CreateReview
<1> QED BY <1>3, <1>5, <1>6, <1>7, <1>8, <1>9, <1>10, WriteKeeps

LEMMA ReconcileStartKeeps ==
  ASSUME Inv, NEW c \in Calls, Framed, ReconcileStart(c)
  PROVE  Inv'
<1>1. PICK F : F = {a \in Asgs : asg[a].st \in Open}
  OBVIOUS
<1>2. PICK T : T = {[asg |-> a, over |-> a \in StaleOpen] : a \in F}
  OBVIOUS
<1>3. ASSUME NEW t \in T
      PROVE  /\ t \in [asg : Asgs, over : BOOLEAN] /\ t.asg \in Placed
             /\ t.over \/ item[asg[t.asg].item].st \notin Terminal
  <2>1. PICK a \in F : t = [asg |-> a, over |-> a \in StaleOpen]
    BY <1>2
  <2>2. a \in Asgs /\ asg[a].st \in Open
    BY <1>1
  <2>3. a \in Placed
    BY <2>2 DEF Placed, Open
  <2>4. CASE a \in StaleOpen
    BY <2>1, <2>2, <2>3, <2>4
  <2>5. CASE a \notin StaleOpen
    <3>1. item[asg[a].item].st \notin Terminal
      BY <2>2, <2>5 DEF StaleOpen
    <3> QED BY <2>1, <2>2, <2>3, <2>5, <3>1
  <2> QED BY <2>4, <2>5
<1>4. PICK h : h = [Idle EXCEPT !.op = "reconcile", !.step = "inspect", !.todo = T]
  OBVIOUS
<1>5. h \in Handlers /\ h.op = "reconcile" /\ h.item = NoItem /\ h.todo = T /\ h.step = "inspect"
  BY <1>3, <1>4, IdleOK DEF Idle, Handlers, Steps, Ops
<1>6. Fits(h)
  BY <1>5 DEF Fits, Updaters, Senders
<1>7. Holds(h)
  BY <1>3, <1>5, BoardAssumption DEF Holds
<1>8. Sees(h)
  BY <1>3, <1>5 DEF Sees, Knows, Updaters, Senders
<1>9. Begins(c, h)
  BY <1>1, <1>2, <1>4 DEF ReconcileStart
<1> QED BY <1>5, <1>6, <1>7, <1>8, <1>9, BeginKeeps DEF ReconcileStart

\* One entry fewer is left of the loop.
LEMMA LoopGoesOn ==
  ASSUME NEW g \in Handlers, NEW t
  PROVE  \E h \in Handlers : /\ h = [g EXCEPT !.todo = @ \ {t}]
                             /\ h.op = g.op /\ h.item = g.item /\ h.step = g.step
                             /\ h.todo = g.todo \ {t}
<1>1. PICK h : h = [g EXCEPT !.todo = @ \ {t}]
  OBVIOUS
<1>2. /\ h \in Handlers /\ h.op = g.op /\ h.item = g.item /\ h.step = g.step
      /\ h.todo = g.todo \ {t}
  BY <1>1 DEF Handlers
<1> QED BY <1>1, <1>2

LEMMA ReconcileSkipsKeeps ==
  ASSUME Inv, NEW c \in Calls, NEW t \in call[c].todo, Framed, ReconcileSkips(c, t)
  PROVE  Inv'
<1>1. PICK g \in Handlers : /\ g = call[c] /\ Fits(g) /\ Holds(g)
                            /\ g.step # "commit" /\ alone[c] => Sees(g)
  BY Present
<1>2. g.step = "inspect" /\ g.op = "reconcile"
  BY <1>1 DEF ReconcileSkips, Is, Fits
<1>3. PICK e \in Handlers : /\ e = [g EXCEPT !.todo = @ \ {t}]
                            /\ e.op = g.op /\ e.item = g.item /\ e.step = g.step
                            /\ e.todo = g.todo \ {t}
  BY LoopGoesOn
<1>4. Holds(e)
  BY <1>1, <1>2, <1>3 DEF Holds
<1>5. alone[c] => StillOpen(e)
  BY <1>1, <1>2, <1>3, SeesOpen DEF StillOpen
<1>6. PICK h \in Handlers : h = After(e) /\ Fits(h) /\ Holds(h) /\ (alone[c] => Sees(h))
  BY <1>2, <1>3, <1>4, <1>5, AfterOK
<1>7. Goes(c, h)
  BY <1>1, <1>3, <1>6 DEF ReconcileSkips
<1> QED BY <1>6, <1>7, ReadKeeps DEF ReconcileSkips

LEMMA ReconcileFailsKeeps ==
  ASSUME Inv, NEW c \in Calls, NEW t \in call[c].todo, Framed, ReconcileFails(c, t)
  PROVE  Inv'
<1>1. PICK g \in Handlers : /\ g = call[c] /\ Fits(g) /\ Holds(g)
                            /\ g.step # "commit" /\ alone[c] => Sees(g)
  BY Present
<1>2. g.step = "inspect" /\ g.op = "reconcile" /\ t \in g.todo
  BY <1>1 DEF ReconcileFails, Is, Fits
<1>3. PICK e \in Handlers : /\ e = [g EXCEPT !.todo = @ \ {t}]
                            /\ e.op = g.op /\ e.item = g.item /\ e.step = g.step
                            /\ e.todo = g.todo \ {t}
  BY LoopGoesOn
<1>4. t.asg \in Placed
  BY <1>1, <1>2 DEF Holds
<1>5. PICK i \in Items : i = asg[t.asg].item /\ Exists(i)
  BY <1>4, ItemOf
<1>6. TablesTyped' /\ RowsOK' /\ Grows
  BY <1>4, Failing DEF ReconcileFails
<1>7. Holds(e)'
  <2>1. Holds(e)
    BY <1>1, <1>2, <1>3 DEF Holds
  <2> QED BY <1>6, <2>1, HoldsStays
<1>8. alone[c] => StillOpen(g)
  BY <1>1, <1>2, SeesOpen
<1>9. alone[c] => StillOpen(e)'
  <2>1. \A s \in e.todo : asg'[s.asg].item = asg[s.asg].item
    BY <1>1, <1>3, <1>6 DEF Holds, Grows
  <2>2. item' = item
    BY DEF ReconcileFails
  <2> QED BY <1>2, <1>3, <1>8, <2>1, <2>2 DEF StillOpen
<1>10. alone[c] \in BOOLEAN
  BY InvParts
<1>11. CASE t.over
  <2>1. PICK h \in Handlers : h = After(e) /\ Fits(h) /\ Holds(h)' /\ (alone[c] => Sees(h)')
    BY <1>2, <1>3, <1>7, <1>9, AfterOK
  <2>2. Goes(c, h)
    BY <1>1, <1>3, <1>11, <2>1 DEF ReconcileFails
  <2> QED BY <1>6, <1>10, <2>1, <2>2, WriteKeeps DEF ReconcileFails, Writes
<1>12. CASE ~ t.over
  <2>1. PICK h : h = [e EXCEPT !.step = "countOpen", !.item = i]
    OBVIOUS
  <2>2. h \in Handlers /\ h.op = e.op /\ h.item = i /\ h.step = "countOpen" /\ h.todo = e.todo
    BY <2>1 DEF Handlers, Steps
  <2>3. Fits(h)
    BY <1>2, <1>3, <2>2 DEF Fits, Updaters, Senders
  <2>4. Holds(h)'
    BY <1>2, <1>3, <1>5, <1>6, <1>7, <2>2 DEF Holds, Grows
  <2>5. alone[c] => item'[i].st \notin Terminal
    BY <1>2, <1>5, <1>8, <1>12 DEF StillOpen, ReconcileFails
  <2>6. alone[c] => Sees(h)'
    BY <1>2, <1>3, <1>9, <2>2, <2>5 DEF StillOpen, Sees, Knows, Updaters
  <2>7. Goes(c, h)
    BY <1>1, <1>3, <1>5, <1>12, <2>1 DEF ReconcileFails
  <2> QED BY <1>6, <1>10, <2>2, <2>3, <2>4, <2>6, <2>7, WriteKeeps DEF ReconcileFails, Writes
<1> QED BY <1>11, <1>12

LEMMA StatementFailsKeeps ==
  ASSUME Inv, NEW c \in Calls, Framed, StatementFails(c)
  PROVE  Inv'
<1>1. PICK g \in Handlers : /\ g = call[c] /\ Fits(g) /\ Holds(g)
                            /\ g.step # "commit" /\ alone[c] => Sees(g)
  BY Present
<1>2. \/ Goes(c, Idle)
      \/ /\ (g.op = "dispatch" /\ g.step \in {"write", "countOpen", "fetch"}) \/ g.step = "setItem"
         /\ Goes(c, After(g))
  BY <1>1 DEF StatementFails
<1>3. CASE Goes(c, Idle)
  BY <1>3, IdleOK, ReadKeeps DEF StatementFails
<1>4. CASE /\ (g.op = "dispatch" /\ g.step \in {"write", "countOpen", "fetch"}) \/ g.step = "setItem"
           /\ Goes(c, After(g))
  <2>1. g.item \in Items
    BY <1>1, <1>4 DEF Fits
  <2>2. alone[c] => StillOpen(g)
    BY <1>1, <1>4, SeesOpen
  <2>3. PICK h \in Handlers : h = After(g) /\ Fits(h) /\ Holds(h) /\ (alone[c] => Sees(h))
    BY <1>1, <2>1, <2>2, AfterOK
  <2>4. Goes(c, h)
    BY <1>4, <2>3
  <2> QED BY <2>3, <2>4, ReadKeeps DEF StatementFails
<1> QED BY <1>2, <1>3, <1>4
--------------------------------------------------------------------------------
(***************************************************************************)
(* Goals.                                                                  *)
(***************************************************************************)
LEMMA GoalWritten ==
  ASSUME TablesTyped, RowsOK, NEW g, NEW st \in GoalStatuses \cup {"none"}, goal' = [goal EXCEPT ![g] = st],
         UNCHANGED Tables
  PROVE  TablesTyped' /\ RowsOK' /\ Grows
<1>1. item' = item /\ asg' = asg /\ run' = run /\ review' = review
  BY DEF Tables
<1>2. TablesTyped'
  BY <1>1 DEF TablesTyped
<1>3. Placed' = Placed
  BY <1>1 DEF Placed
<1>4. RowsOK'
  BY <1>1, <1>3 DEF RowsOK, Exists
<1>5. Grows
  BY <1>1, <1>3 DEF Grows, Exists
<1> QED BY <1>2, <1>4, <1>5

LEMMA CreateGoalKeeps ==
  ASSUME Inv, NEW g \in Goals, CreateGoal(g), requests' \in 0 .. MaxRequests
  PROVE  Inv'
<1>1. TablesTyped' /\ RowsOK' /\ Grows
  BY InvParts, GoalWritten DEF CreateGoal, GoalStatuses
<1>2. cascade' \in [Calls -> Cascades] /\ cascade' = cascade
  BY InvParts DEF CreateGoal
<1> QED BY <1>1, <1>2, NobodyKnows DEF CreateGoal

LEMMA ParkGoalKeeps ==
  ASSUME Inv, NEW g \in Goals, ParkGoal(g), requests' \in 0 .. MaxRequests
  PROVE  Inv'
<1>1. TablesTyped' /\ RowsOK' /\ Grows
  BY InvParts, GoalWritten DEF ParkGoal, GoalStatuses
<1>2. cascade' \in [Calls -> Cascades] /\ cascade' = cascade
  BY InvParts DEF ParkGoal
<1> QED BY <1>1, <1>2, NobodyKnows DEF ParkGoal

\* A goal's handler begins: it reads.
LEMMA GoalBegins ==
  ASSUME Inv, NEW c \in Calls, NEW h \in Handlers, NEW k \in Cascades,
         UNCHANGED <<Tables, goal>>, Begins(c, h), requests' \in 0 .. MaxRequests,
         cascade' = [cascade EXCEPT ![c] = k],
         Fits(h), Holds(h), Found(k), Knows(h, k)
  PROVE  Inv'
<1>1. Same
  BY DEF Same, Tables
<1>2. TablesTyped' /\ RowsOK' /\ Grows
  BY <1>1, SameTables, SameGrows, InvParts
<1>3. Holds(h)' /\ Knows(h, k)'
  BY <1>1, <1>2, HoldsStays, KnowsStays
<1>4. Found(k)'
  <2>1. k.runs \subseteq Runs
    BY DEF Cascades
  <2> QED BY <1>2, <2>1, FoundStays
<1>5. alone' \in [Calls -> BOOLEAN] /\ \A d \in Calls \ {c} : alone'[d] => alone[d]
  BY InvParts DEF Begins
<1>6. /\ cascade' \in [Calls -> Cascades] /\ cascade'[c] = k
      /\ \A d \in Calls \ {c} : cascade'[d] = cascade[d]
  BY InvParts
<1>7. call' = [call EXCEPT ![c] = h]
  BY DEF Begins
<1> QED BY <1>1, <1>2, <1>3, <1>4, <1>5, <1>6, <1>7, StepKeeps

\* The handler that is going to move a goal.
LEMMA GoalHandler ==
  ASSUME NEW h \in Handlers, h.op = "goal", h.step = "setGoal", h.goal \in Goals, h.to \in GoalStatuses,
         h.item = NoItem, h.todo = {}
  PROVE  Fits(h) /\ Holds(h)
<1>1. Fits(h)
  BY DEF Fits, Updaters, Senders
<1>2. Holds(h)
  BY BoardAssumption DEF Holds
<1> QED BY <1>1, <1>2

LEMMA StartGoalKeeps ==
  ASSUME Inv, NEW c \in Calls, NEW g \in Goals, NEW st \in ActiveStatuses, StartGoal(c, g, st),
         requests' \in 0 .. MaxRequests
  PROVE  Inv'
<1>1. st \in GoalStatuses /\ st # "DONE"
  BY DEF ActiveStatuses, GoalStatuses
<1>2. PICK h : h = [Idle EXCEPT !.op = "goal", !.goal = g, !.to = st, !.step = "setGoal"]
  OBVIOUS
<1>3. /\ h \in Handlers /\ h.op = "goal" /\ h.goal = g /\ h.to = st /\ h.step = "setGoal"
      /\ h.item = NoItem /\ h.todo = {}
  BY <1>1, <1>2, IdleOK DEF Idle, Handlers, Steps, Ops
<1>4. PICK k \in Cascades : k = cascade[c] /\ Found(k)
  BY InvParts DEF Inv
<1>5. cascade' = [cascade EXCEPT ![c] = k]
  BY <1>4, InvParts DEF StartGoal
<1>6. Knows(h, k)
  BY <1>1, <1>3 DEF Knows, Updaters, Senders, StartGoal
<1>7. Begins(c, h)
  BY <1>2 DEF StartGoal
<1> QED BY <1>1, <1>3, <1>4, <1>5, <1>6, <1>7, GoalHandler, GoalBegins DEF StartGoal

LEMMA FinishGoalKeeps ==
  ASSUME Inv, NEW c \in Calls, NEW g \in Goals, FinishGoal(c, g), requests' \in 0 .. MaxRequests
  PROVE  Inv'
<1>1. PICK h : h = [Idle EXCEPT !.op = "goal", !.goal = g, !.to = "DONE", !.step = "setGoal"]
  OBVIOUS
<1>2. /\ h \in Handlers /\ h.op = "goal" /\ h.goal = g /\ h.to = "DONE" /\ h.step = "setGoal"
      /\ h.item = NoItem /\ h.todo = {} /\ "DONE" \in GoalStatuses
  BY <1>1, IdleOK DEF Idle, Handlers, Steps, Ops, GoalStatuses
<1>3. PICK k \in Cascades : k = cascade[c] /\ Found(k)
  BY InvParts DEF Inv
<1>4. cascade' = [cascade EXCEPT ![c] = k]
  BY <1>3, InvParts DEF FinishGoal
<1>5. Knows(h, k)
  BY <1>2 DEF Knows, Updaters, Senders, FinishGoal
<1>6. Begins(c, h)
  BY <1>1 DEF FinishGoal
<1> QED BY <1>2, <1>3, <1>4, <1>5, <1>6, GoalHandler, GoalBegins DEF FinishGoal

LEMMA SetGoalKeeps ==
  ASSUME Inv, NEW c \in Calls, SetGoal(c), requests' \in 0 .. MaxRequests
  PROVE  Inv'
<1>1. PICK g \in Handlers : /\ g = call[c] /\ Fits(g) /\ Holds(g)
                            /\ g.step # "commit" /\ alone[c] => Sees(g)
  BY Present
<1>2. g.to \in GoalStatuses
  BY <1>1 DEF SetGoal, Is, Fits
<1>3. TablesTyped' /\ RowsOK' /\ Grows
  BY <1>1, <1>2, InvParts, GoalWritten DEF SetGoal
<1>4. PICK k \in Cascades : k = cascade[c] /\ Found(k)
  BY InvParts DEF Inv
<1>5. Found(k)'
  <2>1. k.runs \subseteq Runs
    BY DEF Cascades
  <2> QED BY <1>3, <1>4, <2>1, FoundStays
<1>6. cascade' \in [Calls -> Cascades] /\ cascade' = cascade /\ call' = [call EXCEPT ![c] = Idle]
  BY InvParts DEF SetGoal, Goes
<1>7. alone' \in [Calls -> BOOLEAN] /\ \A d \in Calls \ {c} : ~ alone'[d]
  BY InvParts DEF SetGoal, Writes
<1>8. Knows(Idle, k)'
  BY IdleOK DEF Sees
<1> QED BY <1>3, <1>4, <1>5, <1>6, <1>7, <1>8, IdleOK, StepKeeps

LEMMA CloseSnapshotKeeps ==
  ASSUME Inv, NEW c \in Calls, NEW g \in Goals, NEW st \in {"DONE", "CANCELLED", "none"}, NEW cascading \in BOOLEAN,
         NEW linked \in SUBSET Items, CloseSnapshot(c, g, st, cascading, linked), requests' \in 0 .. MaxRequests
  PROVE  Inv'
<1>1. PICK I : I = IF cascading THEN Affected(g, st, linked) ELSE {}
  OBVIOUS
<1>2. PICK k : k = [to |-> st, goal |-> g, items |-> I,
                    asgs |-> {a \in Asgs : asg[a].item \in I /\ asg[a].st \in Open},
                    runs |-> {r \in Runs : run[r].item \in I /\ run[r].st \in Unfinished}]
  OBVIOUS
<1>3. k.goal = g /\ k.items = I /\ k.to = st
      /\ k.asgs = {a \in Asgs : asg[a].item \in I /\ asg[a].st \in Open}
      /\ k.runs = {r \in Runs : run[r].item \in I /\ run[r].st \in Unfinished}
  BY <1>2
<1>4. I \subseteq Items /\ (cascading => OpenWork(g) \subseteq I)
  BY <1>1 DEF Affected, OpenWork, ItemsOf, OpenItems, Terminal
<1>5. k \in Cascades
  BY <1>2, <1>4 DEF Cascades, GoalStatuses
<1>6. Found(k)
  BY <1>3 DEF Found, Placed, Open, Unfinished
<1>7. PICK h : h = [Idle EXCEPT !.op = "close", !.goal = g, !.auto = cascading, !.step = "commit"]
  OBVIOUS
<1>8. /\ h \in Handlers /\ h.op = "close" /\ h.goal = g /\ h.auto = cascading /\ h.step = "commit"
      /\ h.item = NoItem /\ h.todo = {}
  BY <1>7, IdleOK DEF Idle, Handlers, Steps, Ops
<1>9. Fits(h)
  BY <1>8 DEF Fits, Updaters, Senders
<1>10. Holds(h)
  BY <1>8, BoardAssumption DEF Holds
<1>11. Knows(h, k)
  BY <1>3, <1>4, <1>8 DEF Knows, Updaters, Senders
<1>12. Begins(c, h) /\ cascade' = [cascade EXCEPT ![c] = k]
  BY <1>1, <1>2, <1>7 DEF CloseSnapshot
<1> QED BY <1>5, <1>6, <1>8, <1>9, <1>10, <1>11, <1>12, GoalBegins DEF CloseSnapshot

\* What the commit of a closing transaction writes.
LEMMA CommitWrites ==
  ASSUME Inv, NEW c \in Calls, CloseCommit(c), NEW k \in Cascades, k = cascade[c]
  PROVE  /\ \A i \in Items : item'[i].st = IF i \in k.items THEN Closed ELSE item[i].st
         /\ \A a \in Asgs : /\ asg'[a].item = asg[a].item /\ asg'[a].role = asg[a].role
                            /\ asg'[a].st = IF a \in k.asgs THEN "RELEASED" ELSE asg[a].st
         /\ \A r \in Runs : /\ run'[r].item = run[r].item
                            /\ run'[r].st = IF r \in k.runs THEN "CANCELLED" ELSE run[r].st
         /\ TablesTyped'
<1>1. TablesTyped
  BY InvParts
<1>2. ASSUME NEW i \in Items
      PROVE  /\ item'[i].st = IF i \in k.items THEN Closed ELSE item[i].st
             /\ item'[i] \in ItemRows
  <2>1. item[i] \in ItemRows /\ Closed \in Statuses
    BY <1>1 DEF TablesTyped, Closed, Statuses, Terminal
  <2>2. item'[i] = [item[i] EXCEPT !.st = IF i \in k.items THEN Closed ELSE @,
                                   !.goal = IF k.to = "none" /\ @ = k.goal THEN NoGoal ELSE @,
                                   !.under = IF k.to = "none" /\ @ = k.goal THEN NoGoal ELSE @]
    BY DEF CloseCommit
  <2> QED BY <2>1, <2>2 DEF ItemRows
<1>3. ASSUME NEW a \in Asgs
      PROVE  /\ asg'[a].item = asg[a].item /\ asg'[a].role = asg[a].role
             /\ asg'[a].st = IF a \in k.asgs THEN "RELEASED" ELSE asg[a].st
             /\ asg'[a] \in AsgRows
  <2>1. asg[a] \in AsgRows /\ "RELEASED" \in AsgStatuses
    BY <1>1 DEF TablesTyped, AsgStatuses
  <2>2. asg'[a] = [asg[a] EXCEPT !.st = IF a \in k.asgs THEN "RELEASED" ELSE @]
    BY DEF CloseCommit
  <2> QED BY <2>1, <2>2 DEF AsgRows
<1>4. ASSUME NEW r \in Runs
      PROVE  /\ run'[r].item = run[r].item
             /\ run'[r].st = IF r \in k.runs THEN "CANCELLED" ELSE run[r].st
             /\ run'[r] \in RunRows
  <2>1. run[r] \in RunRows /\ "CANCELLED" \in RunStatuses
    BY <1>1 DEF TablesTyped, RunStatuses
  <2>2. run'[r] = [run[r] EXCEPT !.st = IF r \in k.runs THEN "CANCELLED" ELSE @]
    BY DEF CloseCommit
  <2> QED BY <2>1, <2>2 DEF RunRows
<1>5. item' \in [Items -> ItemRows]
  BY <1>2 DEF CloseCommit
<1>6. asg' \in [Asgs -> AsgRows]
  BY <1>3 DEF CloseCommit
<1>7. run' \in [Runs -> RunRows]
  BY <1>4 DEF CloseCommit
<1>8. goal' \in [Goals -> GoalStatuses \cup {"none"}] /\ review' \subseteq ReviewRows
  BY <1>1 DEF TablesTyped, CloseCommit, Cascades
<1> QED BY <1>2, <1>3, <1>4, <1>5, <1>6, <1>7, <1>8 DEF TablesTyped

LEMMA CloseCommitKeeps ==
  ASSUME Inv, NEW c \in Calls, CloseCommit(c), requests' \in 0 .. MaxRequests
  PROVE  Inv'
<1>1. PICK k \in Cascades : k = cascade[c] /\ Found(k)
  BY InvParts DEF Inv
<1>2. /\ \A i \in Items : item'[i].st = IF i \in k.items THEN Closed ELSE item[i].st
      /\ \A a \in Asgs : /\ asg'[a].item = asg[a].item /\ asg'[a].role = asg[a].role
                         /\ asg'[a].st = IF a \in k.asgs THEN "RELEASED" ELSE asg[a].st
      /\ \A r \in Runs : /\ run'[r].item = run[r].item
                         /\ run'[r].st = IF r \in k.runs THEN "CANCELLED" ELSE run[r].st
      /\ TablesTyped'
  BY <1>1, CommitWrites
<1>3. Placed' = Placed
  BY <1>1, <1>2 DEF Placed, Found
<1>4. \A i \in Items : Exists(i) => Exists(i)'
  BY <1>2 DEF Exists, Closed
<1>5. \A r \in Runs : run'[r].st # "none" <=> run[r].st # "none"
  BY <1>1, <1>2 DEF Found
<1>6. review' = review
  BY DEF CloseCommit
<1>7. Grows
  BY <1>2, <1>3, <1>4, <1>5, <1>6 DEF Grows, Placed
<1>8. RowsOK'
  <2>1. RowsOK
    BY InvParts
  <2>2. \A a \in Placed' : asg'[a].item \in Items /\ item'[asg'[a].item].st # "none"
    BY <1>2, <1>3, <1>4, <2>1 DEF RowsOK, Placed, Exists
  <2>3. \A r \in Runs : run'[r].st # "none" => run'[r].item \in Items /\ item'[run'[r].item].st # "none"
    BY <1>2, <1>4, <1>5, <2>1 DEF RowsOK, Exists
  <2>4. \E n \in 0 .. MaxAsg : Placed' = 1 .. n
    BY <1>3, <2>1 DEF RowsOK
  <2> QED BY <2>2, <2>3, <2>4 DEF RowsOK, Exists
<1>9. /\ cascade' \in [Calls -> Cascades] /\ cascade'[c] = Nothing
      /\ \A d \in Calls \ {c} : cascade'[d] = cascade[d]
  BY InvParts, NothingOK DEF CloseCommit
<1>10. call' = [call EXCEPT ![c] = Idle]
  BY DEF CloseCommit, Goes
<1>11. alone' \in [Calls -> BOOLEAN] /\ \A d \in Calls \ {c} : ~ alone'[d]
  BY InvParts DEF CloseCommit, Writes
<1>12. Knows(Idle, Nothing)'
  BY IdleOK, NothingOK DEF Sees
<1> QED BY <1>2, <1>7, <1>8, <1>9, <1>10, <1>11, <1>12, IdleOK, NothingOK, StepKeeps
--------------------------------------------------------------------------------
(***************************************************************************)
(* The inductive invariant.                                                *)
(***************************************************************************)
LEMMA Initially == Init => Inv
<1> SUFFICES ASSUME Init PROVE Inv
  OBVIOUS
<1>1. /\ item = [i \in Items |-> [st |-> "none", goal |-> NoGoal, under |-> NoGoal, auto |-> FALSE]]
      /\ asg = [a \in Asgs |-> [item |-> NoItem, role |-> "WORKER", st |-> "none"]]
      /\ run = [r \in Runs |-> [item |-> NoItem, st |-> "none"]]
      /\ review = {} /\ call = [c \in Calls |-> Idle] /\ alone = [c \in Calls |-> FALSE]
      /\ goal = [g \in Goals |-> "none"] /\ cascade = [c \in Calls |-> Nothing] /\ requests = 0
  BY DEF Init, BoardInit
<1>2. TypeOK
  <2>1. item \in [Items -> ItemRows] /\ asg \in [Asgs -> AsgRows] /\ run \in [Runs -> RunRows]
    BY <1>1 DEF ItemRows, AsgRows, RunRows, Roles
  <2>2. call \in [Calls -> Handlers] /\ cascade \in [Calls -> Cascades]
    BY <1>1, IdleOK, NothingOK
  <2>3. requests \in 0 .. MaxRequests
    BY <1>1, GoalAssumption
  <2> QED BY <1>1, <2>1, <2>2, <2>3 DEF TypeOK
<1>3. RowsOK
  <2>1. Placed = {}
    BY <1>1 DEF Placed
  <2>2. 0 \in 0 .. MaxAsg /\ 1 .. 0 = {}
    BY BoardAssumption
  <2>3. \A r \in Runs : run[r].st = "none"
    BY <1>1
  <2> QED BY <2>1, <2>2, <2>3 DEF RowsOK
<1>4. \A c \in Calls : Fits(call[c]) /\ Holds(call[c]) /\ Found(cascade[c]) /\ ~ alone[c]
  BY <1>1, IdleOK, NothingOK
<1> QED BY <1>2, <1>3, <1>4 DEF Inv

LEMMA StartsKeeps ==
  ASSUME Inv, NEW c \in Calls, Framed, Starts(c)
  PROVE  Inv'
<1>1. CASE \E g \in Goals \cup {NoGoal}, auto \in BOOLEAN,
              st \in {Initial, "DRAFT", Closed} \cap (ByHand \cup {Initial}) : CreateStart(c, g, auto, st)
  <2>1. {Initial, "DRAFT", Closed} \subseteq Statuses
    BY DEF Initial, Closed, Statuses, Claimable, Terminal
  <2> QED BY <1>1, <2>1, CreateStartKeeps
<1>2. CASE \E i \in Items : \E st \in ByHand, statusOnly \in BOOLEAN : RuntimeSets(c, i, st, statusOnly)
  BY <1>2, RuntimeSetsKeeps, ByHandAssumption
<1>3. CASE \E i \in Items : ClaimStart(c, i)
  BY <1>3, ClaimStartKeeps
<1>4. CASE \E i \in Items : \E role \in Roles : DispatchStart(c, i, role)
  BY <1>4, DispatchStartKeeps
<1>5. CASE \E i \in Items : \E a \in Asgs \cup {0}, v \in Verdicts : CreateReview(c, i, a, v)
  BY <1>5, CreateReviewKeeps
<1>6. CASE \E i \in Items : \E r \in Runs : CreateRun(c, r, i)
  BY <1>6, CreateRunKeeps
<1>7. CASE \E a \in Asgs : \E st \in AsgStatuses, role \in Roles \cup {"manager"} : UpdateAssignment(c, a, st, role)
  BY <1>7, UpdateAssignmentKeeps
<1>8. CASE \E a \in Asgs : MessageFails(c, a)
  BY <1>8, MessageFailsKeeps
<1>9. CASE \E r \in Runs, st \in RunStatuses : UpdateRun(c, r, st)
  BY <1>9, UpdateRunKeeps
<1> QED BY <1>1, <1>2, <1>3, <1>4, <1>5, <1>6, <1>7, <1>8, <1>9 DEF Starts

LEMMA ContinuesKeeps ==
  ASSUME Inv, NEW c \in Calls, Framed, Continues(c)
  PROVE  Inv'
<1>1. CASE CreateCapacity(c) \/ \E i \in Items, under \in Goals \cup {NoGoal} : CreateInsert(c, i, under)
  BY <1>1, CreateCapacityKeeps, CreateInsertKeeps
<1>2. CASE ClaimPlace(c)
  BY <1>2, ClaimPlaceKeeps
<1>3. CASE AssignmentWrite(c) \/ CountOpen(c) \/ Fetch(c) \/ SetItem(c)
  BY <1>3, AssignmentWriteKeeps, CountOpenKeeps, FetchKeeps, SetItemKeeps
<1>4. CASE DispatchFindOpen(c) \/ DispatchExisting(c) \/ DispatchPlace(c) \/ DispatchWake(c)
  BY <1>4, DispatchFindOpenKeeps, DispatchExistingKeeps, DispatchPlaceKeeps, DispatchWakeKeeps
<1>5. CASE \E t \in call[c].todo : DispatchMark(c, t) \/ ReconcileSkips(c, t) \/ ReconcileFails(c, t)
  BY <1>5, DispatchMarkKeeps, ReconcileSkipsKeeps, ReconcileFailsKeeps
<1> QED BY <1>1, <1>2, <1>3, <1>4, <1>5 DEF Continues

LEMMA DirectHandlersKeep ==
  ASSUME Inv, Framed, Direct
  PROVE  Inv'
BY OwnerSetsKeeps, ManagerAssignsKeeps, ByHandAssumption DEF Direct

LEMMA GoalRequestKeeps ==
  ASSUME Inv, NEW g \in Goals, GoalRequest(g), requests' \in 0 .. MaxRequests
  PROVE  Inv'
<1>1. CASE CreateGoal(g) \/ ParkGoal(g)
  BY <1>1, CreateGoalKeeps, ParkGoalKeeps
<1>2. CASE \E c \in Calls : \E st \in ActiveStatuses : StartGoal(c, g, st)
  BY <1>2, StartGoalKeeps
<1>3. CASE \E c \in Calls : FinishGoal(c, g)
  BY <1>3, FinishGoalKeeps
<1>4. CASE \E c \in Calls : \E st \in {"DONE", "CANCELLED", "none"}, cascading \in BOOLEAN,
              linked \in SUBSET Items : CloseSnapshot(c, g, st, cascading, linked)
  BY <1>4, CloseSnapshotKeeps
<1> QED BY <1>1, <1>2, <1>3, <1>4 DEF GoalRequest

LEMMA StutterKeeps ==
  ASSUME Inv, UNCHANGED vars
  PROVE  Inv'
<1>1. /\ item' = item /\ asg' = asg /\ run' = run /\ review' = review /\ call' = call /\ alone' = alone
      /\ goal' = goal /\ cascade' = cascade /\ requests' = requests
  BY DEF vars, boardVars
<1>2. Same
  BY <1>1 DEF Same
<1>3. TablesTyped' /\ RowsOK' /\ Grows
  BY <1>2, SameTables, SameGrows, InvParts
<1>4. TypeOK'
  BY <1>1, <1>3, InvParts DEF TypeOK, TablesTyped
<1>5. ASSUME NEW c \in Calls
      PROVE  (Fits(call[c]) /\ Holds(call[c]) /\ Found(cascade[c]) /\ (alone[c] => Knows(call[c], cascade[c])))'
  <2>1. PICK g \in Handlers : g = call[c]
    BY InvParts
  <2>2. PICK k \in Cascades : k = cascade[c]
    BY InvParts
  <2>3. Fits(g) /\ Holds(g) /\ Found(k) /\ (alone[c] => Knows(g, k))
    BY <2>1, <2>2 DEF Inv
  <2>4. Holds(g)' /\ Found(k)' /\ (alone[c] => Knows(g, k)')
    <3>1. k.runs \subseteq Runs
      BY DEF Cascades
    <3> QED BY <1>2, <1>3, <2>3, <3>1, HoldsStays, FoundStays, KnowsStays
  <2>5. call'[c] = g /\ cascade'[c] = k /\ alone'[c] = alone[c]
    BY <1>1, <2>1, <2>2
  <2> QED BY <2>3, <2>4, <2>5
<1> QED BY <1>3, <1>4, <1>5 DEF Inv

LEMMA Inductive == Inv /\ [Next]_vars => Inv'
<1> SUFFICES ASSUME Inv, [Next]_vars PROVE Inv'
  OBVIOUS
<1>1. requests \in 0 .. MaxRequests
  BY InvParts
<1>2. CASE Request
  <2>1. requests' \in 0 .. MaxRequests
    BY <1>1, <1>2, GoalAssumption DEF Request
  <2>2. CASE BoardRequest
    <3>1. Framed /\ (Direct \/ \E c \in Calls : Starts(c))
      BY <2>1, <2>2 DEF BoardRequest, OnBoard, Framed
    <3> QED BY <3>1, DirectHandlersKeep, StartsKeeps
  <2>3. CASE \E g \in Goals : GoalRequest(g)
    BY <2>1, <2>3, GoalRequestKeeps
  <2> QED BY <1>2, <2>2, <2>3 DEF Request
<1>3. ASSUME NEW c \in Calls, Advance(c) PROVE Inv'
  <2>1. requests' \in 0 .. MaxRequests
    BY <1>1, <1>3 DEF Advance
  <2>2. CASE OnBoard(Continues(c))
    <3>1. Framed /\ Continues(c)
      BY <2>1, <2>2 DEF OnBoard, Framed
    <3> QED BY <3>1, ContinuesKeeps
  <2> QED BY <1>3, <2>1, <2>2, SetGoalKeeps, CloseCommitKeeps DEF Advance
<1>4. ASSUME NEW c \in Calls, Reconcile(c) PROVE Inv'
  <2>1. Framed /\ ReconcileStart(c)
    BY <1>1, <1>4 DEF Reconcile, OnBoard, Framed
  <2> QED BY <2>1, ReconcileStartKeeps
<1>5. ASSUME NEW c \in Calls, Throw(c) PROVE Inv'
  <2>1. Framed /\ StatementFails(c)
    BY <1>1, <1>5 DEF Throw, OnBoard, Framed
  <2> QED BY <2>1, StatementFailsKeeps
<1>6. CASE UNCHANGED vars
  BY <1>6, StutterKeeps
<1> QED BY <1>2, <1>3, <1>4, <1>5, <1>6 DEF Next

\* Every handler holds rows that exist and keep their place, and one that nobody overtook knows
\* what it read: the facts behind the board's checks before its writes.
THEOREM Invariance == Spec => []Inv
<1> QED BY Initially, Inductive, PTL DEF Spec

\* Tables and handlers have their shapes.
THEOREM TypeCorrect == Spec => []TypeOK
<1>1. Inv => TypeOK
  BY DEF Inv
<1> QED BY <1>1, Invariance, PTL
--------------------------------------------------------------------------------
(***************************************************************************)
(* Who takes a step.                                                       *)
(***************************************************************************)
LEMMA StartsWhenIdle ==
  ASSUME Inv, NEW d \in Calls, Starts(d), NEW c \in Calls, call[c] # Idle
  PROVE  call'[c] = call[c]
<1> USE InvParts
<1>1. CASE \E g \in Goals \cup {NoGoal}, auto \in BOOLEAN,
              st \in {Initial, "DRAFT", Closed} \cap (ByHand \cup {Initial}) : CreateStart(d, g, auto, st)
  BY <1>1 DEF CreateStart, Begins
<1>2. CASE \E i \in Items : \E st \in ByHand, statusOnly \in BOOLEAN : RuntimeSets(d, i, st, statusOnly)
  BY <1>2 DEF RuntimeSets, Begins
<1>3. CASE \E i \in Items : ClaimStart(d, i)
  BY <1>3 DEF ClaimStart, Begins
<1>4. CASE \E i \in Items : \E role \in Roles : DispatchStart(d, i, role)
  BY <1>4 DEF DispatchStart, Begins
<1>5. CASE \E i \in Items : \E a \in Asgs \cup {0}, v \in Verdicts : CreateReview(d, i, a, v)
  BY <1>5 DEF CreateReview, Goes
<1>6. CASE \E i \in Items : \E r \in Runs : CreateRun(d, r, i)
  BY <1>6 DEF CreateRun, Goes
<1>7. CASE \E a \in Asgs : \E st \in AsgStatuses, role \in Roles \cup {"manager"} : UpdateAssignment(d, a, st, role)
  BY <1>7 DEF UpdateAssignment, Begins
<1>8. CASE \E a \in Asgs : MessageFails(d, a)
  BY <1>8 DEF MessageFails, Begins
<1>9. CASE \E r \in Runs, st \in RunStatuses : UpdateRun(d, r, st)
  BY <1>9 DEF UpdateRun, Goes
<1> QED BY <1>1, <1>2, <1>3, <1>4, <1>5, <1>6, <1>7, <1>8, <1>9 DEF Starts

LEMMA ContinuesAlone ==
  ASSUME Inv, NEW d \in Calls, Continues(d), NEW c \in Calls \ {d}
  PROVE  call'[c] = call[c]
<1> USE InvParts
<1>1. CASE CreateCapacity(d) \/ \E i \in Items, under \in Goals \cup {NoGoal} : CreateInsert(d, i, under)
  BY <1>1 DEF CreateCapacity, CreateInsert, Goes
<1>2. CASE ClaimPlace(d)
  BY <1>2 DEF ClaimPlace, Goes
<1>3. CASE AssignmentWrite(d) \/ CountOpen(d) \/ Fetch(d) \/ SetItem(d)
  BY <1>3 DEF AssignmentWrite, CountOpen, Fetch, SetItem, Goes
<1>4. CASE DispatchFindOpen(d) \/ DispatchPlace(d) \/ DispatchWake(d)
  BY <1>4 DEF DispatchFindOpen, DispatchPlace, DispatchWake, Goes
<1>5. CASE DispatchExisting(d)
  BY <1>5 DEF DispatchExisting, Goes
<1>6. CASE \E t \in call[d].todo : DispatchMark(d, t) \/ ReconcileSkips(d, t) \/ ReconcileFails(d, t)
  BY <1>6 DEF DispatchMark, ReconcileSkips, ReconcileFails, Goes
<1> QED BY <1>1, <1>2, <1>3, <1>4, <1>5, <1>6 DEF Continues

LEMMA GoalRequestWhenIdle ==
  ASSUME Inv, NEW g \in Goals, GoalRequest(g), NEW c \in Calls, call[c] # Idle
  PROVE  call'[c] = call[c]
BY InvParts DEF GoalRequest, CreateGoal, ParkGoal, StartGoal, FinishGoal, CloseSnapshot, Begins

\* A handler under way changes by its own next statement only.
LEMMA OwnStep ==
  ASSUME Inv, Next, NEW c \in Calls, call[c] # Idle, call'[c] # call[c]
  PROVE  \/ Continues(c) /\ goal' = goal
         \/ SetGoal(c) \/ CloseCommit(c)
         \/ StatementFails(c) /\ goal' = goal
<1>1. ~ Request
  <2>1. ASSUME Direct PROVE FALSE
    BY <2>1 DEF Direct, OwnerSets, ManagerAssigns
  <2>2. ~ BoardRequest
    BY <2>1, StartsWhenIdle DEF BoardRequest, OnBoard
  <2> QED BY <2>2, GoalRequestWhenIdle DEF Request
<1>2. ASSUME NEW d \in Calls, Advance(d)
      PROVE  \/ Continues(c) /\ goal' = goal
             \/ SetGoal(c) \/ CloseCommit(c)
  <2>1. CASE OnBoard(Continues(d))
    <3>1. Continues(d) /\ goal' = goal
      BY <2>1 DEF OnBoard
    <3>2. d = c
      BY <3>1, ContinuesAlone
    <3> QED BY <3>1, <3>2
  <2>2. CASE SetGoal(d)
    <3>1. d = c
      BY <2>2, InvParts DEF SetGoal, Goes
    <3> QED BY <2>2, <3>1
  <2>3. CASE CloseCommit(d)
    <3>1. d = c
      BY <2>3, InvParts DEF CloseCommit, Goes
    <3> QED BY <2>3, <3>1
  <2> QED BY <1>2, <2>1, <2>2, <2>3 DEF Advance
<1>3. ASSUME NEW d \in Calls, Reconcile(d) PROVE FALSE
  <2>1. ReconcileStart(d)
    BY <1>3 DEF Reconcile, OnBoard
  <2> QED BY <2>1, InvParts DEF ReconcileStart, Begins
<1>4. ASSUME NEW d \in Calls, Throw(d) PROVE StatementFails(c) /\ goal' = goal
  <2>1. StatementFails(d) /\ goal' = goal
    BY <1>4 DEF Throw, OnBoard
  <2>2. d = c
    BY <2>1, InvParts DEF StatementFails, Goes
  <2> QED BY <2>1, <2>2
<1> QED BY <1>1, <1>2, <1>3, <1>4 DEF Next

\* Which statement it is, its step tells.
LEMMA StatementOf ==
  ASSUME NEW c \in Calls, Continues(c)
  PROVE  /\ Is(c, "setItem") => SetItem(c)
         /\ Is(c, "write") => AssignmentWrite(c)
         /\ Is(c, "placeOne") => ClaimPlace(c)
         /\ Is(c, "insert") => \E i \in Items, under \in Goals \cup {NoGoal} : CreateInsert(c, i, under)
BY DEF Continues, Is, CreateCapacity, CreateInsert, ClaimPlace, AssignmentWrite, CountOpen, Fetch,
       SetItem, DispatchFindOpen, DispatchExisting, DispatchPlace, DispatchWake, DispatchMark,
       ReconcileSkips, ReconcileFails

\* What a handler of the given operation does in a step: nothing to the tables, or its statement.
LEMMA TookStep ==
  ASSUME Inv, [Next]_vars, NEW c \in Calls, NEW ops, NEW s, Took(c, ops, s), s # "none"
  PROVE  /\ call[c].op \in ops /\ Is(c, s)
         /\ \/ Continues(c) /\ goal' = goal
            \/ UNCHANGED <<item, asg, run, review, goal>>
            \/ SetGoal(c) /\ s = "setGoal"
            \/ CloseCommit(c) /\ s = "commit"
<1>1. call[c].op \in ops /\ call[c].step = s /\ call'[c] # call[c]
  BY DEF Took
<1>2. call[c] # Idle
  BY <1>1 DEF Idle
<1>3. Next
  BY <1>1 DEF vars, boardVars
<1>4. \/ Continues(c) /\ goal' = goal
      \/ SetGoal(c) \/ CloseCommit(c)
      \/ StatementFails(c) /\ goal' = goal
  BY <1>1, <1>2, <1>3, OwnStep
<1>5. (SetGoal(c) => s = "setGoal") /\ (CloseCommit(c) => s = "commit")
  <2>1. CloseCommit(c) => call[c].step = "commit"
    BY DEF CloseCommit, Is
  <2> QED BY <1>1, <2>1 DEF SetGoal, Is
<1>6. StatementFails(c) /\ goal' = goal => UNCHANGED <<item, asg, run, review, goal>>
  BY DEF StatementFails
<1> QED BY <1>1, <1>4, <1>5, <1>6 DEF Is
--------------------------------------------------------------------------------
(***************************************************************************)
(* The board's properties.                                                 *)
(***************************************************************************)
LEMMA SetItemMoves ==
  ASSUME Inv, NEW c \in Calls, SetItem(c), NEW i \in Items, item'[i].st # item[i].st
  PROVE  i = call[c].item
BY InvParts DEF SetItem, TablesTyped, ItemRows

\* updateAssignment, dispatch and the reconciliation never take an item out of a terminal
\* status, unless somebody else wrote to the board since they began.
THEOREM StaleNeverReopens == Spec => StaleDoesNotReopen
<1>1. Inv /\ [Next]_vars =>
        [\A c \in Calls, i \in Items :
           Took(c, {"manager", "assignment", "dispatch", "reconcile"}, "setItem") /\ Reopens(i)
             => ~ alone[c]]_vars
  <2> SUFFICES ASSUME Inv, [Next]_vars, NEW c \in Calls, NEW i \in Items,
                      Took(c, {"manager", "assignment", "dispatch", "reconcile"}, "setItem"), Reopens(i),
                      alone[c]
               PROVE  FALSE
    OBVIOUS
  <2>1. item' # item
    BY DEF Reopens
  <2>2. /\ call[c].op \in {"manager", "assignment", "dispatch", "reconcile"} /\ Is(c, "setItem")
        /\ Continues(c)
    BY <2>1, TookStep
  <2>3. SetItem(c)
    BY <2>2, StatementOf
  <2>4. i = call[c].item
    BY <2>3, SetItemMoves DEF Reopens
  <2>5. PICK g \in Handlers : /\ g = call[c] /\ Fits(g) /\ Holds(g)
                              /\ g.step # "commit" /\ alone[c] => Sees(g)
    BY Present
  <2>6. Knows(g, Nothing)
    BY <2>2, <2>5, SeesKnows DEF Is
  <2> QED BY <2>2, <2>4, <2>5, <2>6 DEF Is, Knows, Updaters, Reopens
<1> QED BY <1>1, Invariance, PTL DEF Spec, StaleDoesNotReopen

\* An item is sent back for revision over a failed assignment or message only when nobody else
\* is at work on it, as far as the handler can have seen.
THEOREM NobodyLosesWork == Spec => SentBackWhenNobodyWorks
<1>1. Inv /\ [Next]_vars =>
        [\A c \in Calls :
           /\ Took(c, {"manager", "assignment", "dispatch", "reconcile", "message"}, "setItem")
           /\ item' # item /\ call[c].put = Revision
           => OpenOn(call[c].item) = {} \/ ~ alone[c]]_vars
  <2> SUFFICES ASSUME Inv, [Next]_vars, NEW c \in Calls,
                      Took(c, {"manager", "assignment", "dispatch", "reconcile", "message"}, "setItem"),
                      item' # item, call[c].put = Revision, alone[c]
               PROVE  OpenOn(call[c].item) = {}
    OBVIOUS
  <2>1. /\ call[c].op \in {"manager", "assignment", "dispatch", "reconcile", "message"}
        /\ Is(c, "setItem")
    BY TookStep
  <2>2. PICK g \in Handlers : /\ g = call[c] /\ Fits(g) /\ Holds(g)
                              /\ g.step # "commit" /\ alone[c] => Sees(g)
    BY Present
  <2>3. Knows(g, Nothing)
    BY <2>1, <2>2, SeesKnows DEF Is
  <2> QED BY <2>1, <2>2, <2>3 DEF Is, Knows, Updaters, Senders
<1> QED BY <1>1, Invariance, PTL DEF Spec, SentBackWhenNobodyWorks

\* createWorkItem keeps the board's limit of open items, a claim the limit of one worker to an
\* item, unless another handler came between the check and the insert.
THEOREM LimitsHold == Spec => LimitsKept
<1>1. ASSUME Inv, [Next]_vars, NEW c \in Calls, Took(c, {"create"}, "insert"),
             call[c].put \notin Terminal, item' # item, alone[c]
      PROVE  Cardinality(OpenItems') <= MaxOpen
  <2>1. Is(c, "insert") /\ Continues(c)
    BY <1>1, TookStep
  <2>2. PICK i \in Items, under \in Goals \cup {NoGoal} : CreateInsert(c, i, under)
    BY <2>1, StatementOf
  <2>3. PICK g \in Handlers : /\ g = call[c] /\ Fits(g) /\ Holds(g)
                              /\ g.step # "commit" /\ alone[c] => Sees(g)
    BY <1>1, Present
  <2>4. Knows(g, Nothing)
    BY <1>1, <2>1, <2>3, SeesKnows DEF Is
  <2>5. Cardinality(OpenItems) < MaxOpen
    BY <1>1, <2>1, <2>3, <2>4 DEF Is, Knows
  <2>6. \A j \in Items \ {i} : item'[j] = item[j]
    BY <1>1, <2>2, InvParts DEF CreateInsert, TablesTyped
  <2>7. PICK S : S = OpenItems /\ IsFiniteSet(S)
    BY BoardAssumption, FS_Subset DEF OpenItems
  <2>8. OpenItems' \subseteq S \cup {i}
    BY <2>6, <2>7 DEF OpenItems
  <2>9. PICK T : T = OpenItems'
    OBVIOUS
  <2>10. /\ Cardinality(S) \in Nat /\ Cardinality(T) \in Nat
         /\ Cardinality(T) <= Cardinality(S) + 1
    BY <2>7, <2>8, <2>9, OneMore
  <2>11. Cardinality(S) < MaxOpen
    BY <2>5, <2>7
  <2>12. Cardinality(T) <= MaxOpen
    BY <2>10, <2>11, BoardAssumption
  <2> QED BY <2>9, <2>12
<1>2. ASSUME Inv, [Next]_vars, NEW c \in Calls, Took(c, {"claim"}, "placeOne"), asg' # asg, alone[c]
      PROVE  OpenOn(call[c].item) = {}
  <2>1. Is(c, "placeOne")
    BY <1>2, TookStep
  <2>2. PICK g \in Handlers : /\ g = call[c] /\ Fits(g) /\ Holds(g)
                              /\ g.step # "commit" /\ alone[c] => Sees(g)
    BY <1>2, Present
  <2>3. Knows(g, Nothing)
    BY <1>2, <2>1, <2>2, SeesKnows DEF Is
  <2> QED BY <2>1, <2>2, <2>3 DEF Is, Knows
<1>3. Inv /\ [Next]_vars =>
        [\A c \in Calls :
           /\ Took(c, {"create"}, "insert") /\ call[c].put \notin Terminal /\ item' # item
                => Cardinality(OpenItems') <= MaxOpen \/ ~ alone[c]
           /\ Took(c, {"claim"}, "placeOne") /\ asg' # asg
                => OpenOn(call[c].item) = {} \/ ~ alone[c]]_vars
  BY <1>1, <1>2
<1> QED BY <1>3, Invariance, PTL DEF Spec, LimitsKept

\* A verdict that an agent sends as a status and nothing else follows that verdict of a
\* reviewer, if the item has one; an agent that is a reviewer completes an assignment only
\* after a review under it.
THEOREM ReviewComesFirst == Spec => ReviewGate
<1>1. ASSUME Inv, [Next]_vars, NEW c \in Calls, Took(c, {"runtime"}, "setItem"), alone[c],
             NEW a \in Asgs, asg[a].item = call[c].item, asg[a].role = "REVIEW",
             NEW v \in Verdicts, ByVerdict[v] = call[c].put
      PROVE  \E r \in review : r.item = call[c].item /\ r.verdict = v
  <2>1. call[c].op = "runtime" /\ Is(c, "setItem")
    BY <1>1, TookStep
  <2>2. PICK g \in Handlers : /\ g = call[c] /\ Fits(g) /\ Holds(g)
                              /\ g.step # "commit" /\ alone[c] => Sees(g)
    BY <1>1, Present
  <2>3. Knows(g, Nothing)
    BY <1>1, <2>1, <2>2, SeesKnows DEF Is
  <2>4. ~ NeedsReview(g.item, v)
    BY <1>1, <2>1, <2>2, <2>3 DEF Knows
  <2> QED BY <1>1, <2>2, <2>4 DEF NeedsReview
<1>2. ASSUME Inv, [Next]_vars, NEW c \in Calls, Took(c, {"assignment"}, "write"), call[c].to = "COMPLETED"
      PROVE  call[c].role = "WORKER" \/ \E r \in review : r.asg = call[c].asg
  <2>1. call[c].op = "assignment" /\ Is(c, "write")
    BY <1>2, TookStep
  <2>2. PICK g \in Handlers : /\ g = call[c] /\ Fits(g) /\ Holds(g)
                              /\ g.step # "commit" /\ alone[c] => Sees(g)
    BY <1>2, Present
  <2> QED BY <1>2, <2>1, <2>2 DEF Is, Holds
<1>3. Inv /\ [Next]_vars =>
        [\A c \in Calls :
           /\ Took(c, {"runtime"}, "setItem") /\ item' # item
                => \/ ~ alone[c]
                   \/ \A a \in Asgs : asg[a].item # call[c].item \/ asg[a].role # "REVIEW"
                   \/ \A v \in Verdicts : ByVerdict[v] = call[c].put
                        => \E r \in review : r.item = call[c].item /\ r.verdict = v
           /\ Took(c, {"assignment"}, "write") /\ call[c].to = "COMPLETED" /\ asg' # asg
                => call[c].role = "WORKER" \/ \E r \in review : r.asg = call[c].asg]_vars
  BY <1>1, <1>2
<1> QED BY <1>3, Invariance, PTL DEF Spec, ReviewGate

\* A goal that ends takes its open items with it, and what was under way under them; an agent
\* ends a goal when nothing is left to do, and starts no more than the project may have.
THEOREM GoalsEndClean == Spec => GoalEndsClean
<1>1. ASSUME Inv, [Next]_vars, NEW c \in Calls, Took(c, {"close"}, "commit"), goal' # goal,
             call[c].auto, alone[c], NEW g, g = call[c].goal
      PROVE  /\ \A i \in OpenWork(g) : item'[i].st \in Terminal
             /\ \A a \in Asgs : asg[a].st \in Open /\ asg[a].item \in OpenWork(g)
                  => asg'[a].st \notin Open
             /\ \A r \in Runs : run[r].st \in Unfinished /\ run[r].item \in OpenWork(g)
                  => run'[r].st \notin Unfinished
  <2>1. call[c].op = "close" /\ Is(c, "commit") /\ CloseCommit(c)
    BY <1>1, TookStep
  <2>2. PICK h \in Handlers : h = call[c]
    BY <1>1, InvParts
  <2>3. PICK k \in Cascades : k = cascade[c] /\ Knows(h, k)
    BY <1>1, <2>2, InvParts DEF Inv
  <2>4. /\ OpenWork(g) \subseteq k.items
        /\ {a \in Asgs : asg[a].st \in Open /\ asg[a].item \in OpenWork(g)} \subseteq k.asgs
        /\ {r \in Runs : run[r].st \in Unfinished /\ run[r].item \in OpenWork(g)} \subseteq k.runs
    BY <1>1, <2>1, <2>2, <2>3 DEF Knows, Is
  <2>5. /\ \A i \in Items : item'[i].st = IF i \in k.items THEN Closed ELSE item[i].st
        /\ \A a \in Asgs : asg'[a].st = IF a \in k.asgs THEN "RELEASED" ELSE asg[a].st
        /\ \A r \in Runs : run'[r].st = IF r \in k.runs THEN "CANCELLED" ELSE run[r].st
    BY <1>1, <2>1, <2>3, CommitWrites
  <2>6. OpenWork(g) \subseteq Items
    BY DEF OpenWork, ItemsOf
  <2> QED BY <2>4, <2>5, <2>6 DEF Closed, Terminal, Open, Unfinished
<1>2. ASSUME Inv, [Next]_vars, NEW c \in Calls, Took(c, {"goal"}, "setGoal"), goal' # goal, alone[c],
             NEW g, g = call[c].goal
      PROVE  IF call[c].to = "DONE" THEN OpenWork(g) = {}
             ELSE goal[g] \in ActiveStatuses \/ Cardinality(ActiveGoals') <= MaxGoals
  <2>1. call[c].op = "goal" /\ Is(c, "setGoal") /\ SetGoal(c)
    BY <1>2, TookStep
  <2>2. PICK h \in Handlers : /\ h = call[c] /\ Fits(h) /\ Holds(h)
                              /\ h.step # "commit" /\ alone[c] => Sees(h)
    BY <1>2, Present
  <2>3. Knows(h, Nothing)
    BY <1>2, <2>1, <2>2, SeesKnows DEF Is
  <2>4. IF h.to = "DONE" THEN OpenWork(g) = {}
        ELSE goal[g] \in ActiveStatuses \/ Cardinality(ActiveGoals) < MaxGoals
    BY <1>2, <2>1, <2>2, <2>3 DEF Knows, Is
  <2>5. ASSUME Cardinality(ActiveGoals) < MaxGoals PROVE Cardinality(ActiveGoals') <= MaxGoals
    <3>1. PICK S : S = ActiveGoals /\ IsFiniteSet(S)
      BY BoardAssumption, FS_Subset DEF ActiveGoals
    <3>2. PICK T : T = ActiveGoals'
      OBVIOUS
    <3>3. \A x \in Goals \ {g} : goal'[x] = goal[x]
      BY <1>2, <2>1, InvParts DEF SetGoal, TablesTyped
    <3>4. T \subseteq S \cup {g}
      BY <3>1, <3>2, <3>3 DEF ActiveGoals
    <3>5. /\ Cardinality(S) \in Nat /\ Cardinality(T) \in Nat
          /\ Cardinality(T) <= Cardinality(S) + 1
      BY <3>1, <3>4, OneMore
    <3>6. Cardinality(S) < MaxGoals
      BY <2>5, <3>1
    <3>7. Cardinality(T) <= MaxGoals
      BY <3>5, <3>6, GoalAssumption
    <3> QED BY <3>2, <3>7
  <2> QED BY <2>2, <2>4, <2>5
<1>3. Inv /\ [Next]_vars =>
        [\A c \in Calls :
           LET g == call[c].goal IN
           /\ Took(c, {"close"}, "commit") /\ goal' # goal /\ call[c].auto /\ alone[c]
                => /\ \A i \in OpenWork(g) : item'[i].st \in Terminal
                   /\ \A a \in Asgs : asg[a].st \in Open /\ asg[a].item \in OpenWork(g)
                        => asg'[a].st \notin Open
                   /\ \A r \in Runs : run[r].st \in Unfinished /\ run[r].item \in OpenWork(g)
                        => run'[r].st \notin Unfinished
           /\ Took(c, {"goal"}, "setGoal") /\ goal' # goal /\ alone[c]
                => IF call[c].to = "DONE" THEN OpenWork(g) = {}
                   ELSE goal[g] \in ActiveStatuses \/ Cardinality(ActiveGoals') <= MaxGoals]_vars
  <2> SUFFICES ASSUME Inv, [Next]_vars, NEW c \in Calls
               PROVE  LET g == call[c].goal IN
           /\ Took(c, {"close"}, "commit") /\ goal' # goal /\ call[c].auto /\ alone[c]
                => /\ \A i \in OpenWork(g) : item'[i].st \in Terminal
                   /\ \A a \in Asgs : asg[a].st \in Open /\ asg[a].item \in OpenWork(g)
                        => asg'[a].st \notin Open
                   /\ \A r \in Runs : run[r].st \in Unfinished /\ run[r].item \in OpenWork(g)
                        => run'[r].st \notin Unfinished
           /\ Took(c, {"goal"}, "setGoal") /\ goal' # goal /\ alone[c]
                => IF call[c].to = "DONE" THEN OpenWork(g) = {}
                   ELSE goal[g] \in ActiveStatuses \/ Cardinality(ActiveGoals') <= MaxGoals
    OBVIOUS
  <2>1. PICK g : g = call[c].goal
    OBVIOUS
  <2> QED BY <1>1, <1>2, <2>1
<1> QED BY <1>3, Invariance, PTL DEF Spec, GoalEndsClean
================================================================================
