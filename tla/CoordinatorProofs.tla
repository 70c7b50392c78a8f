-------------------------- MODULE CoordinatorProofs --------------------------
(***************************************************************************)
(* Proofs about Coordinator for any items, agents, plans, needs, limits and *)
(* numbers of handlers, assignments and requests.                          *)
(***************************************************************************)
EXTENDS Coordinator, FiniteSetTheorems, TLAPS

(***************************************************************************)
(* The records of handlers.                                                *)
(***************************************************************************)
LEMMA IdleIs ==
  /\ Idle \in Handlers /\ CallOK(Idle)
  /\ Idle.op = "none" /\ Idle.step = "none" /\ Idle.todo = {} /\ Idle.item = NoItem
  /\ Idle.agent = NoAgent /\ Idle.reused = FALSE /\ Idle.sent = 0 /\ Idle.opened = {}
<1>1. /\ Idle.op = "none" /\ Idle.step = "none" /\ Idle.todo = {} /\ Idle.item = NoItem
      /\ Idle.agent = NoAgent /\ Idle.reused = FALSE /\ Idle.sent = 0 /\ Idle.opened = {}
  BY DEF Idle
<1>2. 0 \in 0 .. MaxPerTick
  BY CoordinatorAssumption
<1>3. Idle \in Handlers
  BY <1>2 DEF Idle, Handlers
<1>4. CallOK(Idle)
  BY <1>1 DEF CallOK, BeforeQuery, AfterQuery
<1> QED BY <1>1, <1>3, <1>4

\* A handler at the first step of an operation.
Fresh(h, op, step) ==
  h \in Handlers /\ CallOK(h) /\ h.op = op /\ h.step = step /\ h.todo = {}
LEMMA StartIs ==
  /\ Fresh([Idle EXCEPT !.op = "tick", !.step = "manager"], "tick", "manager")
  /\ Fresh([Idle EXCEPT !.op = "launch", !.step = "pick"], "launch", "pick")
  /\ \A on \in BOOLEAN :
       Fresh([Idle EXCEPT !.op = "status", !.step = "statusWrite", !.on = on], "status", "statusWrite")
<1>1. ASSUME NEW h, h \in Handlers, h.todo = {}, h.reused = FALSE, h.sent = 0,
             <<h.op, h.step>> \in {<<"tick", "manager">>, <<"launch", "pick">>, <<"status", "statusWrite">>}
      PROVE CallOK(h)
  BY <1>1 DEF CallOK, BeforeQuery, AfterQuery
<1>2. ASSUME NEW h, h = [Idle EXCEPT !.op = "tick", !.step = "manager"]
      PROVE Fresh(h, "tick", "manager")
  <2>1. h \in Handlers /\ h.op = "tick" /\ h.step = "manager" /\ h.todo = {} /\ h.reused = FALSE /\ h.sent = 0
    BY <1>2, IdleIs DEF Handlers, BeforeQuery
  <2> QED BY <1>1, <2>1 DEF Fresh
<1>3. ASSUME NEW h, h = [Idle EXCEPT !.op = "launch", !.step = "pick"]
      PROVE Fresh(h, "launch", "pick")
  <2>1. h \in Handlers /\ h.op = "launch" /\ h.step = "pick" /\ h.todo = {} /\ h.reused = FALSE /\ h.sent = 0
    BY <1>3, IdleIs DEF Handlers, AfterQuery
  <2> QED BY <1>1, <2>1 DEF Fresh
<1>4. ASSUME NEW on \in BOOLEAN, NEW h, h = [Idle EXCEPT !.op = "status", !.step = "statusWrite", !.on = on]
      PROVE Fresh(h, "status", "statusWrite")
  <2>1. h \in Handlers /\ h.op = "status" /\ h.step = "statusWrite" /\ h.todo = {} /\ h.reused = FALSE /\ h.sent = 0
    BY <1>4, IdleIs DEF Handlers
  <2> QED BY <1>1, <2>1 DEF Fresh
<1> QED BY <1>2, <1>3, <1>4

LEMMA NextItemIs ==
  ASSUME NEW h \in Handlers, h.op = "tick", h.todo \ {h.item} # {} => h.sent < MaxPerTick
  PROVE /\ NextItem(h) \in Handlers /\ CallOK(NextItem(h))
        /\ NextItem(h).op = "tick" /\ NextItem(h).step = "next" /\ NextItem(h).reused = FALSE
        /\ NextItem(h).todo = h.todo \ {h.item} /\ NextItem(h).opened = h.opened
<1> DEFINE q == NextItem(h)
<1>1. /\ q.op = "tick" /\ q.step = "next" /\ q.todo = h.todo \ {h.item} /\ q.opened = h.opened
      /\ q.reused = FALSE /\ q.sent = h.sent
  BY DEF NextItem, Handlers
<1>2. q \in Handlers
  BY DEF NextItem, Handlers, AfterQuery
<1> HIDE DEF q
<1>3. CallOK(q)
  BY <1>1 DEF CallOK, BeforeQuery, AfterQuery
<1> QED BY <1>1, <1>2, <1>3 DEF q

LEMMA BreakIs ==
  ASSUME NEW h \in Handlers, h.op = "tick"
  PROVE /\ Break(h) \in Handlers /\ CallOK(Break(h))
        /\ Break(h).op = "tick" /\ Break(h).step = "next" /\ Break(h).reused = FALSE
        /\ Break(h).todo = {} /\ Break(h).opened = h.opened
<1> DEFINE q == Break(h)
<1>1. /\ q.op = "tick" /\ q.step = "next" /\ q.todo = {} /\ q.opened = h.opened
      /\ q.reused = FALSE /\ q.sent = h.sent
  BY DEF Break, NextItem, Handlers
<1>2. q \in Handlers
  BY DEF Break, NextItem, Handlers, AfterQuery
<1> HIDE DEF q
<1>3. CallOK(q)
  BY <1>1 DEF CallOK, BeforeQuery, AfterQuery
<1> QED BY <1>1, <1>2, <1>3 DEF q

\* A handler that only gets to another step.
LEMMA StepIs ==
  ASSUME NEW h \in Handlers, NEW step \in BeforeQuery \cup AfterQuery \cup {"statusTimers"}
  PROVE LET q == [h EXCEPT !.step = step]
        IN  /\ q \in Handlers /\ q.step = step /\ q.op = h.op /\ q.todo = h.todo /\ q.item = h.item
            /\ q.agent = h.agent /\ q.reused = h.reused /\ q.sent = h.sent /\ q.opened = h.opened
BY DEF Handlers
-------------------------------------------------------------------------------
(***************************************************************************)
(* How a step changes the handlers, and what it leaves as it was.           *)
(***************************************************************************)
LEMMA CallIs ==
  ASSUME Typing, NEW c \in Calls
  PROVE call \in [Calls -> Handlers] /\ call[c] \in Handlers /\ CallOK(call[c])
BY DEF Typing, BoardTypes

LEMMA RowIs ==
  ASSUME Typing, NEW a \in Asgs
  PROVE /\ asg \in [Asgs -> Rows] /\ asg[a] \in Rows
        /\ asg[a].st # "none" => /\ asg[a].item \in Items /\ asg[a].agent \in Agents
                                 /\ item[asg[a].item] # "none" /\ item[asg[a].item] \in Statuses
BY DEF Typing, BoardTypes, Placed

LEMMA GoesIs ==
  ASSUME Typing, NEW c \in Calls, NEW h, Goes(c, h)
  PROVE call'[c] = h /\ \A d \in Calls \ {c} : call'[d] = call[d]
BY CallIs DEF Goes

\* A handler under way as a tick is the only one past the lock.
LEMMA TickIs ==
  ASSUME TickInv, NEW c \in Calls, call[c].op = "tick", call[c].step # "manager"
  PROVE c \in Working /\ Working = {c} /\ inFlight /\ TickOK(call[c])
<1>1. c \in Working
  BY DEF Working
<1> QED BY <1>1 DEF TickInv, OneTick

LEMMA StepTells ==
  ASSUME Typing, NEW c \in Calls, call[c].step \in (BeforeQuery \cup AfterQuery) \ {"pick", "session"}
  PROVE call[c].op = "tick"
BY CallIs DEF CallOK

\* The variables a step may change, but for the handlers.
Typed ==
  /\ item' \in [Items -> Statuses] /\ asg' \in [Asgs -> Rows] /\ session' \in [Agents -> Sessions]
  /\ project' \in [active : BOOLEAN, enabled : BOOLEAN] /\ timer' \in BOOLEAN /\ inFlight' \in BOOLEAN
  /\ requests' \in 0 .. MaxRequests /\ why' \in [Items -> Reasons]
  /\ reopened' \subseteq Plans
  /\ \A i \in Items : item[i] # "none" => item'[i] # "none"
  /\ \A a \in Asgs : asg'[a].st # "none" =>
       asg'[a].item \in Items /\ asg'[a].agent \in Agents /\ item'[asg'[a].item] # "none"

LEMMA TypedNow ==
  ASSUME Typing
  PROVE /\ item \in [Items -> Statuses] /\ asg \in [Asgs -> Rows] /\ session \in [Agents -> Sessions]
        /\ project \in [active : BOOLEAN, enabled : BOOLEAN] /\ timer \in BOOLEAN /\ inFlight \in BOOLEAN
        /\ requests \in 0 .. MaxRequests /\ why \in [Items -> Reasons]
        /\ reopened \subseteq Plans
        /\ \A a \in Asgs : asg[a].st # "none" =>
             asg[a].item \in Items /\ asg[a].agent \in Agents /\ item[asg[a].item] # "none"
BY DEF Typing, BoardTypes, Placed

LEMMA TypingCalls ==
  ASSUME Typing, Typed, call' \in [Calls -> Handlers],
         \A c \in Calls : CallOK(call'[c]) /\ \A i \in call'[c].todo : item'[i] # "none"
  PROVE Typing'
<1>1. BoardTypes'
  BY DEF Typed, BoardTypes
<1> QED BY <1>1 DEF Typed, Typing, Placed

LEMMA TypingGoes ==
  ASSUME Typing, Typed, NEW c \in Calls, NEW h \in Handlers, Goes(c, h), CallOK(h),
         \A i \in h.todo : item'[i] # "none"
  PROVE Typing'
<1>1. call' \in [Calls -> Handlers]
  BY CallIs DEF Goes
<1>2. \A d \in Calls : CallOK(call'[d]) /\ \A i \in call'[d].todo : item'[i] # "none"
  <2> SUFFICES ASSUME NEW d \in Calls
               PROVE CallOK(call'[d]) /\ \A i \in call'[d].todo : item'[i] # "none"
    OBVIOUS
  <2>1. CASE d = c
    BY <2>1, GoesIs
  <2>2. CASE d # c
    <3>1. call'[d] = call[d] /\ CallOK(call[d]) /\ call[d].todo \subseteq Items
      BY <2>2, GoesIs, CallIs DEF Handlers
    <3>2. \A i \in call[d].todo : item[i] # "none"
      BY DEF Typing
    <3> QED BY <3>1, <3>2 DEF Typed
  <2> QED BY <2>1, <2>2
<1> QED BY <1>1, <1>2, TypingCalls

LEMMA TypingStays ==
  ASSUME Typing, Typed, UNCHANGED call
  PROVE Typing'
<1>0. call \in [Calls -> Handlers]
  BY DEF Typing, BoardTypes
<1>1. call' \in [Calls -> Handlers]
  BY <1>0
<1>2. \A d \in Calls : CallOK(call'[d]) /\ \A i \in call'[d].todo : item'[i] # "none"
  <2> TAKE d \in Calls
  <2>1. call[d] \in Handlers /\ CallOK(call[d]) /\ \A i \in call[d].todo : item[i] # "none"
    BY DEF Typing, BoardTypes
  <2> QED BY <2>1 DEF Typed, Handlers
<1> QED BY <1>1, <1>2, TypingCalls

\* A handler of which only the history changes.
Follows(d, A) ==
  /\ call'[d] \in Handlers
  /\ call'[d].op = call[d].op /\ call'[d].step = call[d].step /\ call'[d].todo = call[d].todo
  /\ call'[d].item = call[d].item /\ call'[d].agent = call[d].agent
  /\ call'[d].reused = call[d].reused /\ call'[d].sent = call[d].sent
  /\ call[d].opened \subseteq call'[d].opened
  /\ call[d].step \in AfterQuery => A \subseteq call'[d].opened

LEMMA OpensIs ==
  ASSUME Typing, NEW A \in SUBSET Asgs, Opens(A) \/ (A = {} /\ UNCHANGED call)
  PROVE call' \in [Calls -> Handlers] /\ \A d \in Calls : Follows(d, A)
<1>1. CASE A = {} /\ UNCHANGED call
  <2>1. call \in [Calls -> Handlers]
    BY DEF Typing, BoardTypes
  <2>2. call' \in [Calls -> Handlers]
    BY <1>1, <2>1
  <2> QED BY <1>1, <2>1, <2>2 DEF Follows
<1>2. CASE Opens(A)
  <2> DEFINE q(d) == IF call[d].step \in AfterQuery
                     THEN [call[d] EXCEPT !.opened = @ \cup A] ELSE call[d]
  <2>1. ASSUME NEW d \in Calls
        PROVE /\ q(d) \in Handlers
              /\ q(d).op = call[d].op /\ q(d).step = call[d].step /\ q(d).todo = call[d].todo
              /\ q(d).item = call[d].item /\ q(d).agent = call[d].agent
              /\ q(d).reused = call[d].reused /\ q(d).sent = call[d].sent
              /\ call[d].opened \subseteq q(d).opened
              /\ call[d].step \in AfterQuery => A \subseteq q(d).opened
    <3>1. call[d] \in Handlers
      BY CallIs
    <3>2. CASE call[d].step \in AfterQuery
      BY <3>1, <3>2 DEF Handlers
    <3>3. CASE call[d].step \notin AfterQuery
      BY <3>1, <3>3
    <3> QED BY <3>2, <3>3
  <2>2. call' = [d \in Calls |-> q(d)]
    BY <1>2 DEF Opens
  <2> HIDE DEF q
  <2> QED BY <2>1, <2>2 DEF Follows
<1> QED BY <1>1, <1>2

LEMMA TypingFollows ==
  ASSUME Typing, Typed, NEW A, call' \in [Calls -> Handlers], \A d \in Calls : Follows(d, A)
  PROVE Typing'
<1>2. \A d \in Calls : CallOK(call'[d]) /\ \A i \in call'[d].todo : item'[i] # "none"
  <2> TAKE d \in Calls
  <2>1. call[d] \in Handlers /\ CallOK(call[d]) /\ \A i \in call[d].todo : item[i] # "none"
    BY DEF Typing, BoardTypes
  <2>2. CallOK(call'[d])
    BY <2>1 DEF Follows, CallOK
  <2> QED BY <2>1, <2>2 DEF Typed, Follows, Handlers
<1> QED BY <1>2, TypingCalls
-------------------------------------------------------------------------------
(***************************************************************************)
(* What most steps have in common.                                         *)
(***************************************************************************)
LEMMA FiniteAgents ==
  /\ IsFiniteSet(Agents)
  /\ IsFiniteSet(ActiveAgents) /\ Cardinality(ActiveAgents) \in Nat
<1>1. IsFiniteSet(Agents) /\ ActiveAgents \subseteq Agents
  BY CoordinatorAssumption DEF ActiveAgents
<1> QED BY <1>1, FS_Subset, FS_CardinalityType

\* An item stays looked at if whoever was to look at it still is.
LEMMA WokenKept ==
  ASSUME Woken,
         \A i \in Dispatchable' : why'[i] = "" =>
            \/ timer'
            \/ \E d \in Calls : call'[d].op = "tick" /\ call'[d].step \in BeforeQuery
            \/ /\ i \in Dispatchable /\ why[i] = "" /\ (timer => timer')
               /\ \A d \in Calls : Covers(call[d], i) => Covers(call'[d], i)
  PROVE Woken'
<1> SUFFICES ASSUME NEW i \in Dispatchable', why'[i] = ""
             PROVE Covered(i)'
  BY DEF Woken
<1>1. CASE timer'
  BY <1>1 DEF Covered
<1>2. CASE \E d \in Calls : call'[d].op = "tick" /\ call'[d].step \in BeforeQuery
  BY <1>2 DEF Covered, Covers
<1>3. CASE /\ i \in Dispatchable /\ why[i] = "" /\ (timer => timer')
           /\ \A d \in Calls : Covers(call[d], i) => Covers(call'[d], i)
  BY <1>3 DEF Woken, Covered
<1> QED BY <1>1, <1>2, <1>3

LEMMA LosesIs ==
  ASSUME Typing, NEW reason \in Reasons \ {""}, Loses(reason), UNCHANGED item
  PROVE Woken' /\ why' \in [Items -> Reasons]
<1>1. why \in [Items -> Reasons] /\ Dispatchable' = Dispatchable /\ Dispatchable \subseteq Items
  BY DEF Typing, BoardTypes, Dispatchable
<1>2. why' \in [Items -> Reasons]
  BY <1>1 DEF Loses
<1>3. ASSUME NEW i \in Dispatchable, why'[i] = ""
      PROVE Covered(i)'
  BY <1>1, <1>3 DEF Loses
<1> QED BY <1>1, <1>2, <1>3 DEF Woken

LEMMA LookedIs ==
  ASSUME Typing, NEW i \in Items, Looked(i)
  PROVE /\ why' \in [Items -> Reasons] /\ why'[i] = "looked"
        /\ \A j \in Items \ {i} : why'[j] = why[j]
<1>1. why \in [Items -> Reasons] /\ "looked" \in Reasons
  BY DEF Typing, BoardTypes, Reasons
<1> QED BY <1>1 DEF Looked

\* The running tick does not touch what is read of the board.
LEMMA SetsStay ==
  ASSUME UNCHANGED <<item, asg>>
  PROVE /\ Dispatchable' = Dispatchable
        /\ \A i : OpenOn(i)' = OpenOn(i)
        /\ \A w : OpenOf(w)' = OpenOf(w)
        /\ UNCHANGED reopened => Live' = Live
        /\ UNCHANGED session => ActiveAgents' = ActiveAgents
<1>1. \A i : OpenOn(i)' = OpenOn(i)
  BY DEF OpenOn
<1>2. \A w : OpenOf(w)' = OpenOf(w)
  BY DEF OpenOf
<1> QED BY <1>1, <1>2 DEF Dispatchable, Live, ActiveAgents

LEMMA TickStays ==
  ASSUME NEW h, TickOK(h), UNCHANGED <<item, asg, session, reopened>>
  PROVE TickOK(h)'
BY SetsStay DEF TickOK, Untaken

\* A tick that goes on.
LEMMA TickMoves ==
  ASSUME TickInv, NEW c \in Calls, call[c].op = "tick", call[c].step # "manager",
         NEW h, h.op = "tick", h.step # "manager", Goes(c, h), UNCHANGED inFlight,
         Typing', OnePlan', Woken', TickOK(h)'
  PROVE TickInv'
<1>1. /\ Working = {c} /\ inFlight /\ Typing /\ call'[c] = h
      /\ \A d \in Calls \ {c} : call'[d] = call[d]
  BY TickIs, GoesIs DEF TickInv
<1>2. Working' = {c}
  BY <1>1 DEF Working
<1>3. OneTick'
  BY <1>1, <1>2 DEF OneTick
<1>4. \A d \in Working' : TickOK(call[d])'
  <2>1. TickOK(call[c])'
    BY <1>1 DEF TickOK, Untaken
  <2> QED BY <1>2, <2>1
<1> QED BY <1>3, <1>4 DEF TickInv

\* Nothing of the board changes.
LEMMA BoardStays ==
  ASSUME TickInv, UNCHANGED <<item, asg, session, reopened>>
  PROVE OnePlan'
BY SetsStay DEF TickInv, OnePlan

LEMMA QuietTyped ==
  ASSUME Typing, UNCHANGED <<item, asg, session, reopened>>,
         project' \in [active : BOOLEAN, enabled : BOOLEAN],
         timer' \in BOOLEAN, inFlight' \in BOOLEAN, why' \in [Items -> Reasons],
         requests' \in 0 .. MaxRequests
  PROVE Typed
BY TypedNow DEF Typed

LEMMA QuietTick ==
  ASSUME TickInv, NEW c \in Calls, call[c].op = "tick", call[c].step # "manager",
         NEW h \in Handlers, CallOK(h), h.op = "tick", h.step # "manager", Goes(c, h),
         \A i \in h.todo : item[i] # "none", TickOK(h),
         UNCHANGED <<item, asg, session, timer, inFlight, rest>>,
         project' \in [active : BOOLEAN, enabled : BOOLEAN], why' \in [Items -> Reasons], Woken'
  PROVE TickInv'
<1>1. Typing /\ UNCHANGED <<requests, reopened>>
  BY DEF TickInv, rest
<1>2. Typed
  BY <1>1, QuietTyped, TypedNow
<1>3. Typing'
  BY <1>1, <1>2, TypingGoes
<1>4. \A d \in Calls : call'[d].op = "launch" => \E e \in Calls : call[e].op = "launch"
  BY <1>1, GoesIs
<1>5. OnePlan' /\ TickOK(h)'
  BY <1>1, <1>4, BoardStays, TickStays
<1> QED BY <1>3, <1>5, TickMoves

\* No tick is past the lock any more.
LEMMA NoTick ==
  ASSUME TickInv, UNCHANGED <<item, asg, session, reopened>>,
         \A d \in Calls : call'[d] = Idle \/ (call'[d] = call[d] /\ d \notin Working),
         inFlight' = FALSE, Typing', Woken'
  PROVE TickInv'
<1>1. Idle.op = "none" /\ Idle.op # "tick" /\ Idle.op # "launch"
  BY IdleIs
<1>2. Working' = {}
  BY <1>1 DEF Working
<1>3. OneTick' /\ \A d \in Working' : TickOK(call[d])'
  BY <1>2 DEF OneTick
<1>4. OnePlan'
  BY <1>1, BoardStays
<1> QED BY <1>3, <1>4 DEF TickInv

LEMMA TickStops ==
  ASSUME TickInv, NEW c \in Calls, call[c].op = "tick", call[c].step # "manager", Goes(c, Idle),
         UNCHANGED <<item, asg, session, rest>>, inFlight' = FALSE,
         project' \in [active : BOOLEAN, enabled : BOOLEAN], timer' \in BOOLEAN,
         why' \in [Items -> Reasons], Woken'
  PROVE TickInv'
<1>1. Typing /\ UNCHANGED <<requests, reopened>> /\ Working = {c}
  BY TickIs DEF TickInv, rest
<1>2. Typed
  BY <1>1, QuietTyped, TypedNow
<1>3. Typing'
  BY <1>1, <1>2, TypingGoes, IdleIs
<1>4. \A d \in Calls : call'[d] = Idle \/ (call'[d] = call[d] /\ d \notin Working)
  BY <1>1, GoesIs
<1> QED BY <1>1, <1>3, <1>4, NoTick

\* A handler that is no tick past the lock moves, and stays none.
Aside(h) == h.op # "tick" \/ h.step = "manager"
LEMMA AsideMoves ==
  ASSUME TickInv, NEW c \in Calls, Aside(call[c]), NEW h \in Handlers, CallOK(h), Aside(h), Goes(c, h),
         h.todo = {}, UNCHANGED <<item, asg, session, inFlight, reopened>>,
         project' \in [active : BOOLEAN, enabled : BOOLEAN], timer' \in BOOLEAN,
         requests' \in 0 .. MaxRequests, why' \in [Items -> Reasons], Woken'
  PROVE TickInv'
<1>1. Typing /\ call'[c] = h /\ \A d \in Calls \ {c} : call'[d] = call[d]
  BY GoesIs DEF TickInv
<1>2. Typed
  BY <1>1, QuietTyped, TypedNow
<1>3. Typing'
  BY <1>1, <1>2, TypingGoes
<1>4. Working' = Working /\ c \notin Working
  BY <1>1 DEF Working, Aside
<1>5. OneTick'
  BY <1>4 DEF TickInv, OneTick
<1>6. \A d \in Working' : TickOK(call[d])'
  <2> SUFFICES ASSUME NEW d \in Working
               PROVE TickOK(call[d])'
    BY <1>4
  <2>1. call'[d] = call[d] /\ TickOK(call[d])
    BY <1>1, <1>4 DEF TickInv, Working
  <2>2. \A g : g = call[d] => TickOK(g)'
    BY <2>1, TickStays
  <2> QED BY <2>1, <2>2 DEF TickOK, Untaken
<1>7. OnePlan'
  BY <1>1, BoardStays
<1> QED BY <1>3, <1>5, <1>6, <1>7 DEF TickInv
-------------------------------------------------------------------------------
(***************************************************************************)
(* The tick up to the loop.                                                *)
(***************************************************************************)
LEMMA Here ==
  ASSUME TickInv, NEW c \in Calls, call[c].op = "tick", call[c].step # "manager"
  PROVE /\ Typing /\ call[c] \in Handlers /\ CallOK(call[c]) /\ TickOK(call[c])
        /\ call[c].step \in BeforeQuery \cup AfterQuery
        /\ \A i \in call[c].todo : i \in Items /\ item[i] # "none"
<1>1. Typing /\ TickOK(call[c])
  BY TickIs DEF TickInv
<1>2. call[c] \in Handlers /\ CallOK(call[c])
  BY <1>1, CallIs
<1>3. \A i \in call[c].todo : i \in Items /\ item[i] # "none"
  BY <1>1, <1>2 DEF Typing, Handlers
<1> QED BY <1>1, <1>2, <1>3 DEF CallOK

LEMMA WokenGoes ==
  ASSUME TickInv, NEW c \in Calls, NEW h, Goes(c, h), UNCHANGED item, timer => timer',
         \A i \in Items : why'[i] = "" => why[i] = "" /\ (Covers(call[c], i) => Covers(h, i))
  PROVE Woken'
<1>1. /\ Typing /\ Woken /\ Dispatchable' = Dispatchable /\ Dispatchable \subseteq Items
      /\ call'[c] = h /\ \A d \in Calls \ {c} : call'[d] = call[d]
  BY GoesIs DEF TickInv, Dispatchable
<1> QED BY <1>1, WokenKept

\* A tick before its query covers everything.
LEMMA WokenByTick ==
  ASSUME TickInv, NEW c \in Calls, NEW h, Goes(c, h), h.op = "tick", h.step \in BeforeQuery
  PROVE Woken'
<1>1. Typing /\ Woken /\ call'[c] = h
  BY GoesIs DEF TickInv
<1> QED BY <1>1, WokenKept

LEMMA StepsAre ==
  /\ \A s \in BeforeQuery : s \notin AfterQuery /\ s \notin {"place", "count", "capacity", "pick", "session"}
  /\ {"manager", "lastTick", "reconcile", "planner", "plan", "query"} \subseteq BeforeQuery
  /\ {"next", "idle", "count", "capacity", "pick", "session", "place", "wake"} \subseteq AfterQuery
BY DEF BeforeQuery, AfterQuery

\* Until its query a tick claims nothing, but that it plans alone.
LEMMA EarlyOK ==
  ASSUME NEW h, h.step \in BeforeQuery, h.step = "plan" => Live = {}
  PROVE TickOK(h)
BY StepsAre DEF TickOK

LEMMA EarlyStep ==
  ASSUME TickInv, NEW c \in Calls, call[c].op = "tick", call[c].step \in BeforeQuery,
         NEW h \in Handlers, h.op = "tick", h.step \in BeforeQuery,
         h.todo = call[c].todo, h.sent = call[c].sent, h.reused = call[c].reused
  PROVE CallOK(h) /\ \A i \in h.todo : item[i] # "none"
<1>1. Typing /\ CallOK(call[c]) /\ \A i \in call[c].todo : item[i] # "none"
  BY CallIs DEF TickInv, Typing
<1>2. CallOK(h)
  BY <1>1, StepsAre DEF CallOK
<1> QED BY <1>1, <1>2

LEMMA ManagerStep == ASSUME TickInv, NEW c \in Calls, Manager(c) PROVE TickInv'
<1>1. /\ Typing /\ call[c] \in Handlers /\ CallOK(call[c]) /\ Is(c, "manager") /\ call[c].op = "tick"
      /\ Aside(call[c]) /\ c \notin Working
      /\ UNCHANGED <<item, asg, session, project, timer, requests, reopened>>
  BY CallIs DEF TickInv, Manager, Is, Aside, Working, rest
<1>2. CASE ~ inFlight
  <2> PICK h : h = [call[c] EXCEPT !.step = "lastTick", !.on = project.enabled]
    OBVIOUS
  <2>1. /\ inFlight' = TRUE /\ Goes(c, h) /\ UNCHANGED why
    BY <1>1, <1>2 DEF Manager
  <2>2. /\ h \in Handlers /\ h.op = "tick" /\ h.step = "lastTick" /\ h.todo = call[c].todo
        /\ h.sent = call[c].sent /\ h.reused = call[c].reused
    BY <1>1, TypedNow, StepsAre DEF Handlers
  <2>3. CallOK(h) /\ \A i \in h.todo : item[i] # "none"
    BY <1>1, <2>2, EarlyStep, StepsAre DEF Is
  <2>4. Woken'
    BY <2>1, <2>2, WokenByTick, StepsAre
  <2>5. Typing'
    <3>1. Typed
      BY <1>1, <2>1, QuietTyped, TypedNow
    <3> QED BY <1>1, <2>1, <2>2, <2>3, <3>1, TypingGoes
  <2>6. Working = {} /\ call'[c] = h /\ \A d \in Calls \ {c} : call'[d] = call[d]
    BY <1>1, <1>2, <2>1, GoesIs DEF TickInv, OneTick
  <2>7. Working' = {c}
    <3>1. \A d \in Calls : ~ (call[d].op = "tick" /\ call[d].step # "manager")
      BY <2>6 DEF Working
    <3>2. call'[c].op = "tick" /\ call'[c].step # "manager"
      BY <2>2, <2>6
    <3>3. \A d \in Calls \ {c} : ~ (call'[d].op = "tick" /\ call'[d].step # "manager")
      BY <2>6, <3>1
    <3> QED BY <3>2, <3>3 DEF Working
  <2>8. OneTick'
    BY <2>1, <2>7 DEF OneTick
  <2>9. TickOK(call[c])'
    <3>1. TickOK(h)
      BY <2>2, EarlyOK, StepsAre
    <3>2. TickOK(h)'
      BY <1>1, <3>1, TickStays
    <3> QED BY <2>6, <3>2 DEF TickOK, Untaken
  <2>10. OnePlan'
    BY <1>1, <2>2, <2>6, BoardStays
  <2> QED BY <2>4, <2>5, <2>7, <2>8, <2>9, <2>10 DEF TickInv
<1>3. CASE inFlight
  <2>1. Working # {} /\ Goes(c, Idle) /\ UNCHANGED inFlight /\ Loses("skipped")
    BY <1>1, <1>3 DEF TickInv, OneTick, Manager
  <2>2. Woken' /\ why' \in [Items -> Reasons]
    BY <1>1, <2>1, LosesIs DEF Reasons
  <2> QED BY <1>1, <2>1, <2>2, AsideMoves, IdleIs, TypedNow DEF Aside
<1> QED BY <1>2, <1>3

LEMMA LastTickStep == ASSUME TickInv, NEW c \in Calls, LastTick(c) PROVE TickInv'
<1>1. call[c].step = "lastTick" /\ call[c].op = "tick"
  BY StepTells, StepsAre DEF TickInv, LastTick, Is
<1>2. /\ Typing /\ call[c] \in Handlers /\ CallOK(call[c])
      /\ UNCHANGED <<item, asg, session, timer, rest>>
      /\ project' \in {project, [project EXCEPT !.enabled = call[c].on]}
  BY <1>1, Here DEF LastTick
<1>3. project' \in [active : BOOLEAN, enabled : BOOLEAN]
  BY <1>2, TypedNow DEF Handlers
<1>4. CASE call[c].on
  <2> PICK h : h = [call[c] EXCEPT !.step = "reconcile"]
    OBVIOUS
  <2>1. Goes(c, h) /\ UNCHANGED <<inFlight, why>>
    BY <1>4 DEF LastTick
  <2>2. /\ h \in Handlers /\ h.op = "tick" /\ h.step = "reconcile" /\ h.todo = call[c].todo
        /\ h.sent = call[c].sent /\ h.reused = call[c].reused
    BY <1>1, <1>2, StepIs, StepsAre
  <2>3. CallOK(h) /\ \A i \in h.todo : item[i] # "none"
    BY <1>1, <2>2, EarlyStep, StepsAre
  <2>4. Woken' /\ TickOK(h)
    BY <2>1, <2>2, WokenByTick, EarlyOK, StepsAre
  <2> QED BY <1>1, <1>2, <1>3, <2>1, <2>2, <2>3, <2>4, QuietTick, TypedNow
<1>5. CASE ~ call[c].on
  <2>1. Goes(c, Idle) /\ inFlight' = FALSE /\ Loses("off")
    BY <1>5 DEF LastTick
  <2>2. Woken' /\ why' \in [Items -> Reasons]
    BY <1>2, <2>1, LosesIs DEF Reasons
  <2> QED BY <1>1, <1>2, <1>3, <2>1, <2>2, TickStops, TypedNow
<1> QED BY <1>4, <1>5

LEMMA PlannerStep == ASSUME TickInv, NEW c \in Calls, Planner(c) PROVE TickInv'
<1>1. call[c].step = "planner" /\ call[c].op = "tick"
  BY StepTells, StepsAre DEF TickInv, Planner, Is
<1>2. /\ Typing /\ call[c] \in Handlers /\ CallOK(call[c])
      /\ UNCHANGED <<item, asg, session, project, timer, inFlight, why, rest>>
  BY <1>1, Here DEF Planner
<1> PICK step \in {"query", "plan"} :
      /\ Goes(c, [call[c] EXCEPT !.step = step])
      /\ step = "plan" => \A p \in Plans : item[p] \in {"none", "CANCELLED"}
  BY DEF Planner
<1> PICK h : h = [call[c] EXCEPT !.step = step]
  OBVIOUS
<1>3. /\ h \in Handlers /\ h.op = "tick" /\ h.step = step /\ h.todo = call[c].todo
      /\ h.sent = call[c].sent /\ h.reused = call[c].reused
  BY <1>1, <1>2, StepIs, StepsAre
<1>4. CallOK(h) /\ \A i \in h.todo : item[i] # "none"
  BY <1>1, <1>3, EarlyStep, StepsAre
<1>5. TickOK(h)
  <2>1. step = "plan" => Live = {}
    BY DEF Live
  <2> QED BY <1>3, <2>1, EarlyOK, StepsAre
<1>6. Woken'
  BY <1>3, WokenByTick, StepsAre
<1> QED BY <1>1, <1>2, <1>3, <1>4, <1>5, <1>6, QuietTick, TypedNow

LEMMA QueryStep == ASSUME TickInv, NEW c \in Calls, Query(c) PROVE TickInv'
<1>1. call[c].step = "query" /\ call[c].op = "tick"
  BY StepTells, StepsAre DEF TickInv, Query, Is
<1> PICK S \in Scans :
      /\ Goes(c, [call[c] EXCEPT !.step = "next", !.todo = {i \in S : OpenOn(i) = {}}])
      /\ Reads(S)
  BY DEF Query
<1>2. /\ Typing /\ call[c] \in Handlers /\ CallOK(call[c]) /\ S \subseteq Dispatchable
      /\ UNCHANGED <<item, asg, session, project, timer, inFlight, rest>>
  BY <1>1, Here DEF Query, Scans
<1> PICK T : T = {i \in S : OpenOn(i) = {}}
  OBVIOUS
<1> PICK h : h = [call[c] EXCEPT !.step = "next", !.todo = T]
  OBVIOUS
<1>3. Goes(c, h) /\ T \subseteq Items /\ \A i \in T : item[i] # "none" /\ OpenOn(i) = {}
  BY <1>2 DEF Dispatchable, Candidate
<1>4. /\ h \in Handlers /\ h.op = "tick" /\ h.step = "next" /\ h.todo = T
      /\ h.sent = call[c].sent /\ h.reused = call[c].reused
  BY <1>1, <1>2, <1>3, StepsAre DEF Handlers
<1>5. CallOK(h)
  BY <1>1, <1>2, <1>4, CoordinatorAssumption, StepsAre DEF CallOK, BeforeQuery, AfterQuery
<1>6. TickOK(h)
  BY <1>3, <1>4 DEF TickOK, Untaken
<1>7. Dispatchable' = Dispatchable /\ call'[c] = h /\ why \in [Items -> Reasons]
  BY <1>2, <1>3, SetsStay, GoesIs, TypedNow
<1>8. why' \in [Items -> Reasons]
  BY <1>7 DEF Reads, Reasons
<1>9. Woken'
  <2> SUFFICES ASSUME NEW i \in Dispatchable, why'[i] = ""
               PROVE Covered(i)'
    BY <1>7 DEF Woken
  <2>1. CASE i \in T
    BY <1>4, <1>7, <2>1 DEF Covered, Covers
  <2>2. CASE i \notin S
    BY <1>7, <2>2 DEF Reads, Dispatchable
  <2>3. CASE i \in S /\ OpenOn(i) # {}
    BY <1>7, <2>3 DEF Reads, Dispatchable
  <2> QED BY <2>1, <2>2, <2>3
<1> QED BY <1>1, <1>2, <1>3, <1>4, <1>5, <1>6, <1>8, <1>9, QuietTick, TypedNow
-------------------------------------------------------------------------------
(***************************************************************************)
(* The loop over the candidates.                                           *)
(***************************************************************************)
LEMMA LoopOK ==
  ASSUME TickInv, NEW c \in Calls, call[c].op = "tick", call[c].step \in AfterQuery,
         NEW h, h.todo \subseteq call[c].todo, h.opened = call[c].opened, h.step \in AfterQuery,
         \A i \in h.todo : call[c].step = "wake" /\ i = call[c].item => h.step = "wake" /\ i = h.item,
         h.step = "place" /\ h.reused => OpenOf(h.agent) \subseteq h.opened
  PROVE TickOK(h) /\ \A i \in h.todo : item[i] # "none"
<1>1. /\ TickOK(call[c]) /\ Untaken(call[c]) /\ \A i \in call[c].todo : item[i] # "none"
  BY Here, StepsAre DEF TickOK
<1>2. Untaken(h)
  BY <1>1 DEF Untaken
<1> QED BY <1>1, <1>2, StepsAre DEF TickOK, BeforeQuery, AfterQuery

\* The loop goes on with the next item, and the one in hand was looked at.
LEMMA NextItemStep ==
  ASSUME TickInv, NEW c \in Calls, call[c].op = "tick", call[c].step \in AfterQuery,
         NEW g \in Handlers, g.op = "tick", g.todo = call[c].todo, g.opened = call[c].opened,
         g.sent = call[c].sent, g.item \in g.todo,
         Goes(c, NextItem(g)), Looked(g.item), call[c].step = "wake" => g.item = call[c].item,
         UNCHANGED <<item, asg, session, project, timer, inFlight, rest>>
  PROVE TickInv'
<1>1. /\ Typing /\ call[c] \in Handlers /\ CallOK(call[c]) /\ TickOK(call[c])
      /\ call[c].step # "manager" /\ g.todo \subseteq Items
  BY Here, StepsAre DEF Handlers
<1> PICK h : h = NextItem(g)
  OBVIOUS
<1>2. g.todo \ {g.item} # {} => g.sent < MaxPerTick
  BY <1>1 DEF CallOK
<1>3. /\ h \in Handlers /\ CallOK(h) /\ h.op = "tick" /\ h.step = "next" /\ h.reused = FALSE
      /\ h.todo = g.todo \ {g.item} /\ h.opened = g.opened
  BY <1>2, NextItemIs
<1>4. TickOK(h) /\ \A i \in h.todo : item[i] # "none"
  BY <1>3, LoopOK, StepsAre
<1>5. /\ why' \in [Items -> Reasons] /\ why'[g.item] = "looked"
      /\ \A j \in Items \ {g.item} : why'[j] = why[j]
  BY <1>1, LookedIs
<1>6. Woken'
  BY <1>3, <1>5, WokenGoes, StepsAre DEF Covers
<1> QED BY <1>1, <1>3, <1>4, <1>5, <1>6, QuietTick, TypedNow

\* A step of the loop that keeps the item in hand.
LEMMA KeepsItem ==
  ASSUME TickInv, NEW c \in Calls, call[c].op = "tick", call[c].step \in AfterQuery \ {"wake"},
         NEW h \in Handlers, CallOK(h), h.op = "tick", h.step \in AfterQuery \ {"wake"},
         h.todo = call[c].todo, h.opened = call[c].opened,
         h.step = "place" /\ h.reused => OpenOf(h.agent) \subseteq h.opened,
         Goes(c, h),
         UNCHANGED <<item, asg, session, project, timer, inFlight, why, rest>>
  PROVE TickInv'
<1>1. Typing /\ call[c].step # "manager" /\ h.step # "manager"
  BY StepsAre DEF TickInv
<1>2. TickOK(h) /\ \A i \in h.todo : item[i] # "none"
  BY LoopOK
<1>3. Woken'
  BY WokenGoes, StepsAre DEF Covers
<1> QED BY <1>1, <1>2, <1>3, QuietTick, TypedNow

LEMMA ConsiderStep == ASSUME TickInv, NEW c \in Calls, NEW i \in Items, Consider(c, i) PROVE TickInv'
<1>1. call[c].step = "next" /\ call[c].op = "tick" /\ i \in call[c].todo
  BY StepTells, StepsAre DEF TickInv, Consider, Is
<1>2. /\ Typing /\ call[c] \in Handlers /\ CallOK(call[c]) /\ call[c].reused = FALSE
      /\ UNCHANGED <<item, asg, session, project, timer, inFlight, rest>>
  BY <1>1, Here DEF Consider, CallOK, Handlers
<1> PICK g : g = [call[c] EXCEPT !.item = i]
  OBVIOUS
<1>3. /\ g \in Handlers /\ g.op = "tick" /\ g.todo = call[c].todo /\ g.opened = call[c].opened
      /\ g.sent = call[c].sent /\ g.item = i /\ g.step = "next" /\ g.reused = FALSE
  BY <1>1, <1>2 DEF Handlers
<1>4. CASE Goes(c, NextItem(g)) /\ Looked(i)
  BY <1>1, <1>2, <1>3, <1>4, NextItemStep, StepsAre
<1>5. CASE Goes(c, [g EXCEPT !.step = "idle"]) /\ UNCHANGED why
  <2> PICK h : h = [g EXCEPT !.step = "idle"]
    OBVIOUS
  <2>1. Goes(c, h) /\ UNCHANGED why
    BY <1>5
  <2>2. /\ h \in Handlers /\ h.op = "tick" /\ h.step = "idle" /\ h.todo = call[c].todo
        /\ h.item = i /\ h.reused = FALSE /\ h.opened = call[c].opened /\ h.sent = call[c].sent
    BY <1>3, StepsAre DEF Handlers
  <2>3. CallOK(h)
    BY <1>1, <1>2, <2>2 DEF CallOK, BeforeQuery, AfterQuery
  <2> QED BY <1>1, <1>2, <2>1, <2>2, <2>3, KeepsItem, StepsAre
<1> QED BY <1>4, <1>5 DEF Consider

LEMMA FindIdleStep == ASSUME TickInv, NEW c \in Calls, FindIdle(c) PROVE TickInv'
<1>1. call[c].step = "idle" /\ call[c].op = "tick"
  BY StepTells, StepsAre DEF TickInv, FindIdle, Is
<1>2. /\ Typing /\ call[c] \in Handlers /\ CallOK(call[c])
      /\ UNCHANGED <<item, asg, session, project, timer, inFlight, why, rest>>
  BY <1>1, Here DEF FindIdle
<1>3. CASE Goes(c, [call[c] EXCEPT !.step = "count"])
  <2> PICK h : h = [call[c] EXCEPT !.step = "count"]
    OBVIOUS
  <2>1. /\ h \in Handlers /\ h.op = "tick" /\ h.step = "count" /\ h.todo = call[c].todo
        /\ h.item = call[c].item /\ h.reused = call[c].reused /\ h.opened = call[c].opened
        /\ h.sent = call[c].sent
    BY <1>1, <1>2, StepIs, StepsAre
  <2>2. CallOK(h)
    BY <1>1, <1>2, <2>1 DEF CallOK, BeforeQuery, AfterQuery
  <2> QED BY <1>1, <1>2, <1>3, <2>1, <2>2, KeepsItem, StepsAre
<1>4. CASE \E w \in IdleAgents : Goes(c, [call[c] EXCEPT !.step = "place", !.agent = w, !.reused = TRUE])
  <2> PICK w \in IdleAgents : Goes(c, [call[c] EXCEPT !.step = "place", !.agent = w, !.reused = TRUE])
    BY <1>4
  <2> PICK h : h = [call[c] EXCEPT !.step = "place", !.agent = w, !.reused = TRUE]
    OBVIOUS
  <2>1. w \in Agents /\ OpenOf(w) = {}
    BY DEF IdleAgents
  <2>2. /\ h \in Handlers /\ h.op = "tick" /\ h.step = "place" /\ h.todo = call[c].todo
        /\ h.item = call[c].item /\ h.opened = call[c].opened /\ h.sent = call[c].sent /\ h.agent = w
    BY <1>1, <1>2, <2>1, StepsAre DEF Handlers
  <2>3. CallOK(h)
    BY <1>1, <1>2, <2>1, <2>2 DEF CallOK, BeforeQuery, AfterQuery
  <2>4. OpenOf(h.agent) \subseteq h.opened
    BY <2>1, <2>2
  <2> QED BY <1>1, <1>2, <2>2, <2>3, <2>4, KeepsItem, StepsAre
<1> QED BY <1>3, <1>4 DEF FindIdle

LEMMA CountRoleStep == ASSUME TickInv, NEW c \in Calls, CountRole(c) PROVE TickInv'
<1>1. call[c].step = "count" /\ call[c].op = "tick"
  BY StepTells, StepsAre DEF TickInv, CountRole, Is
<1>2. /\ Typing /\ call[c] \in Handlers /\ CallOK(call[c]) /\ TickOK(call[c]) /\ call[c].item \in call[c].todo
      /\ UNCHANGED <<item, asg, session, project, timer, inFlight, rest>>
  BY <1>1, Here DEF CountRole, CallOK, AfterQuery
<1>3. CASE Cardinality(ActiveAgents) >= RoleLimit
  <2>1. Goes(c, NextItem(call[c])) /\ Looked(call[c].item)
    BY <1>3 DEF CountRole
  <2> QED BY <1>1, <1>2, <2>1, NextItemStep, StepsAre
<1>4. CASE ~ Cardinality(ActiveAgents) >= RoleLimit
  <2> PICK h : h = [call[c] EXCEPT !.step = "capacity"]
    OBVIOUS
  <2>1. Goes(c, h) /\ UNCHANGED why
    BY <1>4 DEF CountRole
  <2>2. /\ h \in Handlers /\ h.op = "tick" /\ h.step = "capacity" /\ h.todo = call[c].todo
        /\ h.item = call[c].item /\ h.reused = call[c].reused /\ h.opened = call[c].opened
        /\ h.sent = call[c].sent
    BY <1>1, <1>2, StepIs, StepsAre
  <2>3. CallOK(h)
    BY <1>1, <1>2, <2>2 DEF CallOK, BeforeQuery, AfterQuery
  <2> QED BY <1>1, <1>2, <2>1, <2>2, <2>3, KeepsItem, StepsAre
<1> QED BY <1>3, <1>4

\* The loop is left, and the history says why.
LEMMA BreakStep ==
  ASSUME TickInv, NEW c \in Calls, call[c].op = "tick", call[c].step = "capacity",
         NEW reason \in Reasons \ {""}, Goes(c, Break(call[c])), Loses(reason),
         UNCHANGED <<item, asg, session, project, timer, inFlight, rest>>
  PROVE TickInv'
<1>1. Typing /\ call[c] \in Handlers /\ CallOK(call[c]) /\ call[c].step # "manager"
  BY Here
<1> PICK h : h = Break(call[c])
  OBVIOUS
<1>2. /\ h \in Handlers /\ CallOK(h) /\ h.op = "tick" /\ h.step = "next" /\ h.reused = FALSE
      /\ h.todo = {} /\ h.opened = call[c].opened
  BY <1>1, BreakIs
<1>3. TickOK(h)
  BY <1>2, LoopOK, StepsAre
<1>4. Woken' /\ why' \in [Items -> Reasons]
  BY <1>1, LosesIs
<1> QED BY <1>1, <1>2, <1>3, <1>4, QuietTick, TypedNow

LEMMA ModelMissingStep == ASSUME TickInv, NEW c \in Calls, ModelMissing(c) PROVE TickInv'
<1>1. call[c].step = "capacity" /\ call[c].op = "tick"
  BY StepTells, StepsAre DEF TickInv, ModelMissing, Is
<1> QED BY <1>1, BreakStep DEF ModelMissing, Reasons

LEMMA CapacityStep == ASSUME TickInv, NEW c \in Calls, Capacity(c) PROVE TickInv'
<1>1. call[c].step = "capacity" /\ call[c].op = "tick"
  BY StepTells, StepsAre DEF TickInv, Capacity, Is
<1>2. /\ Typing /\ call[c] \in Handlers /\ CallOK(call[c]) /\ TickOK(call[c])
      /\ UNCHANGED <<item, asg, session, project, timer, inFlight, rest>>
  BY <1>1, Here DEF Capacity
<1>3. CASE Cardinality(Online) >= MaxActive
  BY <1>1, <1>2, <1>3, BreakStep DEF Capacity, Reasons
<1>4. CASE ~ Cardinality(Online) >= MaxActive
  <2> PICK h : h = [call[c] EXCEPT !.step = "pick"]
    OBVIOUS
  <2>1. Goes(c, h) /\ UNCHANGED why
    BY <1>4 DEF Capacity
  <2>2. /\ h \in Handlers /\ h.op = "tick" /\ h.step = "pick" /\ h.todo = call[c].todo
        /\ h.item = call[c].item /\ h.reused = call[c].reused /\ h.opened = call[c].opened
        /\ h.sent = call[c].sent
    BY <1>1, <1>2, StepIs, StepsAre
  <2>3. CallOK(h)
    BY <1>1, <1>2, <2>2 DEF CallOK, BeforeQuery, AfterQuery
  <2> QED BY <1>1, <1>2, <2>1, <2>2, <2>3, KeepsItem, StepsAre
<1> QED BY <1>3, <1>4
-------------------------------------------------------------------------------
(***************************************************************************)
(* The dispatch of an item, or the launch of an agent.                      *)
(***************************************************************************)
LEMMA LaunchPickStep == ASSUME TickInv, NEW c \in Calls, NEW w \in Agents, LaunchPick(c, w) PROVE TickInv'
<1>1. /\ Typing /\ call[c] \in Handlers /\ CallOK(call[c]) /\ call[c].step = "pick"
      /\ call[c].op \in {"tick", "launch"} /\ Goes(c, [call[c] EXCEPT !.step = "session", !.agent = w])
      /\ UNCHANGED <<item, asg, session, project, timer, inFlight, why, rest>>
  BY CallIs DEF TickInv, LaunchPick, Is, CallOK
<1> PICK h : h = [call[c] EXCEPT !.step = "session", !.agent = w]
  OBVIOUS
<1>2. /\ h \in Handlers /\ h.op = call[c].op /\ h.step = "session" /\ h.todo = call[c].todo /\ h.agent = w
      /\ h.item = call[c].item /\ h.reused = call[c].reused /\ h.opened = call[c].opened
      /\ h.sent = call[c].sent
  BY <1>1, StepsAre DEF Handlers
<1>3. CallOK(h)
  BY <1>1, <1>2 DEF CallOK, BeforeQuery, AfterQuery
<1>4. CASE call[c].op = "tick"
  BY <1>1, <1>2, <1>3, <1>4, KeepsItem, StepsAre
<1>5. CASE call[c].op = "launch"
  <2>1. Aside(call[c]) /\ Aside(h) /\ h.todo = {}
    BY <1>1, <1>2, <1>5 DEF Aside, CallOK
  <2>2. Woken'
    BY <1>1, <1>2, <1>5, WokenGoes DEF Covers
  <2>3. UNCHANGED <<requests, reopened>>
    BY <1>1 DEF rest
  <2> QED BY <1>1, <1>2, <1>3, <1>5, <2>1, <2>2, <2>3, AsideMoves, TypedNow
<1> QED BY <1>1, <1>4, <1>5

\* A step of the tick that changes a session and makes no further claim.
LEMMA SessionTick ==
  ASSUME TickInv, NEW c \in Calls, call[c].op = "tick", call[c].step \in AfterQuery,
         NEW h \in Handlers, CallOK(h), h.op = "tick", h.step \in {"next", "place"}, h.reused = FALSE,
         h.todo \subseteq call[c].todo, h.opened = call[c].opened,
         call[c].step = "wake" => call[c].item \notin h.todo,
         Goes(c, h), UNCHANGED <<item, asg, project, timer, inFlight, rest>>,
         session' \in [Agents -> Sessions], why' \in [Items -> Reasons], Woken'
  PROVE TickInv'
<1>1. Typing /\ UNCHANGED <<requests, reopened>> /\ call[c].step # "manager" /\ h.step # "manager"
  BY StepsAre DEF TickInv, rest
<1>2. Typed
  BY <1>1, TypedNow DEF Typed
<1>3. TickOK(h) /\ \A i \in h.todo : item[i] # "none"
  BY LoopOK, StepsAre
<1>4. Typing'
  BY <1>1, <1>2, <1>3, TypingGoes
<1>5. Live' = Live /\ \A i : OpenOn(i)' = OpenOn(i)
  BY <1>1, SetsStay
<1>6. OnePlan'
  BY <1>5 DEF TickInv, OnePlan
<1>7. TickOK(h)'
  BY <1>3, <1>5, StepsAre DEF TickOK, Untaken
<1> QED BY <1>1, <1>4, <1>6, <1>7, TickMoves

LEMMA LaunchDoneStep ==
  ASSUME TickInv, NEW c \in Calls, NEW s \in {"queued", "idle"}, LaunchDone(c, s)
  PROVE TickInv'
<1>1. /\ Typing /\ call[c] \in Handlers /\ CallOK(call[c]) /\ call[c].step = "session"
      /\ call[c].op \in {"tick", "launch"} /\ call[c].agent \in Agents
      /\ call[c].reused = FALSE /\ session' = [session EXCEPT ![call[c].agent] = s]
      /\ UNCHANGED <<item, asg, project, timer, inFlight, why, rest>>
  BY CallIs DEF TickInv, LaunchDone, Is, CallOK, Handlers
<1>2. session' \in [Agents -> Sessions]
  BY <1>1, TypedNow DEF Sessions
<1>3. CASE call[c].op = "tick"
  <2> PICK h : h = [call[c] EXCEPT !.step = "place"]
    OBVIOUS
  <2>1. Goes(c, h)
    BY <1>3 DEF LaunchDone
  <2>2. /\ h \in Handlers /\ h.op = "tick" /\ h.step = "place" /\ h.todo = call[c].todo /\ h.reused = FALSE
        /\ h.item = call[c].item /\ h.opened = call[c].opened /\ h.sent = call[c].sent
        /\ h.agent = call[c].agent
    BY <1>1, <1>3, StepIs, StepsAre
  <2>3. CallOK(h)
    BY <1>1, <1>3, <2>2 DEF CallOK, BeforeQuery, AfterQuery
  <2>4. Woken'
    BY <1>1, <2>1, <2>2, WokenGoes, StepsAre DEF Covers
  <2> QED BY <1>1, <1>2, <1>3, <2>1, <2>2, <2>3, <2>4, SessionTick, StepsAre, TypedNow
<1>4. CASE call[c].op = "launch"
  <2>1. Goes(c, Idle) /\ UNCHANGED <<requests, reopened>>
    BY <1>1, <1>4 DEF LaunchDone, TickInv, rest
  <2>2. call'[c] = Idle /\ \A d \in Calls \ {c} : call'[d] = call[d]
    BY <1>1, <2>1, GoesIs
  <2>3. Typing'
    <3>1. Typed
      BY <1>1, <1>2, <2>1, TypedNow DEF Typed
    <3> QED BY <1>1, <2>1, <3>1, IdleIs, TypingGoes
  <2>4. Working' = Working /\ c \notin Working
    BY <1>4, <2>2, IdleIs DEF Working
  <2>5. OneTick'
    BY <1>1, <2>4 DEF TickInv, OneTick
  <2>6. Live' = Live /\ (\A i : OpenOn(i)' = OpenOn(i)) /\ \A w : OpenOf(w)' = OpenOf(w)
    BY <1>1, <2>1, SetsStay
  <2>7. Woken'
    BY <1>1, <1>4, <2>1, WokenGoes DEF Covers
  <2>8. \A d \in Working' : TickOK(call[d])'
    <3> SUFFICES ASSUME NEW d \in Working
                 PROVE TickOK(call[d])'
      BY <2>4
    <3>1. call'[d] = call[d] /\ TickOK(call[d])
      BY <2>2, <2>4 DEF TickInv, Working
    <3> QED BY <2>1, <2>6, <3>1 DEF TickOK, Untaken
  <2>9. OnePlan'
    BY <2>1, <2>6 DEF TickInv, OnePlan
  <2> QED BY <2>3, <2>5, <2>7, <2>8, <2>9 DEF TickInv
<1> QED BY <1>1, <1>3, <1>4

LEMMA PlaceStep == ASSUME TickInv, NEW c \in Calls, NEW a \in Asgs, Place(c, a) PROVE TickInv'
<1>1. call[c].step = "place" /\ call[c].op = "tick"
  BY StepTells, StepsAre DEF TickInv, Place, Is
<1> DEFINE row == [item |-> call[c].item, agent |-> call[c].agent, st |-> "open"]
<1>2. /\ Typing /\ call[c] \in Handlers /\ CallOK(call[c]) /\ TickOK(call[c])
      /\ call[c].item \in call[c].todo /\ call[c].agent \in Agents /\ call[c].item \in Items
      /\ item[call[c].item] # "none"
      /\ asg' = [asg EXCEPT ![a] = row] /\ Looked(call[c].item)
      /\ UNCHANGED <<item, session, project, timer, inFlight, requests, reopened>>
  BY <1>1, Here DEF Place, CallOK, AfterQuery, rest
<1>3. row \in Rows /\ row.item = call[c].item /\ row.agent = call[c].agent /\ row.st = "open"
  BY <1>2 DEF Rows
<1> HIDE DEF row
<1> PICK h : h = [call[c] EXCEPT !.step = "wake"]
  OBVIOUS
<1>4. Goes(c, h)
  BY DEF Place
<1>5. /\ h \in Handlers /\ h.op = "tick" /\ h.step = "wake" /\ h.todo = call[c].todo
      /\ h.item = call[c].item /\ h.reused = call[c].reused /\ h.opened = call[c].opened
      /\ h.sent = call[c].sent /\ h.agent = call[c].agent
  BY <1>1, <1>2, StepIs, StepsAre
<1>6. CallOK(h)
  BY <1>1, <1>2, <1>5 DEF CallOK, BeforeQuery, AfterQuery
<1>7. /\ why' \in [Items -> Reasons] /\ why'[call[c].item] = "looked"
      /\ \A j \in Items \ {call[c].item} : why'[j] = why[j]
  BY <1>2, LookedIs
<1>8. Typed
  BY <1>2, <1>3, <1>7, TypedNow DEF Typed
<1>9. Typing' /\ Untaken(call[c])
  BY <1>1, <1>2, <1>4, <1>5, <1>6, <1>8, TypingGoes, StepsAre DEF Typing, TickOK
<1>10. Woken'
  <2>1. \A i \in Items : why'[i] = "" => why[i] = "" /\ (Covers(call[c], i) => Covers(h, i))
    BY <1>1, <1>5, <1>7, StepsAre DEF Covers, BeforeQuery
  <2> QED BY <1>2, <1>4, <2>1, WokenGoes
<1>11. \A i \in Items \ {call[c].item} : OpenOn(i)' \subseteq OpenOn(i)
  BY <1>2, <1>3, TypedNow DEF OpenOn
<1>12. TickOK(h)'
  <2>1. Untaken(h)'
    BY <1>1, <1>2, <1>5, <1>9, <1>11, Here DEF Untaken
  <2> QED BY <1>5, <2>1 DEF TickOK
<1>13. Live' = Live
  BY <1>2 DEF Live
<1>14. OnePlan'
  BY <1>2, <1>13 DEF TickInv, OnePlan
<1> QED BY <1>1, <1>2, <1>4, <1>5, <1>9, <1>10, <1>12, <1>14, TickMoves

LEMMA WakeStep == ASSUME TickInv, NEW c \in Calls, Wake(c) PROVE TickInv'
<1>1. call[c].step = "wake" /\ call[c].op = "tick"
  BY StepTells, StepsAre DEF TickInv, Wake, Is
<1>2. /\ Typing /\ call[c] \in Handlers /\ CallOK(call[c]) /\ TickOK(call[c])
      /\ call[c].item \in call[c].todo /\ call[c].agent \in Agents /\ call[c].todo \subseteq Items
      /\ UNCHANGED <<item, asg, project, timer, inFlight, rest>>
  BY <1>1, Here DEF Wake, CallOK, AfterQuery
<1>3. call[c].sent \in 0 .. MaxPerTick /\ call[c].sent < MaxPerTick /\ call[c].sent + 1 \in 0 .. MaxPerTick
  <2>1. call[c].sent \in 0 .. MaxPerTick /\ call[c].sent < MaxPerTick
    BY <1>2 DEF CallOK, Handlers
  <2> QED BY <2>1, CoordinatorAssumption
<1> PICK g : g = [call[c] EXCEPT !.sent = @ + 1]
  OBVIOUS
<1>4. /\ g \in Handlers /\ g.op = "tick" /\ g.todo = call[c].todo /\ g.item = call[c].item
      /\ g.opened = call[c].opened /\ g.sent = call[c].sent + 1 /\ g.agent = call[c].agent
  BY <1>1, <1>2, <1>3 DEF Handlers
<1>5. \/ UNCHANGED session
      \/ /\ session[call[c].agent] \in {"queued", "idle", "busy"}
         /\ session' = [session EXCEPT ![call[c].agent] = "busy"]
  BY <1>4 DEF Wake
<1>6. session' \in [Agents -> Sessions]
  BY <1>2, <1>5, TypedNow DEF Sessions
<1>8. CASE g.sent >= MaxPerTick
  <2> PICK h : h = Break(g)
    OBVIOUS
  <2>1. Goes(c, h) /\ Loses("limit")
    BY <1>8 DEF Wake
  <2>2. /\ h \in Handlers /\ CallOK(h) /\ h.op = "tick" /\ h.step = "next" /\ h.reused = FALSE
        /\ h.todo = {} /\ h.opened = call[c].opened
    BY <1>4, BreakIs
  <2>3. Woken' /\ why' \in [Items -> Reasons]
    BY <1>2, <2>1, LosesIs DEF Reasons
  <2> QED BY <1>1, <1>2, <1>6, <2>1, <2>2, <2>3, SessionTick, StepsAre
<1>9. CASE ~ g.sent >= MaxPerTick
  <2> PICK h : h = NextItem(g)
    OBVIOUS
  <2>1. Goes(c, h) /\ UNCHANGED why
    BY <1>9 DEF Wake
  <2>2. g.sent < MaxPerTick
    BY <1>3, <1>4, <1>9, CoordinatorAssumption
  <2>3. /\ h \in Handlers /\ CallOK(h) /\ h.op = "tick" /\ h.step = "next" /\ h.reused = FALSE
        /\ h.todo = call[c].todo \ {call[c].item} /\ h.opened = call[c].opened
    BY <1>4, <2>2, NextItemIs
  <2>4. Woken'
    <3>1. \A i \in Items : why'[i] = "" => why[i] = "" /\ (Covers(call[c], i) => Covers(h, i))
      BY <1>1, <2>1, <2>3 DEF Covers, BeforeQuery
    <3> QED BY <1>2, <2>1, <3>1, WokenGoes
  <2>5. why' \in [Items -> Reasons]
    BY <1>2, <2>1, TypedNow
  <2> QED BY <1>1, <1>2, <1>6, <2>1, <2>3, <2>4, <2>5, SessionTick, StepsAre
<1> QED BY <1>8, <1>9

LEMMA DispatchFailsStep == ASSUME TickInv, NEW c \in Calls, DispatchFails(c) PROVE TickInv'
<1>1. /\ Typing /\ call[c] \in Handlers /\ CallOK(call[c]) /\ call[c].step \in {"pick", "session", "place"}
      /\ UNCHANGED <<item, asg, session, project, timer, inFlight, rest>>
  BY CallIs DEF TickInv, DispatchFails, Is
<1>2. call[c].op \in {"tick", "launch"}
  BY <1>1 DEF CallOK, AfterQuery
<1>3. CASE call[c].op = "tick"
  <2>1. Goes(c, NextItem(call[c])) /\ Looked(call[c].item)
    BY <1>3 DEF DispatchFails
  <2>2. call[c].item \in call[c].todo /\ call[c].step # "wake" /\ call[c].step \in AfterQuery
    BY <1>1, <1>3 DEF CallOK, AfterQuery
  <2> QED BY <1>1, <1>3, <2>1, <2>2, NextItemStep
<1>4. CASE call[c].op = "launch"
  <2>1. Goes(c, Idle) /\ UNCHANGED why
    BY <1>4 DEF DispatchFails
  <2>2. Woken'
    BY <1>1, <1>4, <2>1, WokenGoes DEF Covers
  <2>3. Aside(call[c]) /\ Aside(Idle) /\ Idle.op # "launch" /\ UNCHANGED <<requests, reopened>>
    BY <1>1, <1>4, IdleIs DEF Aside, rest
  <2> QED BY <1>1, <2>1, <2>2, <2>3, AsideMoves, IdleIs, TypedNow
<1> QED BY <1>2, <1>3, <1>4

LEMMA TickEndsStep == ASSUME TickInv, NEW c \in Calls, TickEnds(c) PROVE TickInv'
<1>1. call[c].step = "next" /\ call[c].op = "tick" /\ call[c].todo = {}
  BY StepTells, StepsAre DEF TickInv, TickEnds, Is
<1>2. /\ Typing /\ Goes(c, Idle) /\ inFlight' = FALSE
      /\ UNCHANGED <<item, asg, session, project, timer, why, rest>>
  BY DEF TickInv, TickEnds
<1>3. Woken'
  <2>1. \A i \in Items : ~ Covers(call[c], i)
    BY <1>1 DEF Covers, BeforeQuery
  <2> QED BY <1>2, <2>1, WokenGoes
<1> QED BY <1>1, <1>2, <1>3, TickStops, TypedNow

LEMMA ThrowsStep == ASSUME TickInv, NEW c \in Calls, Throws(c) PROVE TickInv'
<1>1. /\ Typing /\ call[c] \in Handlers /\ CallOK(call[c])
      /\ c \in Working \/ call[c].step \in {"manager", "statusWrite", "statusTimers"}
      /\ UNCHANGED <<item, asg, session, project, timer, rest>> /\ Goes(c, Idle)
      /\ inFlight' = (inFlight /\ c \notin Working) /\ Loses("failed")
  BY CallIs DEF TickInv, Throws
<1>2. Woken' /\ why' \in [Items -> Reasons]
  BY <1>1, LosesIs DEF Reasons
<1>3. CASE c \in Working
  <2>1. call[c].op = "tick" /\ call[c].step # "manager" /\ inFlight' = FALSE
    BY <1>1, <1>3 DEF Working
  <2> QED BY <1>1, <1>2, <2>1, TickStops, TypedNow
<1>4. CASE c \notin Working
  <2>1. Aside(call[c]) /\ Aside(Idle) /\ Idle.op # "launch" /\ UNCHANGED <<requests, reopened>>
    BY <1>1, <1>4, IdleIs DEF Aside, Working, rest
  <2>2. UNCHANGED inFlight
    BY <1>1, <1>4, TypedNow
  <2> QED BY <1>1, <1>2, <2>1, <2>2, AsideMoves, IdleIs, TypedNow
<1> QED BY <1>3, <1>4
-------------------------------------------------------------------------------
(***************************************************************************)
(* The steps that change items and assignments.                             *)
(***************************************************************************)
\* What closing assignments does.
LEMMA FailsIs ==
  ASSUME Typing, NEW S \in SUBSET Asgs, Fails(S), \A a \in S : asg[a].st # "none"
  PROVE /\ item' \in [Items -> Statuses] /\ asg' \in [Asgs -> Rows]
        /\ \A i \in Items : item[i] # "none" => item'[i] # "none"
        /\ \A a \in Asgs : asg'[a].st # "none" =>
             asg'[a].item \in Items /\ asg'[a].agent \in Agents /\ item'[asg'[a].item] # "none"
        /\ \A i : OpenOn(i)' \subseteq OpenOn(i)
        /\ \A w : OpenOf(w)' \subseteq OpenOf(w)
        /\ UNCHANGED reopened => Live' \subseteq Live
        /\ \A i \in Items \ SentBack(S) : item'[i] = item[i]
<1> DEFINE closed(a) == [asg[a] EXCEPT !.st = "closed"]
<1>1. /\ item \in [Items -> Statuses] /\ asg \in [Asgs -> Rows]
      /\ \A a \in Asgs : asg[a].st # "none" =>
           asg[a].item \in Items /\ asg[a].agent \in Agents /\ item[asg[a].item] # "none"
  BY TypedNow
<1>2. \A a \in Asgs : /\ closed(a) \in Rows /\ closed(a).st = "closed"
                      /\ closed(a).item = asg[a].item /\ closed(a).agent = asg[a].agent
  BY <1>1 DEF Rows
<1>3. asg' = [a \in Asgs |-> IF a \in S THEN closed(a) ELSE asg[a]]
  BY DEF Fails
<1> HIDE DEF closed
<1>4. \A a \in Asgs : /\ asg'[a] \in Rows /\ asg'[a].item = asg[a].item /\ asg'[a].agent = asg[a].agent
                      /\ asg'[a].st # "none" => asg[a].st # "none"
                      /\ asg'[a].st = "open" => asg[a].st = "open"
  BY <1>1, <1>2, <1>3
<1>5. asg' \in [Asgs -> Rows]
  BY <1>3, <1>4
<1>6. \A i \in SentBack(S) : i \in Items /\ item[i] \notin Terminal /\ item[i] # "none"
  BY <1>1 DEF SentBack, OpenOn
<1>7. /\ item' = [i \in Items |-> IF i \in SentBack(S) THEN "NEEDS_REVISION" ELSE item[i]]
      /\ "NEEDS_REVISION" \in Statuses \ (Terminal \cup {"none"})
  BY DEF Fails, Statuses, Candidate, Terminal
<1>8. /\ item' \in [Items -> Statuses] /\ \A i \in Items \ SentBack(S) : item'[i] = item[i]
      /\ \A i \in Items : item[i] # "none" => item'[i] # "none"
      /\ \A i \in Items : item[i] \in Terminal => item'[i] \in Terminal
  BY <1>1, <1>6, <1>7
<1>9. \A a \in Asgs : asg'[a].st # "none" =>
        asg'[a].item \in Items /\ asg'[a].agent \in Agents /\ item'[asg'[a].item] # "none"
  BY <1>1, <1>4, <1>8
<1>10. \A i : OpenOn(i)' \subseteq OpenOn(i)
  BY <1>4 DEF OpenOn
<1>11. \A w : OpenOf(w)' \subseteq OpenOf(w)
  BY <1>1, <1>4, <1>8 DEF OpenOf
<1>12. UNCHANGED reopened => Live' \subseteq Live
  <2>1. Plans \subseteq Items
    BY CoordinatorAssumption
  <2> QED BY <1>6, <1>7, <1>8, <2>1 DEF Live, Terminal
<1> QED BY <1>5, <1>8, <1>9, <1>10, <1>11, <1>12

LEMMA StaleIs == ASSUME Typing, NEW S \in StaleSets PROVE S \in SUBSET Asgs /\ \A a \in S : asg[a].st # "none"
<1> SUFFICES ASSUME NEW a \in S
             PROVE a \in Asgs /\ asg[a].st = "open"
  OBVIOUS
<1> QED BY DEF StaleSets

\* A tick before its query that changes items or assignments, not agents.
LEMMA BoardTick ==
  ASSUME TickInv, NEW c \in Calls, call[c].op = "tick", call[c].step \in BeforeQuery \ {"manager"},
         NEW h, h = [call[c] EXCEPT !.step = h.step], h.step \in {"planner", "query"}, Goes(c, h),
         item' \in [Items -> Statuses], asg' \in [Asgs -> Rows],
         \A i \in Items : item[i] # "none" => item'[i] # "none",
         \A a \in Asgs : asg'[a].st # "none" =>
           asg'[a].item \in Items /\ asg'[a].agent \in Agents /\ item'[asg'[a].item] # "none",
         UNCHANGED <<session, project, timer, inFlight, rest>>, why' \in [Items -> Reasons], OnePlan'
  PROVE TickInv'
<1>1. /\ Typing /\ call[c] \in Handlers /\ call[c].step # "manager"
      /\ UNCHANGED <<requests, reopened>>
  BY StepsAre, CallIs DEF TickInv, rest
<1>2. /\ h \in Handlers /\ h.op = "tick" /\ h.todo = call[c].todo
      /\ h.sent = call[c].sent /\ h.reused = call[c].reused /\ h.step \in BeforeQuery \ {"manager", "plan"}
  <2>1. h.step \in BeforeQuery \ {"manager", "plan"}
    BY StepsAre
  <2> PICK s : s = h.step
    OBVIOUS
  <2>2. h = [call[c] EXCEPT !.step = s] /\ s \in BeforeQuery \cup AfterQuery \cup {"statusTimers"}
    BY <2>1
  <2> QED BY <1>1, <2>1, <2>2, StepIs
<1>3. CallOK(h) /\ \A i \in h.todo : item[i] # "none" /\ i \in Items
  BY <1>1, <1>2, EarlyStep DEF Handlers
<1>4. Typed
  BY <1>1, TypedNow DEF Typed
<1>5. Typing'
  BY <1>1, <1>2, <1>3, <1>4, TypingGoes
<1>6. Woken'
  BY <1>1, <1>2, WokenByTick
<1>7. TickOK(h)'
  BY <1>2, StepsAre DEF TickOK
<1> QED BY <1>1, <1>2, <1>5, <1>6, <1>7, TickMoves

LEMMA ReconcileStep == ASSUME TickInv, NEW c \in Calls, Reconcile(c) PROVE TickInv'
<1>1. call[c].step = "reconcile" /\ call[c].op = "tick"
  BY StepTells, StepsAre DEF TickInv, Reconcile, Is
<1> PICK S \in StaleSets : /\ Fails(S)
                           /\ why' = [i \in Items |-> IF i \in SentBack(S) THEN "" ELSE why[i]]
  BY DEF Reconcile
<1>2. /\ Typing /\ call[c] \in Handlers /\ Goes(c, [call[c] EXCEPT !.step = "planner"])
      /\ UNCHANGED <<session, project, timer, inFlight, rest>>
  BY <1>1, Here DEF Reconcile
<1> PICK h : h = [call[c] EXCEPT !.step = "planner"]
  OBVIOUS
<1>3. h.step = "planner"
  BY <1>2, StepIs, StepsAre
<1>4. why' \in [Items -> Reasons]
  BY <1>2, TypedNow DEF Reasons
<1>5. S \in SUBSET Asgs /\ \A a \in S : asg[a].st # "none"
  BY <1>2, StaleIs
<1>6. /\ item' \in [Items -> Statuses] /\ asg' \in [Asgs -> Rows]
      /\ \A i \in Items : item[i] # "none" => item'[i] # "none"
      /\ \A a \in Asgs : asg'[a].st # "none" =>
           asg'[a].item \in Items /\ asg'[a].agent \in Agents /\ item'[asg'[a].item] # "none"
      /\ Live' \subseteq Live
  BY <1>2, <1>5, FailsIs DEF rest
<1>7. OnePlan'
  BY <1>6 DEF TickInv, OnePlan
<1>8. h = [call[c] EXCEPT !.step = h.step] /\ Goes(c, h)
  BY <1>2, <1>3
<1> QED BY <1>1, <1>2, <1>3, <1>4, <1>6, <1>7, <1>8, BoardTick, StepsAre

LEMMA PlanStep == ASSUME TickInv, NEW c \in Calls, NEW p \in Plans, Plan(c, p) PROVE TickInv'
<1>1. call[c].step = "plan" /\ call[c].op = "tick"
  BY StepTells, StepsAre DEF TickInv, Plan, Is
<1>2. /\ Typing /\ call[c] \in Handlers /\ Goes(c, [call[c] EXCEPT !.step = "query"])
      /\ TickOK(call[c]) /\ p \in Items
      /\ item' = [item EXCEPT ![p] = "READY"] /\ why' = [why EXCEPT ![p] = ""]
      /\ UNCHANGED <<asg, session, project, timer, inFlight, requests, reopened>>
  BY <1>1, Here, CoordinatorAssumption DEF Plan, rest
<1> PICK h : h = [call[c] EXCEPT !.step = "query"]
  OBVIOUS
<1>3. h.step = "query"
  BY <1>2, StepIs, StepsAre
<1>4. why' \in [Items -> Reasons] /\ item' \in [Items -> Statuses]
  BY <1>2, TypedNow DEF Reasons, Statuses, Candidate
<1>5. /\ asg' \in [Asgs -> Rows]
      /\ \A i \in Items : item[i] # "none" => item'[i] # "none"
      /\ \A a \in Asgs : asg'[a].st # "none" =>
           asg'[a].item \in Items /\ asg'[a].agent \in Agents /\ item'[asg'[a].item] # "none"
  BY <1>2, TypedNow
<1>6. OnePlan'
  <2>1. Live = {}
    BY <1>1, <1>2 DEF TickOK
  <2>2. Live' \subseteq Live \cup {p}
    BY <1>2, TypedNow, CoordinatorAssumption DEF Live
  <2> QED BY <2>1, <2>2 DEF OnePlan
<1>7. h = [call[c] EXCEPT !.step = h.step] /\ Goes(c, h)
  BY <1>2, <1>3
<1> QED BY <1>1, <1>2, <1>3, <1>4, <1>5, <1>6, <1>7, BoardTick, StepsAre DEF rest

LEMMA PlansUsedUpStep == ASSUME TickInv, NEW c \in Calls, PlansUsedUp(c) PROVE TickInv'
<1>1. call[c].step = "plan" /\ call[c].op = "tick"
  BY StepTells, StepsAre DEF TickInv, PlansUsedUp, Is
<1>2. /\ Typing /\ call[c] \in Handlers /\ Goes(c, [call[c] EXCEPT !.step = "query"])
      /\ UNCHANGED <<item, asg, session, project, timer, inFlight, why, reopened, rest>>
  BY <1>1, Here DEF PlansUsedUp, rest
<1> PICK h : h = [call[c] EXCEPT !.step = "query"]
  OBVIOUS
<1>3. h.step = "query" /\ h = [call[c] EXCEPT !.step = h.step] /\ Goes(c, h)
  BY <1>2, StepIs, StepsAre
<1>4. OnePlan'
  BY <1>2, BoardStays
<1> QED BY <1>1, <1>2, <1>3, <1>4, BoardTick, TypedNow, StepsAre
-------------------------------------------------------------------------------
(***************************************************************************)
(* The project's status, the timer, and calls by hand.                      *)
(***************************************************************************)
LEMMA StatusWriteStep == ASSUME TickInv, NEW c \in Calls, StatusWrite(c) PROVE TickInv'
<1>1. /\ Typing /\ call[c] \in Handlers /\ CallOK(call[c]) /\ call[c].step = "statusWrite"
      /\ Goes(c, [call[c] EXCEPT !.step = "statusTimers"])
      /\ project' = [active |-> call[c].on, enabled |-> call[c].on]
      /\ UNCHANGED <<item, asg, session, timer, inFlight, why, requests, reopened>>
  BY CallIs DEF TickInv, StatusWrite, Is, rest
<1>2. call[c].op \notin {"tick", "launch"} /\ call[c].todo = {}
  BY <1>1, StepsAre DEF CallOK, BeforeQuery, AfterQuery
<1> PICK h : h = [call[c] EXCEPT !.step = "statusTimers"]
  OBVIOUS
<1>3. /\ h \in Handlers /\ h.op = call[c].op /\ h.step = "statusTimers" /\ h.todo = {}
      /\ h.reused = call[c].reused /\ h.sent = call[c].sent
  BY <1>1, <1>2, StepIs
<1>4. CallOK(h)
  BY <1>1, <1>2, <1>3 DEF CallOK, BeforeQuery, AfterQuery
<1>5. Aside(call[c]) /\ Aside(h) /\ project' \in [active : BOOLEAN, enabled : BOOLEAN]
  BY <1>1, <1>2, <1>3 DEF Aside, Handlers
<1>6. Woken'
  BY <1>1, <1>2, WokenGoes DEF Covers
<1> QED BY <1>1, <1>2, <1>3, <1>4, <1>5, <1>6, AsideMoves, TypedNow

LEMMA StatusTimersStep == ASSUME TickInv, NEW c \in Calls, StatusTimers(c) PROVE TickInv'
<1>1. /\ Typing /\ call[c] \in Handlers /\ CallOK(call[c]) /\ call[c].step = "statusTimers"
      /\ Goes(c, Idle) /\ timer' = call[c].on /\ Loses("off")
      /\ UNCHANGED <<item, asg, session, project, inFlight, requests, reopened>>
  BY CallIs DEF TickInv, StatusTimers, Is, rest
<1>2. call[c].op # "tick"
  BY <1>1, StepsAre DEF CallOK, BeforeQuery, AfterQuery
<1>3. Aside(call[c]) /\ Aside(Idle) /\ timer' \in BOOLEAN /\ Idle.op # "launch"
  BY <1>1, <1>2, IdleIs DEF Aside, Handlers
<1>4. Woken' /\ why' \in [Items -> Reasons]
  BY <1>1, LosesIs DEF Reasons
<1> QED BY <1>1, <1>3, <1>4, AsideMoves, IdleIs, TypedNow

\* A handler begins; others may have to be told so.
LEMMA BeginsStep ==
  ASSUME TickInv, NEW c \in Calls, NEW h \in Handlers, CallOK(h), Aside(h), h.todo = {}, Begins(c, h),
         timer => timer' \/ h.op = "tick", timer' \in BOOLEAN,
         UNCHANGED <<item, asg, session, project, inFlight, why, reopened>>,
         requests' \in 0 .. MaxRequests
  PROVE TickInv'
<1>1. Typing /\ call[c] = Idle /\ Goes(c, h) /\ Aside(call[c])
  BY IdleIs DEF TickInv, Begins, Aside
<1>2. Woken'
  <2>1. CASE h.op = "tick"
    BY <1>1, <2>1, WokenByTick, StepsAre DEF Aside
  <2>2. CASE h.op # "tick"
    BY <1>1, <2>2, WokenGoes, IdleIs DEF Covers
  <2> QED BY <2>1, <2>2
<1> QED BY <1>1, <1>2, AsideMoves, TypedNow

LEMMA FireStep == ASSUME TickInv, NEW c \in Calls, Fire(c) PROVE TickInv'
<1> PICK h : h = [Idle EXCEPT !.op = "tick", !.step = "manager"]
  OBVIOUS
<1>1. /\ Typing /\ Begins(c, h) /\ timer' = FALSE
      /\ UNCHANGED <<item, asg, session, project, inFlight, why, requests, reopened>>
  BY DEF TickInv, Fire, rest
<1>2. Fresh(h, "tick", "manager")
  BY StartIs
<1> QED BY <1>1, <1>2, BeginsStep, TypedNow DEF Aside, Fresh

LEMMA CrashStep ==
  ASSUME TickInv, Crash, requests' \in 0 .. MaxRequests
  PROVE TickInv'
<1>1. /\ Typing /\ call' = [c \in Calls |-> Idle] /\ timer' = FALSE /\ inFlight' = FALSE
      /\ UNCHANGED <<item, asg, session, project, reopened>> /\ Loses("crash")
  BY DEF TickInv, Crash
<1>2. Woken' /\ why' \in [Items -> Reasons]
  BY <1>1, LosesIs DEF Reasons
<1>3. Typing'
  <2>1. Typed
    BY <1>1, <1>2, QuietTyped, TypedNow
  <2> QED BY <1>1, <2>1, TypingCalls, IdleIs
<1> QED BY <1>1, <1>2, <1>3, NoTick
-------------------------------------------------------------------------------
(***************************************************************************)
(* What people, agents and the other handlers do.                           *)
(***************************************************************************)
Asked == requests' \in 0 .. MaxRequests

LEMMA WokenFollows ==
  ASSUME Woken, NEW A, \A d \in Calls : Follows(d, A),
         \A i \in Dispatchable' : why'[i] = "" => timer' \/ (i \in Dispatchable /\ why[i] = "" /\ (timer => timer'))
  PROVE Woken'
<1>1. \A i : \A d \in Calls : Covers(call[d], i) => Covers(call'[d], i)
  BY DEF Covers, Follows
<1> QED BY <1>1, WokenKept

LEMMA Behind ==
  ASSUME TickInv, Typed, Asked, NEW A \in SUBSET Asgs, Opens(A) \/ (A = {} /\ UNCHANGED call),
         \A i \in Items : OpenOn(i)' \subseteq OpenOn(i) \cup A,
         \A w \in Agents : OpenOf(w)' \subseteq OpenOf(w) \cup A,
         Live' \subseteq Live, UNCHANGED inFlight,
         \A i \in Dispatchable' : why'[i] = "" => timer' \/ (i \in Dispatchable /\ why[i] = "" /\ (timer => timer'))
  PROVE TickInv'
<1>1. Typing /\ call' \in [Calls -> Handlers] /\ \A d \in Calls : Follows(d, A)
  BY OpensIs DEF TickInv
<1>2. Typing' /\ Woken'
  BY <1>1, TypingFollows, WokenFollows DEF TickInv
<1>3. Working' = Working
  BY <1>1 DEF Working, Follows
<1>4. OneTick' /\ OnePlan'
  BY <1>3 DEF TickInv, OneTick, OnePlan
<1>5. \A d \in Working' : TickOK(call[d])'
  <2> SUFFICES ASSUME NEW d \in Working
               PROVE TickOK(call[d])'
    BY <1>3
  <2>1. /\ TickOK(call[d]) /\ Follows(d, A) /\ d \in Calls /\ CallOK(call[d])
        /\ call[d].todo \subseteq Items
    BY <1>1, CallIs DEF TickInv, Working, Handlers
  <2>2. /\ call'[d].step = call[d].step /\ call'[d].todo = call[d].todo /\ call'[d].item = call[d].item
        /\ call'[d].agent = call[d].agent /\ call'[d].reused = call[d].reused
        /\ call[d].opened \subseteq call'[d].opened
        /\ call[d].step \in AfterQuery => A \subseteq call'[d].opened
    BY <2>1 DEF Follows
  <2>3. Is(d, "plan")' => Live' = {}
    BY <2>1, <2>2 DEF TickOK, Is
  <2>4. call[d].step \in AfterQuery => Untaken(call[d])'
    BY <2>1, <2>2 DEF TickOK, Untaken
  <2>5. call[d].step = "place" /\ call[d].reused => OpenOf(call[d].agent)' \subseteq call'[d].opened
    <3> SUFFICES ASSUME call[d].step = "place", call[d].reused
                 PROVE OpenOf(call[d].agent)' \subseteq call'[d].opened
      OBVIOUS
    <3> PICK w \in Agents : w = call[d].agent
      BY <2>1 DEF CallOK
    <3>1. OpenOf(w) \subseteq call[d].opened /\ A \subseteq call'[d].opened
      BY <2>1, <2>2, StepsAre DEF TickOK
    <3>2. OpenOf(w)' \subseteq call'[d].opened
      BY <2>2, <3>1
    <3>3. OpenOf(call[d].agent)' = OpenOf(w)'
      BY <2>2 DEF OpenOf
    <3> QED BY <3>2, <3>3
  <2> QED BY <2>2, <2>3, <2>4, <2>5 DEF TickOK, Is
<1> QED BY <1>2, <1>4, <1>5 DEF TickInv

\* The ways a status change asks for a tick.
LEMMA SchedulesIs ==
  ASSUME Typing, NEW i \in Items, Schedules(i)
  PROVE /\ timer' \in BOOLEAN /\ why' \in [Items -> Reasons] /\ (timer => timer')
        /\ why'[i] = "" => timer'
        /\ \A j \in Items \ {i} : why'[j] = why[j]
<1>1. /\ why \in [Items -> Reasons] /\ timer \in BOOLEAN /\ project.enabled \in BOOLEAN
      /\ "" \in Reasons /\ "off" \in Reasons
  BY TypedNow DEF Reasons
<1> QED BY <1>1 DEF Schedules

\* The same, when no assignment is opened.
LEMMA BehindQuietly ==
  ASSUME TickInv, Typed, Asked, UNCHANGED call,
         \A i \in Items : OpenOn(i)' \subseteq OpenOn(i),
         \A w \in Agents : OpenOf(w)' \subseteq OpenOf(w),
         Live' \subseteq Live, UNCHANGED inFlight,
         \A i \in Dispatchable' : why'[i] = "" => timer' \/ (i \in Dispatchable /\ why[i] = "" /\ (timer => timer'))
  PROVE TickInv'
<1> PICK A : A = {}
  OBVIOUS
<1>1. A \in SUBSET Asgs /\ A = {} /\ UNCHANGED call
  OBVIOUS
<1>2. /\ \A i \in Items : OpenOn(i)' \subseteq OpenOn(i) \cup A
      /\ \A w \in Agents : OpenOf(w)' \subseteq OpenOf(w) \cup A
  OBVIOUS
<1> QED BY <1>1, <1>2, Behind

LEMMA CreateItemStep ==
  ASSUME TickInv, Asked, NEW i \in Items, CreateItem(i)
  PROVE TickInv'
<1>1. /\ Typing /\ item[i] = "none" /\ item' = [item EXCEPT ![i] = "READY"]
      /\ reopened' = reopened \cup ({i} \cap Plans)
      /\ UNCHANGED <<asg, session, project, inFlight, call>>
  BY DEF TickInv, CreateItem
<1>2. /\ timer' \in BOOLEAN /\ why' \in [Items -> Reasons] /\ (timer => timer') /\ (why'[i] = "" => timer')
      /\ \A j \in Items \ {i} : why'[j] = why[j]
  BY <1>1, SchedulesIs DEF CreateItem
<1>3. item' \in [Items -> Statuses] /\ \A j \in Items : item[j] # "none" => item'[j] = item[j]
  BY <1>1, TypedNow DEF Statuses, Candidate
<1>4. Typed
  BY <1>1, <1>2, <1>3, TypedNow DEF Typed, Asked
<1>5. \A j \in Items : OpenOn(j)' \subseteq OpenOn(j)
  BY <1>1 DEF OpenOn
<1>6. \A w \in Agents : OpenOf(w)' \subseteq OpenOf(w)
  BY <1>1, <1>3, TypedNow DEF OpenOf
<1>7. Live' \subseteq Live
  BY <1>1, <1>3, TypedNow DEF Live
<1>8. \A j \in Dispatchable' : why'[j] = "" => timer' \/ (j \in Dispatchable /\ why[j] = "" /\ (timer => timer'))
  BY <1>1, <1>2, TypedNow DEF Dispatchable
<1> QED BY <1>1, <1>4, <1>5, <1>6, <1>7, <1>8, BehindQuietly

LEMMA SetItemStep ==
  ASSUME TickInv, Asked, NEW i \in Items, NEW st \in {"READY", "ACCEPTED", "CANCELLED"}, NEW silent \in BOOLEAN,
         SetItem(i, st, silent)
  PROVE TickInv'
<1>1. /\ Typing /\ item[i] \notin {"none", st} /\ item' = [item EXCEPT ![i] = st]
      /\ reopened' = (IF item[i] = "CANCELLED" THEN reopened \cup ({i} \cap Plans) ELSE reopened)
      /\ UNCHANGED <<asg, session, project, inFlight>>
  BY DEF TickInv, SetItem
<1>2. /\ item' \in [Items -> Statuses] /\ item'[i] = st /\ st # "none"
      /\ \A j \in Items \ {i} : item'[j] = item[j]
      /\ reopened' \subseteq Plans
  BY <1>1, TypedNow DEF Statuses, Candidate, Terminal
<1>3. /\ timer' \in BOOLEAN /\ why' \in [Items -> Reasons] /\ (timer => timer')
      /\ st \in Candidate => (why'[i] = "" => timer')
      /\ \A j \in Items \ {i} : why'[j] = why[j]
  <2>1. CASE st \notin Candidate
    BY <1>1, <2>1, TypedNow DEF SetItem
  <2>2. CASE st \in Candidate /\ silent
    BY <1>1, <2>2, TypedNow DEF SetItem, Reasons
  <2>3. CASE st \in Candidate /\ ~ silent
    BY <1>1, <2>3, SchedulesIs DEF SetItem
  <2> QED BY <2>1, <2>2, <2>3
<1>4. Typed
  BY <1>1, <1>2, <1>3, TypedNow DEF Typed, Asked
<1> DEFINE B == IF item[i] \in Terminal /\ st \notin Terminal THEN OpenOn(i) ELSE {}
<1> PICK A : A = B
  OBVIOUS
<1>5. Opens(A) /\ A \in SUBSET Asgs
  BY DEF SetItem, OpenOn
<1>6. \A j \in Items : OpenOn(j)' \subseteq OpenOn(j)
  BY <1>1 DEF OpenOn
<1>7. \A w \in Agents : OpenOf(w)' \subseteq OpenOf(w) \cup A
  <2>1. st \in Terminal => \A w \in Agents : OpenOf(w)' \subseteq OpenOf(w)
    BY <1>1, <1>2, TypedNow DEF OpenOf
  <2>2. item[i] \notin Terminal => \A w \in Agents : OpenOf(w)' \subseteq OpenOf(w)
    BY <1>1, <1>2, TypedNow DEF OpenOf
  <2>3. ASSUME item[i] \in Terminal, st \notin Terminal
        PROVE \A w \in Agents : OpenOf(w)' \subseteq OpenOf(w) \cup OpenOn(i)
    BY <1>1, <1>2, TypedNow DEF OpenOf, OpenOn
  <2> QED BY <2>1, <2>2, <2>3
<1>8. Live' \subseteq Live
  <2> SUFFICES ASSUME NEW p \in Live'
               PROVE p \in Live
    OBVIOUS
  <2>1. p \in Plans /\ p \notin reopened' /\ item'[p] \notin {"none", "CANCELLED"} /\ p \in Items
    BY CoordinatorAssumption DEF Live
  <2>2. p \notin reopened /\ (p = i => item[i] # "CANCELLED")
    BY <1>1, <2>1
  <2> QED BY <1>1, <1>2, <2>1, <2>2 DEF Live
<1>9. \A j \in Dispatchable' : why'[j] = "" => timer' \/ (j \in Dispatchable /\ why[j] = "" /\ (timer => timer'))
  BY <1>1, <1>2, <1>3 DEF Dispatchable
<1> QED BY <1>1, <1>4, <1>5, <1>6, <1>7, <1>8, <1>9, Behind

\* An assignment gets a row; the items stay, but for one that may leave the queue.
LEMMA RowStep ==
  ASSUME TickInv, Asked, NEW a \in Asgs, NEW row \in Rows, asg' = [asg EXCEPT ![a] = row],
         row.item \in Items, row.agent \in Agents, item[row.item] # "none",
         NEW st \in Statuses \ (Candidate \cup {"none"}),
         item' = [item EXCEPT ![row.item] = IF @ \in Terminal THEN @ ELSE st] \/ UNCHANGED item,
         NEW A \in SUBSET Asgs, Opens(A) \/ (A = {} /\ UNCHANGED call),
         row.st = "open" => a \in A \/ (asg[a].st = "open" /\ asg[a].item = row.item /\ asg[a].agent = row.agent),
         UNCHANGED <<session, project, timer, inFlight, why, reopened>>
  PROVE TickInv'
<1>1. Typing
  BY DEF TickInv
<1>2. /\ item' \in [Items -> Statuses]
      /\ \A i \in Items : item'[i] # item[i] => item[i] \notin Terminal /\ i = row.item /\ item'[i] = st
  BY <1>1, TypedNow
<1>3. /\ asg' \in [Asgs -> Rows] /\ asg'[a] = row
      /\ \A b \in Asgs \ {a} : asg'[b] = asg[b]
  BY <1>1, TypedNow
<1>4. \A i \in Items : /\ item[i] # "none" => item'[i] # "none"
                       /\ item[i] \in Terminal => item'[i] \in Terminal
                       /\ item'[i] \in Candidate => item[i] = item'[i]
                       /\ item[i] \in {"none", "CANCELLED"} => item'[i] = item[i]
  BY <1>2 DEF Terminal
<1>5. Typed
  BY <1>1, <1>2, <1>3, <1>4, TypedNow DEF Typed, Asked
<1>6. \A i \in Items : OpenOn(i)' \subseteq OpenOn(i) \cup A
  BY <1>3 DEF OpenOn
<1>7. \A w \in Agents : OpenOf(w)' \subseteq OpenOf(w) \cup A
  <2> SUFFICES ASSUME NEW w \in Agents, NEW b \in OpenOf(w)', b \notin A
               PROVE b \in OpenOf(w)
    OBVIOUS
  <2>1. b \in Asgs /\ asg'[b].agent = w /\ asg'[b].st = "open" /\ item'[asg'[b].item] \notin Terminal
    BY DEF OpenOf
  <2>2. asg[b].agent = w /\ asg[b].st = "open" /\ asg[b].item = asg'[b].item /\ asg[b].item \in Items
    BY <1>1, <1>3, <2>1, TypedNow
  <2> QED BY <1>4, <2>1, <2>2 DEF OpenOf
<1>8. Live' \subseteq Live
  BY <1>4, CoordinatorAssumption DEF Live
<1>9. \A i \in Dispatchable' : i \in Dispatchable /\ why'[i] = why[i]
  BY <1>4 DEF Dispatchable
<1> QED BY <1>5, <1>6, <1>7, <1>8, <1>9, Behind

LEMMA AssignStep ==
  ASSUME TickInv, Asked, NEW i \in Items, NEW w \in Agents, Assign(i, w)
  PROVE TickInv'
<1>1. PICK a : a = Cardinality(Placed) + 1
  OBVIOUS
<1>2. PICK row : row = [item |-> i, agent |-> w, st |-> "open"]
  OBVIOUS
<1>3. PICK A : A = {a}
  OBVIOUS
<1>4. PICK st : st = "ASSIGNED"
  OBVIOUS
<1>5. /\ item[i] # "none" /\ a \in Asgs /\ asg' = [asg EXCEPT ![a] = row] /\ Opens(A)
      /\ UNCHANGED <<item, session, project, timer, inFlight, why, reopened>>
  BY <1>1, <1>2, <1>3 DEF Assign
<1>6. row \in Rows /\ row.item = i /\ row.agent = w /\ row.st = "open"
  BY <1>2 DEF Rows
<1>7. A \in SUBSET Asgs /\ a \in A
  BY <1>3, <1>5
<1>8. st \in Statuses \ (Candidate \cup {"none"})
  BY <1>4 DEF Statuses, Candidate
<1>9. row.item \in Items /\ row.agent \in Agents /\ item[row.item] # "none"
  BY <1>5, <1>6
<1> QED BY <1>5, <1>6, <1>7, <1>8, <1>9, RowStep

\* A placed assignment gets another status.
LEMMA SetRow ==
  ASSUME Typing, NEW a \in Asgs, asg[a].st # "none", NEW st \in {"open", "closed"},
         asg' = [asg EXCEPT ![a].st = st]
  PROVE \E row \in Rows : /\ asg' = [asg EXCEPT ![a] = row]
                          /\ row.item = asg[a].item /\ row.agent = asg[a].agent /\ row.st = st
                          /\ row.item \in Items /\ row.agent \in Agents /\ item[row.item] # "none"
<1>1. /\ asg \in [Asgs -> Rows] /\ asg[a] \in Rows /\ asg[a].item \in Items /\ asg[a].agent \in Agents
      /\ item[asg[a].item] # "none"
  BY TypedNow
<1> PICK row : row = [asg[a] EXCEPT !.st = st]
  OBVIOUS
<1>2. row \in Rows /\ row.item = asg[a].item /\ row.agent = asg[a].agent /\ row.st = st
  BY <1>1 DEF Rows
<1>3. asg' = [asg EXCEPT ![a] = row]
  BY <1>1
<1> QED BY <1>1, <1>2, <1>3

LEMMA StartStep ==
  ASSUME TickInv, Asked, NEW a \in Asgs, Start(a)
  PROVE TickInv'
<1>1. /\ Typing /\ asg[a].st # "none" /\ asg' = [asg EXCEPT ![a].st = "open"]
      /\ item' = [item EXCEPT ![asg[a].item] = IF @ \in Terminal THEN @ ELSE "ASSIGNED"]
      /\ IF asg[a].st = "open" THEN UNCHANGED call ELSE Opens({a})
      /\ UNCHANGED <<session, project, timer, inFlight, why, reopened>>
  BY DEF TickInv, Start, Placed
<1> PICK row \in Rows : /\ asg' = [asg EXCEPT ![a] = row]
                        /\ row.item = asg[a].item /\ row.agent = asg[a].agent /\ row.st = "open"
                        /\ row.item \in Items /\ row.agent \in Agents /\ item[row.item] # "none"
  BY <1>1, SetRow
<1> PICK A : A = IF asg[a].st = "open" THEN {} ELSE {a}
  OBVIOUS
<1>2. /\ A \in SUBSET Asgs /\ (Opens(A) \/ (A = {} /\ UNCHANGED call))
      /\ a \in A \/ asg[a].st = "open"
  BY <1>1
<1>3. "ASSIGNED" \in Statuses \ (Candidate \cup {"none"})
  BY DEF Statuses, Candidate
<1>4. item' = [item EXCEPT ![row.item] = IF @ \in Terminal THEN @ ELSE "ASSIGNED"]
  BY <1>1
<1> QED BY <1>1, <1>2, <1>3, <1>4, RowStep

LEMMA CompleteStep ==
  ASSUME TickInv, Asked, NEW a \in Asgs, Complete(a)
  PROVE TickInv'
<1>1. /\ Typing /\ asg[a].st # "none" /\ asg' = [asg EXCEPT ![a].st = "closed"]
      /\ item' = [item EXCEPT ![asg[a].item] = IF @ \in Terminal THEN @ ELSE "IN_REVIEW"]
      /\ UNCHANGED <<session, project, timer, inFlight, call, why, reopened>>
  BY DEF TickInv, Complete
<1> PICK row \in Rows : /\ asg' = [asg EXCEPT ![a] = row]
                        /\ row.item = asg[a].item /\ row.agent = asg[a].agent /\ row.st = "closed"
                        /\ row.item \in Items /\ row.agent \in Agents /\ item[row.item] # "none"
  BY <1>1, SetRow
<1> PICK A : A = {}
  OBVIOUS
<1>2. A \in SUBSET Asgs /\ A = {} /\ UNCHANGED call
  BY <1>1
<1>3. "IN_REVIEW" \in Statuses \ (Candidate \cup {"none"})
  BY DEF Statuses, Candidate
<1>4. item' = [item EXCEPT ![row.item] = IF @ \in Terminal THEN @ ELSE "IN_REVIEW"]
  BY <1>1
<1> QED BY <1>1, <1>2, <1>3, <1>4, RowStep

\* Assignments are closed, and what is sent back asks for a tick or says why it does not.
LEMMA FailsStep ==
  ASSUME TickInv, Asked, NEW S \in SUBSET Asgs, Fails(S), \A a \in S : asg[a].st # "none",
         UNCHANGED <<session, project, inFlight, call, reopened>>,
         timer' \in BOOLEAN, why' \in [Items -> Reasons], timer => timer',
         \A i \in SentBack(S) : why'[i] = "" => timer',
         \A i \in Items \ SentBack(S) : why'[i] = why[i]
  PROVE TickInv'
<1>1. Typing
  BY DEF TickInv
<1>2. /\ item' \in [Items -> Statuses] /\ asg' \in [Asgs -> Rows]
      /\ \A i \in Items : item[i] # "none" => item'[i] # "none"
      /\ \A a \in Asgs : asg'[a].st # "none" =>
           asg'[a].item \in Items /\ asg'[a].agent \in Agents /\ item'[asg'[a].item] # "none"
      /\ \A i : OpenOn(i)' \subseteq OpenOn(i)
      /\ \A w : OpenOf(w)' \subseteq OpenOf(w)
      /\ Live' \subseteq Live
      /\ \A i \in Items \ SentBack(S) : item'[i] = item[i]
  BY <1>1, FailsIs
<1>3. Typed
  BY <1>1, <1>2, TypedNow DEF Typed, Asked
<1>4. \A i \in Dispatchable' : why'[i] = "" => timer' \/ (i \in Dispatchable /\ why[i] = "" /\ (timer => timer'))
  BY <1>2 DEF Dispatchable
<1> QED BY <1>2, <1>3, <1>4, BehindQuietly

LEMMA FailStep ==
  ASSUME TickInv, Asked, NEW a \in Asgs, NEW silent \in BOOLEAN, Fail(a, silent)
  PROVE TickInv'
<1>1. /\ Typing /\ asg[a].st = "open" /\ Fails({a})
      /\ UNCHANGED <<session, project, inFlight, call, reopened>>
  BY DEF TickInv, Fail
<1>2. /\ {a} \in SUBSET Asgs /\ \A b \in {a} : asg[b].st # "none"
  BY <1>1
<1>3. asg[a].item \in Items
  BY <1>1, TypedNow
<1>4. \A i \in SentBack({a}) : i = asg[a].item
  BY DEF SentBack, OpenOn
<1>5. /\ timer' \in BOOLEAN /\ why' \in [Items -> Reasons] /\ (timer => timer')
      /\ \A i \in SentBack({a}) : why'[i] = "" => timer'
      /\ \A i \in Items \ SentBack({a}) : why'[i] = why[i]
  <2>1. CASE SentBack({a}) = {}
    BY <1>1, <2>1, TypedNow DEF Fail
  <2>2. CASE SentBack({a}) # {} /\ silent
    BY <1>1, <1>3, <1>4, <2>2, TypedNow DEF Fail, Reasons
  <2>3. CASE SentBack({a}) # {} /\ ~ silent
    BY <1>1, <1>3, <1>4, <2>3, SchedulesIs DEF Fail
  <2> QED BY <2>1, <2>2, <2>3
<1> PICK S : S = {a}
  OBVIOUS
<1> QED BY <1>1, <1>2, <1>5, FailsStep

LEMMA SweepStep ==
  ASSUME TickInv, Asked, Sweep
  PROVE TickInv'
<1> PICK S \in StaleSets :
      /\ Fails(S) /\ timer' = (timer \/ project.enabled)
      /\ why' = [i \in Items |-> IF i \notin SentBack(S) THEN why[i]
                                 ELSE IF project.enabled THEN "" ELSE "off"]
  BY DEF Sweep
<1>1. /\ Typing /\ UNCHANGED <<session, project, inFlight, call, reopened>>
      /\ S \in SUBSET Asgs /\ \A a \in S : asg[a].st # "none"
  BY StaleIs DEF TickInv, Sweep
<1>2. project.enabled \in BOOLEAN /\ why \in [Items -> Reasons] /\ timer \in BOOLEAN
  BY <1>1, TypedNow
<1>3. /\ timer' \in BOOLEAN /\ why' \in [Items -> Reasons] /\ (timer => timer')
      /\ \A i \in SentBack(S) : why'[i] = "" => timer'
      /\ \A i \in Items \ SentBack(S) : why'[i] = why[i]
  BY <1>2 DEF Reasons, SentBack
<1> QED BY <1>1, <1>3, FailsStep

LEMMA BecomesStep ==
  ASSUME TickInv, Asked, NEW w \in Agents, NEW s \in {"idle", "offline"}, Becomes(w, s)
  PROVE TickInv'
<1>1. /\ Typing /\ session' = [session EXCEPT ![w] = s]
      /\ UNCHANGED <<item, asg, project, timer, inFlight, call, why, reopened>>
  BY DEF TickInv, Becomes
<1>2. Typed
  BY <1>1, TypedNow DEF Typed, Asked, Sessions
<1>3. /\ Dispatchable' = Dispatchable /\ Live' = Live
      /\ (\A i : OpenOn(i)' = OpenOn(i)) /\ \A v : OpenOf(v)' = OpenOf(v)
  BY <1>1, SetsStay
<1> QED BY <1>1, <1>2, <1>3, BehindQuietly
-------------------------------------------------------------------------------
(***************************************************************************)
(* All steps together.                                                     *)
(***************************************************************************)
LEMMA RequestStep == ASSUME TickInv, Requests PROVE TickInv'
<1>1. Typing /\ Asked
  <2>1. Typing /\ requests \in 0 .. MaxRequests /\ requests < MaxRequests /\ requests' = requests + 1
    BY TypedNow DEF TickInv, Requests
  <2> QED BY <2>1, CoordinatorAssumption DEF Asked
<1>2. ASSUME NEW i \in Items, CreateItem(i)
      PROVE TickInv'
  BY <1>1, <1>2, CreateItemStep
<1>3. ASSUME NEW i \in Items, NEW st \in {"READY", "ACCEPTED", "CANCELLED"}, NEW silent \in BOOLEAN,
             SetItem(i, st, silent)
      PROVE TickInv'
  BY <1>1, <1>3, SetItemStep
<1>4. ASSUME NEW i \in Items, NEW w \in Agents, Assign(i, w)
      PROVE TickInv'
  BY <1>1, <1>4, AssignStep
<1>5. ASSUME NEW a \in Asgs, Start(a) \/ Complete(a) \/ \E silent \in BOOLEAN : Fail(a, silent)
      PROVE TickInv'
  BY <1>1, <1>5, StartStep, CompleteStep, FailStep
<1>6. ASSUME NEW w \in Agents, NEW s \in {"idle", "offline"}, Becomes(w, s)
      PROVE TickInv'
  BY <1>1, <1>6, BecomesStep
<1>7. ASSUME NEW c \in Calls, NEW h, NEW op, NEW step, Fresh(h, op, step), op # "tick" \/ step = "manager",
             Begins(c, h), UNCHANGED <<item, asg, session, project, timer, inFlight, why, reopened>>
      PROVE TickInv'
  BY <1>1, <1>7, BeginsStep, TypedNow DEF Fresh, Aside, Asked
<1>8. ASSUME NEW c \in Calls, TickByHand(c)
      PROVE TickInv'
  <2> PICK h : h = [Idle EXCEPT !.op = "tick", !.step = "manager"]
    OBVIOUS
  <2> QED BY <1>7, <1>8, StartIs DEF TickByHand
<1>9. ASSUME NEW c \in Calls, Launch(c)
      PROVE TickInv'
  <2> PICK h : h = [Idle EXCEPT !.op = "launch", !.step = "pick"]
    OBVIOUS
  <2>1. Fresh(h, "launch", "pick") /\ "launch" # "tick"
    BY StartIs
  <2>2. Begins(c, h) /\ UNCHANGED <<item, asg, session, project, timer, inFlight, why, reopened>>
    BY <1>9 DEF Launch
  <2> QED BY <1>7, <2>1, <2>2
<1>10. ASSUME NEW c \in Calls, NEW active \in BOOLEAN, StatusRead(c, active)
      PROVE TickInv'
  <2> PICK h : h = [Idle EXCEPT !.op = "status", !.step = "statusWrite", !.on = active]
    OBVIOUS
  <2>1. Fresh(h, "status", "statusWrite") /\ "status" # "tick"
    BY StartIs
  <2>2. Begins(c, h) /\ UNCHANGED <<item, asg, session, project, timer, inFlight, why, reopened>>
    BY <1>10 DEF StatusRead
  <2> QED BY <1>7, <2>1, <2>2
<1>11. CASE Sweep
  BY <1>1, <1>11, SweepStep
<1>12. CASE Crash
  BY <1>1, <1>12, CrashStep DEF Asked
<1> QED BY <1>2, <1>3, <1>4, <1>5, <1>6, <1>8, <1>9, <1>10, <1>11, <1>12 DEF Requests

LEMMA TickStep == ASSUME TickInv, NEW c \in Calls, Tick(c) PROVE TickInv'
BY ManagerStep, LastTickStep, ReconcileStep, PlannerStep, PlanStep, PlansUsedUpStep, QueryStep, ConsiderStep,
   FindIdleStep, CountRoleStep, ModelMissingStep, CapacityStep, LaunchPickStep, LaunchDoneStep, PlaceStep, WakeStep,
   DispatchFailsStep, TickEndsStep, StatusWriteStep, StatusTimersStep DEF Tick

LEMMA InitiallyTick == Init => TickInv
<1> SUFFICES ASSUME Init
             PROVE TickInv
  OBVIOUS
<1>1. /\ \A c \in Calls : call[c] = Idle
      /\ \A i \in Items : item[i] = "none" /\ \A a \in Asgs : asg[a].st = "none"
      /\ \A w \in Agents : session[w] = "none"
  BY DEF Init
<1>2. BoardTypes
  <2>1. call \in [Calls -> Handlers]
    BY IdleIs DEF Init
  <2>2. item \in [Items -> Statuses] /\ session \in [Agents -> Sessions] /\ why \in [Items -> Reasons]
    BY DEF Init, Statuses, Sessions, Reasons
  <2>3. asg \in [Asgs -> Rows]
    <3>1. [item |-> NoItem, agent |-> NoAgent, st |-> "none"] \in Rows
      BY DEF Rows
    <3> QED BY <3>1 DEF Init
  <2>4. requests \in 0 .. MaxRequests
    <3>1. requests = 0 /\ MaxRequests \in Nat
      BY CoordinatorAssumption DEF Init
    <3> QED BY <3>1
  <2> QED BY <2>1, <2>2, <2>3, <2>4 DEF Init, BoardTypes
<1>3. Placed = {} /\ Working = {} /\ Live = {} /\ Dispatchable = {}
  <2>1. Placed = {}
    BY DEF Init, Placed
  <2>2. Live = {}
    BY <1>1, CoordinatorAssumption DEF Live
  <2> QED BY <1>1, <2>1, <2>2, IdleIs DEF Working, Dispatchable, Candidate
<1>4. Typing
  BY <1>1, <1>2, <1>3, IdleIs DEF Typing
<1>5. OneTick /\ OnePlan /\ Woken /\ \A c \in Working : TickOK(call[c])
  BY <1>3 DEF Init, OneTick, OnePlan, Woken
<1> QED BY <1>4, <1>5 DEF TickInv

LEMMA InductiveTick == TickInv /\ [Next]_vars => TickInv'
<1> SUFFICES ASSUME TickInv, [Next]_vars
             PROVE TickInv'
  OBVIOUS
<1>1. CASE Next
  <2>1. CASE \E c \in Calls : Fire(c) \/ Tick(c)
    BY <2>1, FireStep, TickStep
  <2>2. CASE \E c \in Calls : Throws(c)
    BY <2>2, ThrowsStep
  <2>3. CASE Requests
    BY <2>3, RequestStep
  <2> QED BY <1>1, <2>1, <2>2, <2>3 DEF Next
<1>2. CASE UNCHANGED vars
  <2>1. UNCHANGED <<item, asg, session, project, timer, inFlight, call, requests, why, reopened>>
    BY <1>2 DEF vars
  <2>2. Typing /\ Typing' /\ Working' = Working
    <3>1. Typed
      BY <2>1, TypedNow DEF Typed, TickInv
    <3> QED BY <2>1, <3>1, TypingStays DEF TickInv, Working
  <2>3. /\ Live' = Live /\ Dispatchable' = Dispatchable /\ ActiveAgents' = ActiveAgents
        /\ (\A i : OpenOn(i)' = OpenOn(i)) /\ \A w : OpenOf(w)' = OpenOf(w)
    BY <2>1, SetsStay
  <2>4. OneTick' /\ OnePlan'
    BY <2>1, <2>2, <2>3 DEF TickInv, OneTick, OnePlan
  <2>5. Woken'
    BY <2>1, <2>3 DEF TickInv, Woken, Covered
  <2>6. \A c \in Working : TickOK(call[c])'
    BY <2>1, <2>3 DEF TickInv, TickOK, Untaken, OpenOf
  <2> QED BY <2>2, <2>4, <2>5, <2>6 DEF TickInv
<1> QED BY <1>1, <1>2

-------------------------------------------------------------------------------
(***************************************************************************)
(* The room of the role.                                                   *)
(***************************************************************************)
\* A handler gets to be one that counted by counting, and by nothing else.
Elsewhere(h) == h.op # "tick" \/ h.step \notin {"capacity", "pick", "session"}
LEMMA OnlyCountRole ==
  ASSUME TickInv, Next, NEW c \in Calls, Counted(call'[c]), ~ Counted(call[c])
  PROVE CountRole(c)
<1>1. /\ Typing /\ call[c] \in Handlers /\ CallOK(call[c]) /\ Elsewhere(call[c])
  BY CallIs DEF TickInv, Counted, Elsewhere
<1>2. ~ Elsewhere(call'[c])
  BY DEF Counted, Elsewhere
<1>3. ASSUME NEW d \in Calls, NEW h, Goes(d, h), d = c => Elsewhere(h)
      PROVE FALSE
  BY <1>1, <1>2, <1>3, GoesIs
<1>4. Elsewhere(Idle)
  BY IdleIs DEF Elsewhere
<1>5. ASSUME NEW h \in Handlers
      PROVE Elsewhere(NextItem(h)) /\ Elsewhere(Break(h))
  <2>1. NextItem(h).step = "next" /\ Break(h).step = "next"
    BY DEF NextItem, Break, Handlers
  <2> QED BY <2>1 DEF Elsewhere
<1>6. ASSUME NEW A \in SUBSET Asgs, Opens(A) \/ (A = {} /\ UNCHANGED call)
      PROVE FALSE
  BY <1>1, <1>2, <1>6, OpensIs DEF Follows, Elsewhere
<1>7. ASSUME NEW d \in Calls
      PROVE call[d] \in Handlers /\ CallOK(call[d])
  BY <1>1, CallIs
<1>8. ASSUME NEW d \in Calls, Fire(d) \/ Throws(d) \/ StatusTimers(d) \/ TickEnds(d)
      PROVE FALSE
  <2>1. Elsewhere([Idle EXCEPT !.op = "tick", !.step = "manager"])
    BY StartIs DEF Fresh, Elsewhere
  <2> QED BY <1>3, <1>4, <1>8, <2>1 DEF Fire, Begins, Throws, StatusTimers, TickEnds
<1>9. ASSUME NEW d \in Calls, Manager(d) \/ LastTick(d) \/ Reconcile(d) \/ Planner(d) \/ StatusWrite(d)
      PROVE FALSE
  <2>1. /\ Elsewhere([call[d] EXCEPT !.step = "lastTick", !.on = project.enabled])
        /\ \A s \in {"reconcile", "planner", "query", "plan", "statusTimers"} :
             Elsewhere([call[d] EXCEPT !.step = s])
    BY <1>7 DEF Elsewhere, Handlers
  <2>2. CASE Manager(d) \/ LastTick(d)
    BY <1>3, <1>4, <2>1, <2>2 DEF Manager, LastTick
  <2>3. CASE Reconcile(d) \/ Planner(d) \/ StatusWrite(d)
    BY <1>3, <1>4, <2>1, <2>3 DEF Reconcile, Planner, StatusWrite
  <2> QED BY <1>9, <2>2, <2>3
<1>10. ASSUME NEW d \in Calls, (\E q \in Plans : Plan(d, q)) \/ PlansUsedUp(d) \/ Query(d)
       PROVE FALSE
  <2>1. /\ Elsewhere([call[d] EXCEPT !.step = "query"])
        /\ \A T : Elsewhere([call[d] EXCEPT !.step = "next", !.todo = T])
    BY <1>7 DEF Elsewhere, Handlers
  <2> QED BY <1>3, <1>10, <2>1 DEF Plan, PlansUsedUp, Query
<1>11. ASSUME NEW d \in Calls, NEW i \in Items, Consider(d, i)
       PROVE FALSE
  <2> PICK g : g = [call[d] EXCEPT !.item = i]
    OBVIOUS
  <2>1. g \in Handlers
    BY <1>7 DEF Handlers
  <2>2. Elsewhere([g EXCEPT !.step = "idle"])
    BY <2>1 DEF Elsewhere, Handlers
  <2> QED BY <1>3, <1>5, <1>11, <2>1, <2>2 DEF Consider
<1>12. ASSUME NEW d \in Calls, FindIdle(d)
       PROVE FALSE
  <2>1. /\ Elsewhere([call[d] EXCEPT !.step = "count"])
        /\ \A w : Elsewhere([call[d] EXCEPT !.step = "place", !.agent = w, !.reused = TRUE])
    BY <1>7 DEF Elsewhere, Handlers
  <2> QED BY <1>3, <1>12, <2>1 DEF FindIdle
<1>13. ASSUME NEW d \in Calls, ModelMissing(d) \/ Capacity(d)
       PROVE FALSE
  <2>1. call[d].step = "capacity" /\ call[d].op = "tick"
    BY <1>1, <1>13, StepTells, StepsAre DEF ModelMissing, Capacity, Is
  <2>2. d # c
    BY <1>1, <2>1 DEF Elsewhere
  <2> QED BY <1>3, <1>13, <2>2 DEF ModelMissing, Capacity
<1>14. ASSUME NEW d \in Calls, NEW w \in Agents, LaunchPick(d, w)
       PROVE FALSE
  <2> PICK h : h = [call[d] EXCEPT !.step = "session", !.agent = w]
    OBVIOUS
  <2>1. h.op = call[d].op /\ call[d].step = "pick" /\ Goes(d, h)
    BY <1>7, <1>14 DEF LaunchPick, Is, Handlers
  <2> QED BY <1>1, <1>3, <2>1 DEF Elsewhere
<1>15. ASSUME NEW d \in Calls, (\E s \in {"queued", "idle"} : LaunchDone(d, s)) \/ \E a \in Asgs : Place(d, a)
       PROVE FALSE
  <2>1. Elsewhere([call[d] EXCEPT !.step = "place"]) /\ Elsewhere([call[d] EXCEPT !.step = "wake"])
    BY <1>7 DEF Elsewhere, Handlers
  <2> QED BY <1>3, <1>4, <1>15, <2>1 DEF LaunchDone, Place
<1>16. ASSUME NEW d \in Calls, Wake(d)
       PROVE FALSE
  <2> PICK g : g = [call[d] EXCEPT !.sent = @ + 1]
    OBVIOUS
  <2>1. Goes(d, Break(g)) \/ Goes(d, NextItem(g))
    BY <1>16 DEF Wake
  <2>2. g = [call[d] EXCEPT !.sent = g.sent]
    BY <1>7 DEF Handlers
  <2>3. NextItem(g).step = "next" /\ Break(g).step = "next"
    BY <1>7, <2>2 DEF NextItem, Break, Handlers
  <2> QED BY <1>3, <2>1, <2>3 DEF Elsewhere
<1>17. ASSUME NEW d \in Calls, DispatchFails(d)
       PROVE FALSE
  BY <1>3, <1>4, <1>5, <1>7, <1>17 DEF DispatchFails
<1>18. ASSUME NEW d \in Calls, CountRole(d), d # c
       PROVE FALSE
  BY <1>3, <1>18 DEF CountRole
<1>19. ASSUME Requests
       PROVE FALSE
  <2>1. ASSUME NEW d \in Calls, TickByHand(d) \/ Launch(d) \/ \E active \in BOOLEAN : StatusRead(d, active)
        PROVE FALSE
    <3>1. /\ Elsewhere([Idle EXCEPT !.op = "tick", !.step = "manager"])
          /\ Elsewhere([Idle EXCEPT !.op = "launch", !.step = "pick"])
          /\ \A on \in BOOLEAN : Elsewhere([Idle EXCEPT !.op = "status", !.step = "statusWrite", !.on = on])
      BY StartIs DEF Fresh, Elsewhere
    <3> QED BY <1>3, <2>1, <3>1 DEF TickByHand, Launch, StatusRead, Begins
  <2>2. ASSUME Crash
        PROVE FALSE
    BY <1>2, <1>4, <2>2 DEF Crash
  <2>3. UNCHANGED call => FALSE
    BY <1>6
  <2>4. ASSUME NEW a \in Asgs, Start(a)
        PROVE FALSE
    BY <1>6, <2>3, <2>4 DEF Start
  <2>5. ASSUME NEW i \in Items, NEW st, NEW silent, SetItem(i, st, silent)
        PROVE FALSE
    BY <1>6, <2>5 DEF SetItem, OpenOn
  <2>6. ASSUME NEW i \in Items, NEW w \in Agents, Assign(i, w)
        PROVE FALSE
    BY <1>6, <2>6 DEF Assign
  <2>7. ASSUME \/ \E i \in Items : CreateItem(i)
               \/ \E a \in Asgs : Complete(a) \/ \E silent \in BOOLEAN : Fail(a, silent)
               \/ \E w \in Agents, s \in {"idle", "offline"} : Becomes(w, s)
               \/ Sweep
        PROVE FALSE
    BY <2>3, <2>7 DEF CreateItem, Complete, Fail, Becomes, Sweep
  <2> QED BY <1>19, <2>1, <2>2, <2>4, <2>5, <2>6, <2>7 DEF Requests
<1>20. ASSUME NEW d \in Calls, Tick(d)
       PROVE CountRole(c)
  BY <1>8, <1>9, <1>10, <1>11, <1>12, <1>13, <1>14, <1>15, <1>16, <1>17, <1>18, <1>20 DEF Tick
<1> QED BY <1>8, <1>19, <1>20 DEF Next

\* What a tick counted stays below the limit: the agents at work are those it counted and
\* those hired since.
LEMMA RoomStep ==
  ASSUME TickInv, Next, NEW c \in Calls, HasRoom(call[c])
  PROVE HasRoom(call[c])'
<1> SUFFICES ASSUME Counted(call'[c])
             PROVE Cardinality(ActiveAgents' \ hired') < RoleLimit
  BY DEF HasRoom, Counted
<1>1. /\ IsFiniteSet(ActiveAgents \ hired) /\ IsFiniteSet(ActiveAgents) /\ IsFiniteSet(ActiveAgents' \ hired')
      /\ ActiveAgents' \subseteq Agents
  BY FiniteAgents, CoordinatorAssumption, FS_Subset DEF ActiveAgents
<1>2. CASE Counted(call[c])
  <2>1. hired' = hired \cup (ActiveAgents' \ ActiveAgents)
    BY <1>2 DEF Next, Hires
  <2>2. ActiveAgents' \ hired' \subseteq ActiveAgents \ hired
    BY <2>1
  <2>3. Cardinality(ActiveAgents' \ hired') <= Cardinality(ActiveAgents \ hired)
    BY <1>1, <2>2, FS_Subset
  <2> QED BY <1>1, <1>2, <2>3, FS_CardinalityType, CoordinatorAssumption DEF HasRoom
<1>3. CASE ~ Counted(call[c])
  <2>1. CountRole(c)
    BY <1>3, OnlyCountRole
  <2>2. ActiveAgents' = ActiveAgents
    BY <2>1, SetsStay DEF CountRole, rest
  <2>3. ~ Cardinality(ActiveAgents) >= RoleLimit
    <3> SUFFICES ASSUME Cardinality(ActiveAgents) >= RoleLimit
                 PROVE FALSE
      OBVIOUS
    <3>1. Goes(c, NextItem(call[c])) /\ call[c] \in Handlers /\ Typing
      BY <2>1, CallIs DEF CountRole, TickInv
    <3> PICK h : h = NextItem(call[c])
      OBVIOUS
    <3>2. h.step = "next"
      BY <3>1 DEF NextItem, Handlers
    <3>3. call'[c].step = "next"
      BY <3>1, <3>2, GoesIs
    <3> QED BY <3>3 DEF Counted
  <2>4. Cardinality(ActiveAgents' \ hired') <= Cardinality(ActiveAgents)
    BY <1>1, <2>2, FS_Subset
  <2> QED BY <1>1, <2>3, <2>4, FS_CardinalityType, CoordinatorAssumption
<1> QED BY <1>2, <1>3
-------------------------------------------------------------------------------
(***************************************************************************)
(* The theorems.                                                           *)
(***************************************************************************)
LEMMA Initially == Init => Inv
<1> SUFFICES ASSUME Init
             PROVE Inv
  OBVIOUS
<1>1. TickInv /\ hired \subseteq Agents
  BY InitiallyTick DEF Init
<1>2. \A c \in Calls : HasRoom(call[c])
  BY IdleIs DEF Init, HasRoom, Counted
<1> QED BY <1>1, <1>2 DEF Inv, TypeOK, TickInv, Typing

LEMMA Inductive == Inv /\ [Next]_vars => Inv'
<1> SUFFICES ASSUME Inv, [Next]_vars
             PROVE Inv'
  OBVIOUS
<1>1. TickInv' /\ TickInv
  BY InductiveTick DEF Inv
<1>2. CASE Next
  <2>1. hired' \subseteq Agents
    BY <1>2 DEF Next, Hires, Inv, TypeOK, ActiveAgents
  <2>2. \A c \in Calls : HasRoom(call[c])'
    <3> TAKE c \in Calls
    <3> QED BY <1>1, <1>2, RoomStep DEF Inv
  <2> QED BY <1>1, <2>1, <2>2 DEF Inv, TypeOK, TickInv, Typing
<1>3. CASE UNCHANGED vars
  <2>1. ActiveAgents' = ActiveAgents /\ UNCHANGED <<call, hired>>
    BY <1>3, SetsStay DEF vars
  <2>2. \A c \in Calls : HasRoom(call[c])'
    BY <2>1 DEF Inv, HasRoom, Counted
  <2> QED BY <1>1, <2>1, <2>2 DEF Inv, TypeOK, TickInv, Typing
<1> QED BY <1>2, <1>3

\* Everything Inv says holds of every state.
THEOREM Invariance == Spec => []Inv
<1> QED BY Initially, Inductive, PTL DEF Spec

\* The variables have their types.
THEOREM TypeCorrect == Spec => []TypeOK
<1>1. Inv => TypeOK
  BY DEF Inv
<1> QED BY <1>1, Invariance, PTL

\* The coordinator hands out no item that has an open assignment, unless somebody else opened
\* it after the tick read the items.
THEOREM NoDoubleDispatch == Spec => ItemUntaken
<1>1. Inv => [\A c \in Calls : Is(c, "place") /\ call'[c].step = "wake" => OpenOn(call[c].item) \subseteq call[c].opened]_vars
  <2> SUFFICES ASSUME Inv, NEW c \in Calls, Is(c, "place")
               PROVE OpenOn(call[c].item) \subseteq call[c].opened
    OBVIOUS
  <2>1. call[c].step = "place" /\ call[c].op = "tick"
    BY StepTells, StepsAre DEF Inv, TickInv, Is
  <2>2. TickOK(call[c]) /\ CallOK(call[c])
    BY <2>1, Here DEF Inv
  <2> QED BY <2>1, <2>2 DEF TickOK, Untaken, CallOK, AfterQuery
<1> QED BY <1>1, Invariance, PTL DEF ItemUntaken

\* An agent the coordinator reuses has no other work, unless somebody else gave it some after
\* the tick read the items.
THEOREM ReusedAgentsAreFree == Spec => AgentFree
<1>1. Inv => [\A c \in Calls : Is(c, "place") /\ call'[c].step = "wake" /\ call[c].reused =>
                OpenOf(call[c].agent) \subseteq call[c].opened]_vars
  <2> SUFFICES ASSUME Inv, NEW c \in Calls, Is(c, "place"), call[c].reused
               PROVE OpenOf(call[c].agent) \subseteq call[c].opened
    OBVIOUS
  <2>1. call[c].step = "place" /\ call[c].op = "tick"
    BY StepTells, StepsAre DEF Inv, TickInv, Is
  <2> QED BY <2>1, Here DEF Inv, TickOK
<1> QED BY <1>1, Invariance, PTL DEF AgentFree

\* A goal has one planner item that was not cancelled, apart from those somebody else created
\* or put back.
THEOREM GoalsPlannedOnce == Spec => []PlannedOnce
<1>1. Inv => PlannedOnce
  <2> SUFFICES ASSUME OnePlan
               PROVE Cardinality(Live) <= 1
    BY DEF Inv, TickInv, PlannedOnce
  <2>1. CASE Live = {}
    BY <2>1, FS_EmptySet
  <2>2. CASE Live # {}
    <3> PICK p \in Live : TRUE
      BY <2>2
    <3>1. Live = {p}
      BY DEF OnePlan
    <3>2. Cardinality({p}) = 1
      BY FS_Singleton
    <3> QED BY <3>1, <3>2
  <2> QED BY <2>1, <2>2
<1> QED BY <1>1, Invariance, PTL

\* A tick is going to look at every item whose status asked for one, unless the history names
\* the way in which that was lost.
THEOREM NothingForgotten == Spec => []Woken
<1>1. Inv => Woken
  BY DEF Inv, TickInv
<1> QED BY <1>1, Invariance, PTL

\* A tick launches an agent of a role only while fewer than the role may have are at work,
\* apart from those others gave work to since it counted.
THEOREM RoleLimitHolds == Spec => RoleLimitKept
<1>1. Inv => [\A c \in Calls : Counted(call[c]) /\ Is(c, "session") /\ call'[c].step = "place" =>
                Cardinality(ActiveAgents \ hired) < RoleLimit]_vars
  BY DEF Inv, HasRoom
<1> QED BY <1>1, Invariance, PTL DEF RoleLimitKept
================================================================================
