-------------------------- MODULE RunnerBridgeProofs --------------------------
(***************************************************************************)
(* Theorems about RunnerBridge, for any number of messages and of          *)
(* overlapping handlers: its invariant Inv is inductive (first WaitersOK,  *)
(* then what NotQueued, SendsOwn and NotStale add to it), and a handler    *)
(* nobody overtook revives no failed message.                             *)
(***************************************************************************)
EXTENDS RunnerBridge, WellFoundedInduction, TLAPS

-------------------------------------------------------------------------------
(***************************************************************************)
(* What the repairs and the handlers compute from a session is a session.  *)
(***************************************************************************)
\* Messages are numbers, and 0 is none of them.
LEMMA RequestNumbers ==
  Requests \subseteq Nat /\ NoRequest \notin Requests /\ MaxMessages \in Nat
BY RunnerBridgeAssumption DEF Requests, NoRequest

\* A non-empty set of natural numbers has a smallest element.
LEMMA SmallestOne ==
  ASSUME NEW S, S \subseteq Nat, S # {}
  PROVE  \E n \in S : \A m \in S : n <= m
<1> DEFINE R == {ss \in Nat \X Nat : ss[1] < ss[2]}
<1>1. IsWellFoundedOn(R, Nat)
  BY NatLessThanWellFounded DEF OpToRel
<1>2. \E n \in S : \A m \in S : ~ (<<m, n>> \in R)
  <2> HIDE DEF R
  <2> QED BY <1>1, WFMin
<1>3. \A m, n \in Nat : m < n => <<m, n>> \in R
  OBVIOUS
<1>4. PICK n \in S : \A m \in S : ~ (<<m, n>> \in R)
  BY <1>2
<1>5. \A m \in S : m \in Nat /\ n \in Nat /\ ~ (m < n)
  <2> HIDE DEF R
  <2> QED BY <1>3, <1>4
<1> QED
  BY <1>5

\* A non-empty set of messages has a first and a last one, which Min and Max pick.
LEMMA FirstOne ==
  ASSUME NEW S, S \subseteq Requests, S # {}
  PROVE  Min(S) \in S
<1>1. \E n \in S : \A m \in S : n <= m
  BY RequestNumbers, SmallestOne
<1> QED
  BY <1>1 DEF Min

LEMMA LastOne ==
  ASSUME NEW S, S \subseteq Requests, S # {}
  PROVE  Max(S) \in S
<1> DEFINE T == {MaxMessages - x : x \in S}
<1>1. T \subseteq Nat
  BY RequestNumbers DEF Requests
<1>2. T # {}
  OBVIOUS
<1>3. \E n \in T : \A m \in T : n <= m
  <2> HIDE DEF T
  <2> QED BY <1>1, <1>2, SmallestOne
<1>4. PICK x \in S : \A y \in S : MaxMessages - x <= MaxMessages - y
  BY <1>3
<1>5. \A y \in S : x >= y
  BY <1>4, RequestNumbers
<1> QED
  BY <1>5 DEF Max

LEMMA LaunchedType == Launched \in Session
BY DEF Launched, Session, Status, BridgeStatus

LEMMA ClearType ==
  ASSUME NEW s \in Session, NEW status \in Status
  PROVE  Clear(s, status) \in Session
BY DEF Clear, Session

LEMMA RespondedType ==
  ASSUME NEW s \in Session
  PROVE  Responded(s) \in Session
BY DEF Responded, Session, TerminalIn

LEMMA FailOpenType ==
  ASSUME NEW s \in Session
  PROVE  FailOpen(s) \in Session
BY DEF FailOpen, Session, BridgeStatus

LEMMA FailBridgeType ==
  ASSUME NEW s \in Session, NEW r, NEW status \in BridgeStatus
  PROVE  FailBridge(s, r, status) \in Session
BY DEF FailBridge, Session

\* The merge that preserveQueuedLocalRuntimeBridge makes of two sessions is a session.
LEMMA PreservedType ==
  ASSUME NEW next \in Session, NEW old \in Session
  PROVE  Preserved(next, old) \in Session
BY DEF Preserved, Session

LEMMA FinalizedType ==
  ASSUME NEW s \in Session, NEW q
  PROVE  Finalized(s, q) \in Session
<1>1. \A t \in Session : [t EXCEPT !.failed = TRUE] \in Session
  BY DEF Session
<1>2. Clear(s, "IDLE") \in Session /\ Clear(s, "ERROR") \in Session
  BY ClearType DEF Status
<1> QED
  BY <1>1, <1>2, RespondedType DEF Finalized

LEMMA TypingResetType ==
  ASSUME NEW s \in Session
  PROVE  TypingReset(s) \in Session
BY DEF TypingReset, Clear, Session, Status

LEMMA StaleRecoveredType ==
  ASSUME NEW s \in Session
  PROVE  StaleRecovered(s) \in Session
<1>1. Finalized(FailBridge(s, s.active, "ERROR"), s.active) \in Session
  BY FinalizedType, FailBridgeType DEF BridgeStatus
<1>2. \A t \in Session : [t EXCEPT !.status = "WAITING", !.url = FALSE] \in Session
  BY DEF Session, Status
<1> QED
  BY <1>1, <1>2 DEF StaleRecovered

LEMMA OfflineRecoveredType ==
  ASSUME NEW s \in Session
  PROVE  OfflineRecovered(s) \in Session
BY DEF OfflineRecovered, Session, BridgeStatus

\* recoverPersistedRuntimeSession.
LEMMA RecoveredType ==
  ASSUME NEW s \in Session, NEW quiet, NEW aged
  PROVE  Recovered(s, quiet, aged) \in Session
BY FinalizedType, StaleRecoveredType, TypingResetType, OfflineRecoveredType
   DEF Recovered, Session

LEMMA InspectedType ==
  ASSUME NEW s \in Session, NEW quiet
  PROVE  Inspected(s, quiet) \in Session
BY DEF Inspected, Session, Status

LEMMA ScopedType ==
  ASSUME NEW s \in Session, NEW r, NEW updated \in Session
  PROVE  Scoped(s, r, updated) \in Session
BY DEF Scoped, Session

LEMMA TypingType ==
  ASSUME NEW s \in Session, NEW r \in Requests
  PROVE  Typing(s, r) \in Session
BY DEF Typing, Session, Status

LEMMA ConnectedType ==
  ASSUME NEW s \in Session
  PROVE  Connected(s) \in Session
BY DEF Connected, Session, Status

LEMMA HandedOutType ==
  ASSUME NEW s \in Session, Pending(s) # {}
  PROVE  HandedOut(s) \in Session /\ FirstPending(s) \in Requests
<1>1. FirstPending(s) \in Requests
  BY FirstOne DEF FirstPending, Pending
<1> QED
  BY <1>1 DEF HandedOut, Session, Status, BridgeStatus

LEMMA CompletedType ==
  ASSUME NEW s \in Session, NEW q, NEW status \in BridgeStatus
  PROVE  Completed(s, q, status) \in Session
<1> DEFINE done == [s EXCEPT !.bridge[q] = status, !.settled = @ \ {q}]
<1>1. done \in Session
  BY DEF Session
<1>2. \A t \in Session, b \in BOOLEAN : [t EXCEPT !.failed = @ \/ b] \in Session
  BY DEF Session
<1>3. Finalized(done, q) \in Session
  BY <1>1, FinalizedType
<1>4. \/ Completed(s, q, status) = Finalized(done, q)
      \/ Completed(s, q, status) = [done EXCEPT !.failed = @ \/ (status = "ERROR")]
  BY DEF Completed
<1> HIDE DEF done
<1> QED
  BY <1>1, <1>2, <1>3, <1>4
-------------------------------------------------------------------------------
(***************************************************************************)
(* What a step has to show.                                                *)
(***************************************************************************)
LEMMA CallTypes == /\ Free \notin Call
                   /\ TypeOK => \A c \in Calls : call[c] # Free => call[c] \in Call
BY DEF Free, Call, Ops, TypeOK

\* A handler that is overtaken goes on as before.
LEMMA OvertakenKeeps ==
  ASSUME TypeOK, NEW d \in Calls
  PROVE  /\ call[d] = Free => Overtaken(d) = Free
         /\ call[d] # Free => /\ Overtaken(d) \in Call /\ ~ Overtaken(d).alone
                             /\ Overtaken(d).op = call[d].op /\ Overtaken(d).req = call[d].req
                             /\ Overtaken(d).next = call[d].next
<1>1. \A x \in Call : LET y == [x EXCEPT !.alone = FALSE]
                      IN  y \in Call /\ ~ y.alone /\ y.op = x.op /\ y.req = x.req /\ y.next = x.next
  BY DEF Call
<1> QED
  BY <1>1, CallTypes DEF Overtaken

\* Neither a send begins nor does anybody start to wait: what remains of the invariant.
Quietly ==
  /\ sent' = sent
  /\ \A c \in Calls : Sending(c)' => Sending(c) /\ call'[c].req = call[c].req
  /\ \A r \in Requests : waiter'[r].at = "none" <=> waiter[r].at = "none"

LEMMA QuietStep ==
  ASSUME WaitersOK, TypeOK', TrackedWaits', Quietly
  PROVE  WaitersOK'
<1>1. OneWaiter'
  BY DEF WaitersOK, OneWaiter, Quietly
<1>2. Untouched'
  BY DEF WaitersOK, Untouched, Quietly
<1> QED
  BY <1>1, <1>2 DEF WaitersOK

\* A handler other than a send reads the session.
LEMMA BeginKeeps ==
  ASSUME TypeOK, NEW c \in Calls, NEW op \in Ops \ {"send", "recoverFirst"},
         NEW r \in Requests \cup {NoRequest}, NEW next \in Session, NEW heard \in BOOLEAN,
         BeginHeard(c, op, r, next, heard)
  PROVE  /\ call' \in [Calls -> Call \cup {Free}]
         /\ \A d \in Calls : Sending(d)' => Sending(d) /\ call'[d].req = call[d].req
<1> DEFINE x == [op |-> op, req |-> r, heard |-> heard, alone |-> TRUE, next |-> next]
<1>1. x \in Call /\ x.op = op
  BY DEF Call
<1> HIDE DEF x
<1>2. call' = [call EXCEPT ![c] = x]
  BY DEF BeginHeard, x
<1> QED
  BY <1>1, <1>2 DEF TypeOK, Sending

LEMMA BeginStep ==
  ASSUME WaitersOK, NEW c \in Calls, NEW op \in Ops \ {"send", "recoverFirst"},
         NEW r \in Requests \cup {NoRequest}, NEW next \in Session, NEW heard \in BOOLEAN,
         BeginHeard(c, op, r, next, heard),
         UNCHANGED <<sess, waiter, sent>>, tracked' \subseteq tracked, runner' \in Runner
  PROVE  WaitersOK'
<1>1. TypeOK'
  BY BeginKeeps DEF WaitersOK, TypeOK
<1>2. TrackedWaits'
  BY DEF WaitersOK, TrackedWaits
<1>3. Quietly
  BY BeginKeeps DEF WaitersOK, Quietly
<1> QED
  BY <1>1, <1>2, <1>3, QuietStep

\* The waiter of r takes a step.
LEMMA WaiterStepKeeps ==
  ASSUME WaitersOK, NEW r \in Requests, NEW w \in Waiter, waiter' = [waiter EXCEPT ![r] = w],
         w.at # "none", waiter[r].at # "none",
         call' = call \/ call' = [d \in Calls |-> Overtaken(d)],
         UNCHANGED <<runner, sent>>, sess' \in Session,
         \/ tracked' = tracked \ {r}
         \/ tracked' \subseteq tracked \cup {r} /\ w.at \in {"enqueue", "poll"}
  PROVE  WaitersOK'
<1>0. /\ call' \in [Calls -> Call \cup {Free}]
      /\ \A d \in Calls : Sending(d)' => Sending(d) /\ call'[d].req = call[d].req
  BY OvertakenKeeps DEF WaitersOK, TypeOK, Sending
<1>1. TypeOK'
  BY <1>0 DEF WaitersOK, TypeOK
<1>2. TrackedWaits'
  BY DEF WaitersOK, TrackedWaits, TypeOK
<1>3. Quietly
  BY <1>0 DEF WaitersOK, Quietly, TypeOK
<1> QED
  BY <1>1, <1>2, <1>3, QuietStep

LEMMA WaitsType ==
  ASSUME TypeOK, NEW r \in Requests, NEW step \in WaiterSteps, Waits(r, step)
  PROVE  \E w \in Waiter : w.at = step /\ waiter' = [waiter EXCEPT ![r] = w]
<1>1. Unsent(step) \in Waiter /\ Unsent(step).at = step
  BY LaunchedType DEF Unsent, Waiter
<1>2. [waiter[r] EXCEPT !.at = step] \in Waiter /\ [waiter[r] EXCEPT !.at = step].at = step
  BY DEF TypeOK, Waiter
<1> QED
  BY <1>1, <1>2 DEF Waits

LEMMA InitInv == Init => WaitersOK
<1> SUFFICES ASSUME Init PROVE WaitersOK
  OBVIOUS
<1>1. Unsent("none") \in Waiter /\ Off \in Runner /\ Launched \in Session
  BY LaunchedType DEF Unsent, Waiter, WaiterSteps, Off, Runner
<1>2. TypeOK
  BY <1>1, RequestNumbers DEF Init, TypeOK
<1>3. TrackedWaits /\ OneWaiter /\ Untouched
  BY DEF Init, TrackedWaits, OneWaiter, Untouched, Sending, Unsent
<1> QED
  BY <1>2, <1>3 DEF WaitersOK
-------------------------------------------------------------------------------
(***************************************************************************)
(* The readers and the handlers of the user.                               *)
(***************************************************************************)
LEMMA RefreshInv ==
  ASSUME WaitersOK, NEW c \in Calls, Refresh(c)
  PROVE  WaitersOK'
<1>1. PICK quiet, aged \in BOOLEAN :
        Begin(c, "refresh", NoRequest, Recovered(Inspected(sess, quiet), quiet, aged))
  BY DEF Refresh
<1>2. Recovered(Inspected(sess, quiet), quiet, aged) \in Session
  BY InspectedType, RecoveredType DEF WaitersOK, TypeOK
<1>3. UNCHANGED <<sess, waiter, sent>> /\ tracked' \subseteq tracked /\ runner' \in Runner
  BY DEF Refresh, WaitersOK, TypeOK
<1> QED
  BY <1>1, <1>2, <1>3, BeginStep DEF Begin, Ops

LEMMA RecoverOnReadInv ==
  ASSUME WaitersOK, NEW c \in Calls, RecoverOnRead(c)
  PROVE  WaitersOK'
<1>1. PICK quiet, aged \in BOOLEAN :
        Begin(c, "recover", NoRequest, Recovered(sess, quiet, aged))
  BY DEF RecoverOnRead
<1>2. Recovered(sess, quiet, aged) \in Session
  BY RecoveredType DEF WaitersOK, TypeOK
<1>3. UNCHANGED <<sess, waiter, sent>> /\ tracked' \subseteq tracked /\ runner' \in Runner
  BY DEF RecoverOnRead, WaitersOK, TypeOK
<1> QED
  BY <1>1, <1>2, <1>3, BeginStep DEF Begin, Ops

\* The send lock: no other send is on the way, and the new message is untouched.
LEMMA SendInv ==
  ASSUME WaitersOK, NEW c \in Calls, Send(c)
  PROVE  WaitersOK'
<1>1. PICK quiet, aged \in BOOLEAN :
        IF Recovered(sess, quiet, aged) # sess
        THEN Begin(c, "recoverFirst", sent + 1, Recovered(sess, quiet, aged))
        ELSE Begin(c, "send", sent + 1, Typing(Recovered(sess, quiet, aged), sent + 1))
  BY DEF Send
<1>2. /\ sent < MaxMessages /\ sent' = sent + 1 /\ sent \in Nat
      /\ UNCHANGED <<sess, waiter, tracked, runner>>
      /\ \A d \in Calls : ~ Sending(d)
  BY RequestNumbers DEF Send, Sending, WaitersOK, TypeOK
<1>3. sent + 1 \in Requests /\ sent' \in 0 .. MaxMessages
  BY <1>2, RequestNumbers DEF Requests
<1>4. Recovered(sess, quiet, aged) \in Session
  BY RecoveredType DEF WaitersOK, TypeOK
<1>5. Typing(Recovered(sess, quiet, aged), sent + 1) \in Session
  BY <1>3, <1>4, TypingType
<1>6. \E x \in Call : /\ call' = [call EXCEPT ![c] = x] /\ x.req = sent + 1
  <2>1. PICK op \in Ops, next \in Session : Begin(c, op, sent + 1, next)
    BY <1>1, <1>4, <1>5 DEF Ops
  <2>2. [op |-> op, req |-> sent + 1, heard |-> FALSE, alone |-> TRUE, next |-> next] \in Call
    BY <1>3 DEF Call
  <2> QED
    BY <2>1, <2>2 DEF Begin, BeginHeard
<1>7. TypeOK'
  BY <1>2, <1>3, <1>6 DEF WaitersOK, TypeOK
<1>8. TrackedWaits'
  BY <1>2 DEF WaitersOK, TrackedWaits
<1>9. OneWaiter'
  <2>1. waiter[sent + 1].at = "none"
    BY <1>2, <1>3 DEF WaitersOK, Untouched
  <2>2. \A d \in Calls : d # c => ~ Sending(d)'
    BY <1>2, <1>6 DEF Sending, WaitersOK, TypeOK
  <2>3. call'[c].req = sent + 1
    BY <1>6 DEF WaitersOK, TypeOK
  <2> QED
    BY <1>2, <1>3, <2>1, <2>2, <2>3 DEF OneWaiter
<1>10. Untouched'
  BY <1>2, RequestNumbers DEF WaitersOK, Untouched
<1> QED
  BY <1>7, <1>8, <1>9, <1>10 DEF WaitersOK

LEMMA CancelInv ==
  ASSUME WaitersOK, NEW c \in Calls, Cancel(c)
  PROVE  WaitersOK'
<1> DEFINE next == [Clear(FailBridge(sess, sess.active, "ERROR"), "IDLE") EXCEPT !.failed = TRUE]
<1>1. Clear(FailBridge(sess, sess.active, "ERROR"), "IDLE") \in Session
  BY ClearType, FailBridgeType DEF WaitersOK, TypeOK, Status, BridgeStatus
<1>2. next \in Session
  BY <1>1 DEF Session
<1>3. /\ Begin(c, "cancel", NoRequest, next) /\ UNCHANGED <<sess, waiter, sent>>
      /\ tracked' \subseteq tracked /\ runner' \in Runner
  BY DEF Cancel, WaitersOK, TypeOK
<1> HIDE DEF next
<1> QED
  BY <1>2, <1>3, BeginStep DEF Begin, Ops

LEMMA ReconnectInv ==
  ASSUME WaitersOK, NEW c \in Calls, Reconnect(c)
  PROVE  WaitersOK'
<1> DEFINE next == [Clear(FailOpen(sess), "WAITING") EXCEPT !.url = FALSE, !.job = TRUE,
                                                            !.failed = FALSE]
<1>1. Clear(FailOpen(sess), "WAITING") \in Session
  BY ClearType, FailOpenType DEF WaitersOK, TypeOK, Status
<1>2. next \in Session
  BY <1>1 DEF Session
<1>3. /\ Begin(c, "reconnect", NoRequest, next) /\ UNCHANGED <<sess, waiter, sent>>
      /\ tracked' \subseteq tracked /\ runner' \in Runner
  BY DEF Reconnect, WaitersOK, TypeOK
<1> HIDE DEF next
<1> QED
  BY <1>2, <1>3, BeginStep DEF Begin, Ops
-------------------------------------------------------------------------------
(***************************************************************************)
(* The waiter.                                                             *)
(***************************************************************************)
LEMMA BeatInv ==
  ASSUME WaitersOK, NEW c \in Calls, NEW r \in Requests, Beat(c, r)
  PROVE  WaitersOK'
<1>1. /\ sess \in Session /\ Begin(c, "beat", r, sess) /\ UNCHANGED <<sess, waiter, sent>>
      /\ tracked' \subseteq tracked /\ runner' \in Runner
  BY DEF Beat, WaitersOK, TypeOK
<1> QED
  BY <1>1, BeginStep DEF Begin, Ops

LEMMA TrackActiveMessageInv ==
  ASSUME WaitersOK, NEW r \in Requests, TrackActiveMessage(r)
  PROVE  WaitersOK'
<1>1. PICK w \in Waiter : w.at = "enqueue" /\ waiter' = [waiter EXCEPT ![r] = w]
  BY WaitsType DEF TrackActiveMessage, WaitersOK, WaiterSteps
<1> QED
  BY <1>1, WaiterStepKeeps DEF TrackActiveMessage, WaitersOK, TypeOK

LEMMA EnqueueInv ==
  ASSUME WaitersOK, NEW r \in Requests, Enqueue(r)
  PROVE  WaitersOK'
<1> DEFINE queued == [waiter[r].snap EXCEPT !.bridge[r] = "PENDING"]
<1>1. PICK w \in Waiter : w.at = "poll" /\ waiter' = [waiter EXCEPT ![r] = w]
  BY WaitsType DEF Enqueue, WaitersOK, WaiterSteps
<1>2. waiter[r].snap \in Session
  BY DEF WaitersOK, TypeOK, Waiter
<1>3. queued \in Session
  BY <1>2 DEF Session, BridgeStatus
<1>4. sess' \in Session
  <2>1. sess' = Preserved(queued, sess)
    BY DEF Enqueue
  <2> QED
    BY <1>3, <2>1, PreservedType DEF WaitersOK, TypeOK
<1>5. /\ waiter[r].at = "enqueue" /\ call' = [d \in Calls |-> Overtaken(d)]
      /\ UNCHANGED <<tracked, runner, sent>>
  BY DEF Enqueue
<1> HIDE DEF queued
<1> QED
  BY <1>1, <1>4, <1>5, WaiterStepKeeps

LEMMA PrepareFailsInv ==
  ASSUME WaitersOK, NEW r \in Requests, PrepareFails(r)
  PROVE  WaitersOK'
<1>1. PICK w \in Waiter : w.at = "fail" /\ waiter' = [waiter EXCEPT ![r] = w]
  BY WaitsType DEF PrepareFails, WaitersOK, WaiterSteps
<1> QED
  BY <1>1, WaiterStepKeeps DEF PrepareFails, WaitersOK, TypeOK

LEMMA PollInv ==
  ASSUME WaitersOK, NEW r \in Requests, Poll(r)
  PROVE  WaitersOK'
<1>1. \E step \in {"fail", "timedout", "finish"} : Waits(r, step)
  BY DEF Poll
<1>2. PICK w \in Waiter : /\ w.at \in {"fail", "timedout", "finish"}
                          /\ waiter' = [waiter EXCEPT ![r] = w]
  BY <1>1, WaitsType DEF WaitersOK, WaiterSteps
<1>3. /\ waiter[r].at = "poll" /\ tracked' = tracked \ {r}
      /\ UNCHANGED <<sess, call, runner, sent>>
  BY DEF Poll
<1> QED
  BY <1>2, <1>3, WaiterStepKeeps DEF WaitersOK, TypeOK

LEMMA DeadlineInv ==
  ASSUME WaitersOK, NEW r \in Requests, Deadline(r)
  PROVE  WaitersOK'
<1>1. PICK w \in Waiter : w.at = "timedout" /\ waiter' = [waiter EXCEPT ![r] = w]
  BY WaitsType DEF Deadline, WaitersOK, WaiterSteps
<1> QED
  BY <1>1, WaiterStepKeeps DEF Deadline, WaitersOK, TypeOK

\* The last step of a waiter, which no longer is tracked: whether it writes or not.
LEMMA WaiterEnds ==
  ASSUME WaitersOK, NEW r \in Requests, waiter[r].at \in {"finish", "fail", "timedout"},
         Waits(r, "done"), UNCHANGED <<sess, tracked, runner, sent>>,
         \/ UNCHANGED call
         \/ \E c \in Calls, next \in Session : Begin(c, "settle", r, next)
  PROVE  WaitersOK'
<1>1. PICK w \in Waiter : w.at = "done" /\ waiter' = [waiter EXCEPT ![r] = w]
  BY WaitsType DEF WaitersOK, WaiterSteps
<1>2. /\ call' \in [Calls -> Call \cup {Free}]
      /\ \A d \in Calls : Sending(d)' => Sending(d) /\ call'[d].req = call[d].req
  <2>1. CASE UNCHANGED call
    BY <2>1 DEF WaitersOK, TypeOK, Sending
  <2>2. ASSUME NEW c \in Calls, NEW next \in Session, Begin(c, "settle", r, next)
        PROVE  /\ call' \in [Calls -> Call \cup {Free}]
               /\ \A d \in Calls : Sending(d)' => Sending(d) /\ call'[d].req = call[d].req
    BY <2>2, BeginKeeps DEF Begin, Ops, WaitersOK
  <2> QED
    BY <2>1, <2>2
<1>3. TypeOK'
  BY <1>1, <1>2 DEF WaitersOK, TypeOK
<1>4. TrackedWaits'
  BY <1>1 DEF WaitersOK, TypeOK, TrackedWaits
<1>5. Quietly
  BY <1>1, <1>2 DEF WaitersOK, TypeOK, Quietly
<1> QED
  BY <1>3, <1>4, <1>5, QuietStep

LEMMA FinishInv ==
  ASSUME WaitersOK, NEW c \in Calls, NEW r \in Requests, Finish(c, r)
  PROVE  WaitersOK'
<1> DEFINE over == [Responded(Clear(sess, "IDLE")) EXCEPT !.newest = r]
<1>1. Responded(Clear(sess, "IDLE")) \in Session
  BY RespondedType, ClearType DEF WaitersOK, TypeOK, Status
<1>2. over \in Session
  BY <1>1 DEF Session
<1>3. Scoped(sess, r, over) \in Session /\ Begin(c, "settle", r, Scoped(sess, r, over))
  BY <1>2, ScopedType DEF Finish, WaitersOK, TypeOK
<1>4. \E next \in Session : Begin(c, "settle", r, next)
  BY <1>3
<1> QED
  BY <1>4, WaiterEnds DEF Finish

LEMMA FailInv ==
  ASSUME WaitersOK, NEW c \in Calls, NEW r \in Requests, Fail(c, r)
  PROVE  WaitersOK'
<1> DEFINE late == waiter[r].at = "timedout"
           base == FailBridge(sess, r, IF late THEN "TIMEOUT" ELSE "ERROR")
           over == [Clear(base, IF late THEN "IDLE" ELSE "ERROR") EXCEPT !.newest = r,
                                                                         !.failed = TRUE]
           answered == [Responded(Clear(base, "IDLE")) EXCEPT !.newest = r]
<1>1. base \in Session
  BY FailBridgeType DEF WaitersOK, TypeOK, BridgeStatus
<1>2. over \in Session
  <2>1. Clear(base, IF late THEN "IDLE" ELSE "ERROR") \in Session
    BY <1>1, ClearType DEF Status
  <2> HIDE DEF base, late
  <2> QED
    BY <2>1 DEF Session
<1>3. answered \in Session
  <2>1. Responded(Clear(base, "IDLE")) \in Session
    BY <1>1, ClearType, RespondedType DEF Status
  <2> HIDE DEF base
  <2> QED
    BY <2>1 DEF Session
<1>4. \/ UNCHANGED call
      \/ Begin(c, "settle", r, Scoped(base, r, over))
      \/ Begin(c, "settle", r, Scoped(base, r, answered))
  BY DEF Fail
<1>5. \/ UNCHANGED call
      \/ \E next \in Session : Begin(c, "settle", r, next)
  <2> HIDE DEF base, over, answered
  <2> QED
    BY <1>1, <1>2, <1>3, <1>4, ScopedType
<1>6. /\ waiter[r].at \in {"fail", "timedout"} /\ Waits(r, "done")
      /\ UNCHANGED <<sess, tracked, runner, sent>>
  BY DEF Fail
<1> HIDE DEF base, over, answered, late
<1> QED
  BY <1>5, <1>6, WaiterEnds
-------------------------------------------------------------------------------
(***************************************************************************)
(* The runner, its calls and the network.                                  *)
(***************************************************************************)
LEMMA RunnerTypes ==
  ASSUME TypeOK
  PROVE  /\ Off \in Runner /\ AfterFailure \in Runner
         /\ [at |-> "poll", req |-> NoRequest] \in Runner
         /\ \A step \in {"claiming", "starting", "connecting", "leaving", "asking",
                         "completing", "failing"} : [runner EXCEPT !.at = step] \in Runner
BY DEF TypeOK, Off, Runner, AfterFailure

LEMMA ClaimInv ==
  ASSUME WaitersOK, NEW c \in Calls, Claim(c)
  PROVE  WaitersOK'
<1> DEFINE next == [sess EXCEPT !.status = "STARTING", !.url = FALSE, !.job = TRUE]
<1>1. next \in Session
  BY DEF WaitersOK, TypeOK, Session, Status
<1>2. PICK heard \in BOOLEAN : BeginHeard(c, "claim", NoRequest, next, heard)
  BY DEF Claim
<1>3. UNCHANGED <<sess, waiter, sent>> /\ tracked' \subseteq tracked /\ runner' \in Runner
  BY RunnerTypes DEF Claim, Goes, WaitersOK, TypeOK
<1> HIDE DEF next
<1> QED
  BY <1>1, <1>2, <1>3, BeginStep DEF Ops

LEMMA ConnectInv ==
  ASSUME WaitersOK, NEW c \in Calls, Connect(c)
  PROVE  WaitersOK'
<1>1. /\ [sess EXCEPT !.status = "IDLE", !.url = TRUE, !.job = FALSE, !.failed = FALSE] \in Session
      /\ [sess EXCEPT !.status = "ERROR", !.job = FALSE, !.failed = TRUE] \in Session
  BY DEF WaitersOK, TypeOK, Session, Status
<1>2. PICK next \in Session : BeginHeard(c, "connect", NoRequest, next, TRUE)
  BY <1>1 DEF Connect
<1>3. UNCHANGED <<sess, waiter, sent>> /\ tracked' \subseteq tracked /\ runner' \in Runner
  BY RunnerTypes DEF Connect, Goes, WaitersOK, TypeOK
<1> QED
  BY <1>2, <1>3, BeginStep DEF Ops

LEMMA NextRequestInv ==
  ASSUME WaitersOK, NEW c \in Calls, NextRequest(c)
  PROVE  WaitersOK'
<1>1. PICK op \in {"heartbeat", "hand"}, r \in Requests \cup {NoRequest}, next \in Session :
        BeginHeard(c, op, r, next, TRUE)
  BY ConnectedType, HandedOutType DEF NextRequest, WaitersOK, TypeOK
<1>2. UNCHANGED <<sess, waiter, sent>> /\ tracked' \subseteq tracked /\ runner' \in Runner
  BY RunnerTypes DEF NextRequest, Goes, WaitersOK, TypeOK
<1> QED
  BY <1>1, <1>2, BeginStep DEF Ops

LEMMA ProgressInv ==
  ASSUME WaitersOK, NEW c \in Calls, Progress(c)
  PROVE  WaitersOK'
<1> DEFINE q == runner.req
           shown == [sess EXCEPT !.status = "TYPING", !.active = q, !.bridge[q] = "RUNNING"]
<1>1. q \in Requests \cup {NoRequest}
  BY DEF WaitersOK, TypeOK, Runner
<1>2. shown \in Session
  BY <1>1 DEF WaitersOK, TypeOK, Session, Status, BridgeStatus
<1>3. Begin(c, "progress", q, Scoped(sess, q, shown))
  BY DEF Progress
<1>4. UNCHANGED <<sess, waiter, sent>> /\ tracked' \subseteq tracked /\ runner' \in Runner
  BY DEF Progress, WaitersOK, TypeOK
<1>5. Scoped(sess, q, shown) \in Session
  BY <1>2, ScopedType DEF WaitersOK, TypeOK
<1> HIDE DEF shown, q
<1> QED
  BY <1>1, <1>3, <1>4, <1>5, BeginStep DEF Begin, Ops

LEMMA CompleteInv ==
  ASSUME WaitersOK, NEW c \in Calls, Complete(c)
  PROVE  WaitersOK'
<1>1. runner.req \in Requests \cup {NoRequest}
  BY DEF WaitersOK, TypeOK, Runner
<1>2. \A status \in {"COMPLETED", "ERROR"} : Completed(sess, runner.req, status) \in Session
  BY CompletedType DEF WaitersOK, TypeOK, BridgeStatus
<1>3. PICK next \in Session : BeginHeard(c, "complete", runner.req, next, TRUE)
  BY <1>2 DEF Complete
<1>4. UNCHANGED <<sess, waiter, sent>> /\ tracked' \subseteq tracked /\ runner' \in Runner
  BY RunnerTypes DEF Complete, Goes, WaitersOK, TypeOK
<1> QED
  BY <1>1, <1>3, <1>4, BeginStep DEF Ops

\* The API goes on with what a runner asked for that does not wait any more.
LEMMA UnheardKeeps ==
  ASSUME TypeOK
  PROVE  /\ Unheard \in [Calls -> Call \cup {Free}]
         /\ \A c \in Calls : call[c] # Free =>
              Unheard[c] \in Call /\ Unheard[c].op = call[c].op /\ Unheard[c].req = call[c].req
         /\ \A c \in Calls : call[c] = Free => Unheard[c] = Free
<1>1. \A x \in Call : /\ [x EXCEPT !.heard = FALSE] \in Call
                      /\ [x EXCEPT !.heard = FALSE].op = x.op
                      /\ [x EXCEPT !.heard = FALSE].req = x.req
  BY DEF Call
<1> QED
  BY <1>1, CallTypes DEF Unheard

LEMMA DisconnectInv ==
  ASSUME WaitersOK, NEW c \in Calls, Disconnect(c)
  PROVE  WaitersOK'
<1> DEFINE gone == [FailOpen(sess) EXCEPT !.status = "WAITING", !.url = FALSE, !.failed = TRUE]
           x == [op |-> "disconnect", req |-> NoRequest, heard |-> FALSE,
                 alone |-> TRUE, next |-> OfflineRecovered(gone)]
<1>1. gone \in Session
  BY FailOpenType DEF WaitersOK, TypeOK, Session, Status
<1>2. x \in Call /\ x.op = "disconnect"
  BY <1>1, OfflineRecoveredType DEF Call, Ops
<1>3. /\ call' = [Unheard EXCEPT ![c] = x] /\ runner' = Off
      /\ UNCHANGED <<sess, waiter, tracked, sent>>
  BY DEF Disconnect
<1> HIDE DEF x, gone
<1>4. TypeOK'
  BY <1>2, <1>3, UnheardKeeps, RunnerTypes DEF WaitersOK, TypeOK
<1>5. \A d \in Calls : Sending(d)' => Sending(d) /\ call'[d].req = call[d].req
  <2> TAKE d \in Calls
  <2>1. CASE d = c
    BY <2>1, <1>2, <1>3, UnheardKeeps DEF Sending, WaitersOK
  <2>2. CASE d # c
    BY <2>2, <1>3, UnheardKeeps DEF Sending, WaitersOK
  <2> QED
    BY <2>1, <2>2
<1>6. TrackedWaits' /\ Quietly
  BY <1>3, <1>5 DEF WaitersOK, TrackedWaits, Quietly
<1> QED
  BY <1>4, <1>6, QuietStep

LEMMA KilledInv ==
  ASSUME WaitersOK, Killed
  PROVE  WaitersOK'
<1>1. call' = Unheard /\ runner' = Off /\ UNCHANGED <<sess, waiter, tracked, sent>>
  BY DEF Killed
<1>2. TypeOK'
  BY <1>1, UnheardKeeps, RunnerTypes DEF WaitersOK, TypeOK
<1>3. \A d \in Calls : Sending(d)' => Sending(d) /\ call'[d].req = call[d].req
  BY <1>1, UnheardKeeps DEF Sending, WaitersOK
<1>4. TrackedWaits' /\ Quietly
  BY <1>1, <1>3 DEF WaitersOK, TrackedWaits, Quietly
<1> QED
  BY <1>2, <1>4, QuietStep

LEMMA AnswerLostInv ==
  ASSUME WaitersOK, NEW c \in Calls, AnswerLost(c)
  PROVE  WaitersOK'
<1>1. /\ call[c] \in Call /\ call' = [call EXCEPT ![c].heard = FALSE]
      /\ runner' \in Runner /\ UNCHANGED <<sess, waiter, tracked, sent>>
  BY RunnerTypes, CallTypes DEF AnswerLost, WaitersOK
<1>2. PICK x \in Call : x.op = call[c].op /\ x.req = call[c].req /\ call' = [call EXCEPT ![c] = x]
  <2>1. /\ [call[c] EXCEPT !.heard = FALSE] \in Call
        /\ [call[c] EXCEPT !.heard = FALSE].op = call[c].op
        /\ [call[c] EXCEPT !.heard = FALSE].req = call[c].req
    BY <1>1 DEF Call
  <2> QED
    BY <1>1, <2>1
<1>3. TypeOK'
  BY <1>1, <1>2 DEF WaitersOK, TypeOK
<1>4. \A d \in Calls : Sending(d)' => Sending(d) /\ call'[d].req = call[d].req
  BY <1>1, <1>2, CallTypes DEF Sending, WaitersOK, TypeOK
<1>5. TrackedWaits' /\ Quietly
  BY <1>1, <1>4 DEF WaitersOK, TrackedWaits, Quietly
<1> QED
  BY <1>3, <1>5, QuietStep

LEMMA CallFailsInv ==
  ASSUME WaitersOK, CallFails
  PROVE  WaitersOK'
<1>1. runner' \in Runner /\ UNCHANGED <<sess, call, waiter, tracked, sent>>
  BY RunnerTypes DEF CallFails, WaitersOK
<1>2. TypeOK' /\ TrackedWaits' /\ Quietly
  BY <1>1 DEF WaitersOK, TypeOK, TrackedWaits, Quietly, Sending
<1> QED
  BY <1>2, QuietStep

\* A restart frees every handler and ends every waiter.
LEMMA CrashInv ==
  ASSUME WaitersOK, Crash
  PROVE  WaitersOK'
<1>1. Unsent("done") \in Waiter /\ Unsent("done").at = "done"
  BY LaunchedType DEF Unsent, Waiter, WaiterSteps
<1>2. TypeOK'
  BY <1>1, RunnerTypes DEF Crash, WaitersOK, TypeOK
<1>3. \A c \in Calls : ~ Sending(c)'
  BY DEF Crash, Sending
<1>4. \A r \in Requests : waiter'[r].at = "none" <=> waiter[r].at = "none"
  BY <1>1 DEF Crash
<1>5. TrackedWaits' /\ Quietly
  BY <1>3, <1>4 DEF Crash, TrackedWaits, Quietly
<1> QED
  BY <1>2, <1>5, QuietStep
-------------------------------------------------------------------------------
(***************************************************************************)
(* The write.                                                              *)
(***************************************************************************)
LEMMA AnsweredType ==
  ASSUME TypeOK, NEW c \in Calls, call[c] # Free
  PROVE  Answered(c) \in Runner
<1>1. call[c].req \in Requests \cup {NoRequest}
  BY CallTypes DEF Call
<1> QED
  BY <1>1, RunnerTypes DEF Answered, Runner, TypeOK

\* The handler goes on to a second write; a send stays the send of its message.
LEMMA SecondWrite ==
  ASSUME WaitersOK, NEW c \in Calls, NEW x \in Call, Overtakes(c, x),
         x.op \in {"send", "recoverFirst"} => Sending(c) /\ x.req = call[c].req,
         sess' \in Session, UNCHANGED <<waiter, tracked, runner, sent>>
  PROVE  WaitersOK'
<1>1. TypeOK' /\ TrackedWaits'
  BY OvertakenKeeps DEF WaitersOK, TypeOK, TrackedWaits, Overtakes
<1>2. Quietly
  BY OvertakenKeeps DEF WaitersOK, TypeOK, Quietly, Sending, Overtakes
<1> QED
  BY <1>1, <1>2, QuietStep

\* The handler returns; when it was a send, its message gets the only waiter.
LEMMA LastWrite ==
  ASSUME WaitersOK, NEW c \in Calls, call[c] # Free, Overtakes(c, Free),
         NEW w \in Waiter, w.at = "prompt",
         waiter' = IF call[c].op = "send" THEN [waiter EXCEPT ![call[c].req] = w] ELSE waiter,
         runner' \in Runner, sess' \in Session, UNCHANGED <<tracked, sent>>
  PROVE  WaitersOK'
<1>1. TypeOK'
  BY OvertakenKeeps DEF WaitersOK, TypeOK, Overtakes
<1>2. \A d \in Calls : Sending(d)' => d # c /\ Sending(d) /\ call'[d].req = call[d].req
  BY OvertakenKeeps DEF WaitersOK, TypeOK, Sending, Overtakes
<1>3. CASE call[c].op # "send"
  <2>1. TrackedWaits' /\ Quietly
    BY <1>2, <1>3 DEF WaitersOK, TrackedWaits, Quietly
  <2> QED
    BY <1>1, <2>1, QuietStep
<1>4. CASE call[c].op = "send"
  <2>1. /\ Sending(c) /\ call[c].req \in Requests /\ call[c].req = sent
        /\ waiter[call[c].req].at = "none"
        /\ \A d \in Calls : Sending(d) => d = c
    BY <1>4 DEF Sending, WaitersOK, OneWaiter
  <2>2. waiter' = [waiter EXCEPT ![call[c].req] = w]
    BY <1>4
  <2>3. TrackedWaits'
    BY <2>1, <2>2 DEF WaitersOK, TypeOK, TrackedWaits
  <2>4. OneWaiter'
    BY <1>2, <2>1 DEF OneWaiter
  <2>5. Untouched'
    BY <2>1, <2>2, RequestNumbers DEF WaitersOK, TypeOK, Untouched
  <2> QED
    BY <1>1, <2>3, <2>4, <2>5 DEF WaitersOK
<1> QED
  BY <1>3, <1>4

LEMMA WriteInv ==
  ASSUME WaitersOK, NEW c \in Calls, Write(c)
  PROVE  WaitersOK'
<1>1. /\ call[c] # Free /\ call[c] \in Call /\ call[c].next \in Session
      /\ call[c].op \in Ops /\ call[c].req \in Requests \cup {NoRequest}
  BY CallTypes DEF Write, WaitersOK, Call
<1>2. sess' \in Session /\ UNCHANGED <<tracked, sent>>
  BY <1>1, PreservedType DEF Write, WaitersOK, TypeOK
<1>3. CASE /\ call[c].op = "recoverFirst"
           /\ Overtakes(c, [call[c] EXCEPT !.op = "send",
                                           !.next = Typing(call[c].next, call[c].req)])
           /\ UNCHANGED <<waiter, runner>>
  <2> DEFINE next == Typing(call[c].next, call[c].req)
             x == [call[c] EXCEPT !.op = "send", !.next = next]
  <2>1. Sending(c) /\ call[c].req \in Requests
    BY <1>1, <1>3 DEF Sending, WaitersOK, OneWaiter
  <2>2. next \in Session
    BY <1>1, <2>1, TypingType
  <2>3. x \in Call /\ x.req = call[c].req
    <3> HIDE DEF next
    <3> QED
      BY <1>1, <2>2 DEF Call, Ops
  <2>4. Overtakes(c, x)
    BY <1>3
  <2>5. UNCHANGED <<waiter, tracked, runner, sent>>
    BY <1>2, <1>3
  <2> HIDE DEF x
  <2> QED
    BY <1>2, <2>1, <2>3, <2>4, <2>5, SecondWrite
<1>4. CASE /\ call[c].op = "heartbeat" /\ Pending(call[c].next) # {}
           /\ Overtakes(c, [call[c] EXCEPT !.op = "hand", !.req = FirstPending(call[c].next),
                                           !.next = HandedOut(call[c].next)])
           /\ UNCHANGED <<waiter, runner>>
  <2> DEFINE first == FirstPending(call[c].next)
             next == HandedOut(call[c].next)
             x == [call[c] EXCEPT !.op = "hand", !.req = first, !.next = next]
  <2>1. first \in Requests /\ next \in Session
    BY <1>1, <1>4, HandedOutType
  <2>2. x \in Call /\ x.op = "hand"
    <3> HIDE DEF next, first
    <3> QED
      BY <1>1, <2>1 DEF Call, Ops
  <2>3. Overtakes(c, x)
    BY <1>4
  <2>4. UNCHANGED <<waiter, tracked, runner, sent>>
    BY <1>2, <1>4
  <2> HIDE DEF x
  <2> QED
    BY <1>2, <2>2, <2>3, <2>4, SecondWrite
<1>5. CASE /\ Overtakes(c, Free)
           /\ runner' = Answered(c)
           /\ waiter' = IF call[c].op = "send"
                        THEN [waiter EXCEPT ![call[c].req] =
                                [at |-> "prompt", snap |-> call[c].next]]
                        ELSE waiter
  <2> DEFINE w == [at |-> "prompt", snap |-> call[c].next]
  <2>1. w \in Waiter /\ w.at = "prompt"
    BY <1>1 DEF Waiter, WaiterSteps
  <2>2. runner' \in Runner
    BY <1>1, <1>5, AnsweredType DEF WaitersOK
  <2>3. waiter' = IF call[c].op = "send" THEN [waiter EXCEPT ![call[c].req] = w] ELSE waiter
    BY <1>5
  <2> HIDE DEF w
  <2> QED
    BY <1>1, <1>2, <1>5, <2>1, <2>2, <2>3, LastWrite
<1> QED
  BY <1>3, <1>4, <1>5 DEF Write
-------------------------------------------------------------------------------
(***************************************************************************)
(* What the handlers make of a session: they enqueue nothing, and the       *)
(* active message stays or goes.                                           *)
(***************************************************************************)
Keeps(s, next) == /\ \A r \in Requests : s.bridge[r] = "NONE" => next.bridge[r] = "NONE"
                  /\ next.active \in {NoRequest, s.active}

LEMMA KeepsTransitive ==
  ASSUME NEW s, NEW t, NEW u, Keeps(s, t), Keeps(t, u)
  PROVE  Keeps(s, u)
BY DEF Keeps

\* A change of other fields.
LEMMA SameKeeps ==
  ASSUME NEW s, NEW t, t.bridge = s.bridge, t.active \in {NoRequest, s.active}
  PROVE  Keeps(s, t)
BY DEF Keeps

LEMMA ClearKeeps ==
  ASSUME NEW s \in Session, NEW status
  PROVE  Keeps(s, Clear(s, status))
BY DEF Keeps, Clear, Session

LEMMA RespondedKeeps ==
  ASSUME NEW s \in Session
  PROVE  Keeps(s, Responded(s))
BY DEF Keeps, Responded, Session

LEMMA FailOpenKeeps ==
  ASSUME NEW s \in Session
  PROVE  Keeps(s, FailOpen(s))
BY DEF Keeps, FailOpen, Session, Open

LEMMA FailBridgeKeeps ==
  ASSUME NEW s \in Session, NEW r, NEW status
  PROVE  Keeps(s, FailBridge(s, r, status))
BY DEF Keeps, FailBridge, Session

LEMMA FinalizedKeeps ==
  ASSUME NEW s \in Session, NEW q
  PROVE  Keeps(s, Finalized(s, q))
<1>1. \A t \in Session : Keeps(t, [t EXCEPT !.failed = TRUE])
  BY DEF Keeps, Session
<1>2. \A status \in Status : Clear(s, status) \in Session /\ Keeps(s, Clear(s, status))
  BY ClearType, ClearKeeps
<1>3. Keeps(Clear(s, "IDLE"), Responded(Clear(s, "IDLE")))
  BY <1>2, RespondedKeeps DEF Status
<1> QED
  BY <1>1, <1>2, <1>3, KeepsTransitive DEF Finalized, Status

LEMMA TypingResetKeeps ==
  ASSUME NEW s \in Session
  PROVE  Keeps(s, TypingReset(s))
BY DEF Keeps, TypingReset, Clear, Session

LEMMA StaleRecoveredKeeps ==
  ASSUME NEW s \in Session
  PROVE  Keeps(s, StaleRecovered(s))
<1> DEFINE t == FailBridge(s, s.active, "ERROR")
           u == Finalized(t, s.active)
<1>1. t \in Session /\ u \in Session
  BY FinalizedType, FailBridgeType DEF BridgeStatus
<1>2. Keeps(s, t) /\ Keeps(t, u)
  BY <1>1, FailBridgeKeeps, FinalizedKeeps
<1> HIDE DEF t, u
<1>3. Keeps(u, [u EXCEPT !.status = "WAITING", !.url = FALSE])
  BY <1>1 DEF Keeps, Session
<1> QED
  BY <1>2, <1>3, KeepsTransitive DEF StaleRecovered, t, u

LEMMA OfflineRecoveredKeeps ==
  ASSUME NEW s \in Session
  PROVE  Keeps(s, OfflineRecovered(s))
BY DEF Keeps, OfflineRecovered, Session, Open

LEMMA RecoveredKeeps ==
  ASSUME NEW s \in Session, NEW quiet, NEW aged
  PROVE  Keeps(s, Recovered(s, quiet, aged))
<1>1. Keeps(s, s) /\ Keeps(s, [s EXCEPT !.active = NoRequest])
  BY DEF Keeps, Session
<1> QED
  BY <1>1, FinalizedKeeps, StaleRecoveredKeeps, TypingResetKeeps, OfflineRecoveredKeeps
     DEF Recovered

LEMMA InspectedKeeps ==
  ASSUME NEW s \in Session, NEW quiet
  PROVE  Keeps(s, Inspected(s, quiet))
BY DEF Keeps, Inspected, Session

LEMMA ScopedKeeps ==
  ASSUME NEW s \in Session, NEW r, NEW updated \in Session, Keeps(s, updated)
  PROVE  Keeps(s, Scoped(s, r, updated))
BY DEF Keeps, Scoped, Session

LEMMA ConnectedKeeps ==
  ASSUME NEW s \in Session
  PROVE  Keeps(s, Connected(s))
BY DEF Keeps, Connected, Session

LEMMA HandedOutKeeps ==
  ASSUME NEW s \in Session, Pending(s) # {}
  PROVE  Keeps(s, HandedOut(s)) /\ HandedOut(s).active = s.active
<1>1. FirstPending(s) \in Pending(s)
  BY FirstOne DEF FirstPending, Pending
<1> QED
  BY <1>1 DEF Keeps, HandedOut, Pending, Session

LEMMA CompletedKeeps ==
  ASSUME NEW s \in Session, NEW q, s.bridge[q] # "NONE", NEW status \in BridgeStatus
  PROVE  Keeps(s, Completed(s, q, status))
<1> DEFINE done == [s EXCEPT !.bridge[q] = status, !.settled = @ \ {q}]
<1>1. done \in Session /\ Keeps(s, done)
  BY DEF Session, Keeps
<1>2. \A t \in Session, b \in BOOLEAN : Keeps(t, [t EXCEPT !.failed = @ \/ b])
  BY DEF Session, Keeps
<1>3. Keeps(done, Finalized(done, q))
  BY <1>1, FinalizedKeeps
<1>4. \/ Completed(s, q, status) = Finalized(done, q)
      \/ Completed(s, q, status) = [done EXCEPT !.failed = @ \/ (status = "ERROR")]
  BY DEF Completed
<1> HIDE DEF done
<1> QED
  BY <1>1, <1>2, <1>3, <1>4, KeepsTransitive

\* The merge of two sessions neither of which knows a message does not know it, and it
\* is the session to be written or has the active message and the bridge of the other.
LEMMA PreservedKeeps ==
  ASSUME NEW next \in Session, NEW old \in Session
  PROVE  LET s == Preserved(next, old)
         IN  /\ \A r \in Requests : next.bridge[r] = "NONE" /\ old.bridge[r] = "NONE"
                                      => s.bridge[r] = "NONE"
             /\ s = next \/ (s.active = old.active /\ s.bridge = old.bridge)
BY DEF Preserved, Session
-------------------------------------------------------------------------------
(***************************************************************************)
(* The rest of the invariant: who knows of a message.                      *)
(***************************************************************************)
Rest == NotQueued /\ SendsOwn /\ NotStale

\* A waiter stays, is over with its enqueueing, or has built the prompt.
OnwardWaiter(r) ==
  \/ waiter'[r] = waiter[r]
  \/ ~ Unqueued(r)' /\ waiter'[r].snap = Launched
  \/ /\ waiter[r].at = "prompt" /\ waiter'[r].at = "enqueue"
     /\ waiter'[r].snap = waiter[r].snap
Onward == \A r \in Requests : OnwardWaiter(r)

\* A handler goes on with what it has, or is gone.
OnwardCall(c) ==
  call'[c] # Free => /\ call[c] # Free
                     /\ call'[c].op = call[c].op /\ call'[c].req = call[c].req
                     /\ call'[c].next = call[c].next
                     /\ call'[c].alone => call[c].alone

LEMMA OnwardQueue ==
  ASSUME NotQueued, SendsOwn, Onward, NEW r \in Requests, Unqueued(r)'
  PROVE  /\ Unqueued(r)
         /\ \A o \in Requests : waiter'[o].snap.bridge[r] = "NONE"
         /\ waiter'[r].at \in {"prompt", "enqueue"} => waiter'[r].snap.active = r
<1>1. Unqueued(r) /\ waiter'[r].at \in {"prompt", "enqueue"} =>
        waiter[r].at \in {"prompt", "enqueue"} /\ waiter'[r].snap = waiter[r].snap
  BY DEF Onward, OnwardWaiter, Unqueued
<1>2. Unqueued(r)
  BY DEF Onward, OnwardWaiter, Unqueued
<1>3. Launched.bridge[r] = "NONE"
  BY DEF Launched
<1>4. \A o \in Requests : waiter'[o].snap \in {waiter[o].snap, Launched}
  BY DEF Onward, OnwardWaiter
<1> QED
  BY <1>1, <1>2, <1>3, <1>4 DEF NotQueued, SendsOwn

\* Nobody writes and nobody begins.
LEMMA CalmStep ==
  ASSUME Inv, UNCHANGED sess, Onward, \A c \in Calls : OnwardCall(c)
  PROVE  Rest'
<1>1. NotQueued'
  BY OnwardQueue DEF Inv, NotQueued, OnwardCall
<1>2. SendsOwn'
  BY OnwardQueue DEF Inv, SendsOwn, OnwardCall, Unqueued
<1>3. NotStale'
  BY DEF Inv, NotStale, OnwardCall
<1> QED
  BY <1>1, <1>2, <1>3 DEF Rest

\* A handler reads the session: what it will write knows no message the session does
\* not know, and makes none active that has failed.
LEMMA BeginRest ==
  ASSUME Inv, NEW c \in Calls, UNCHANGED sess, Onward,
         \A d \in Calls : d # c => OnwardCall(d),
         NEW x \in Call, call'[c] = x,
         \A r \in Requests : sess.bridge[r] = "NONE" => x.next.bridge[r] = "NONE",
         x.op = "send" => x.next.active = x.req,
         x.next.active \in {NoRequest, sess.active} \/ sess.bridge[x.next.active] \notin Failed
  PROVE  Rest'
<1>1. NotQueued'
  <2> SUFFICES ASSUME NEW r \in Requests, Unqueued(r)'
               PROVE  /\ sess'.bridge[r] = "NONE"
                      /\ \A d \in Calls : call'[d] # Free => call'[d].next.bridge[r] = "NONE"
                      /\ \A o \in Requests : waiter'[o].snap.bridge[r] = "NONE"
    BY DEF NotQueued
  <2>1. Unqueued(r) /\ \A o \in Requests : waiter'[o].snap.bridge[r] = "NONE"
    BY OnwardQueue DEF Inv
  <2>2. sess.bridge[r] = "NONE" /\ x.next.bridge[r] = "NONE"
    BY <2>1 DEF Inv, NotQueued
  <2> QED
    BY <2>1, <2>2 DEF Inv, NotQueued, OnwardCall
<1>2. SendsOwn'
  BY OnwardQueue DEF Inv, SendsOwn, OnwardCall, Unqueued
<1>3. NotStale'
  BY DEF Inv, NotStale, OnwardCall
<1> QED
  BY <1>1, <1>2, <1>3 DEF Rest

\* The usual case: a handler that is no send, and keeps the active message or clears it.
LEMMA ReadRest ==
  ASSUME Inv, NEW c \in Calls, NEW op \in Ops \ {"send"}, NEW r \in Requests \cup {NoRequest},
         NEW next \in Session, NEW heard \in BOOLEAN, BeginHeard(c, op, r, next, heard),
         UNCHANGED sess, Onward, Keeps(sess, next)
  PROVE  Rest'
<1> DEFINE x == [op |-> op, req |-> r, heard |-> heard, alone |-> TRUE, next |-> next]
<1>1. x \in Call /\ x.op # "send" /\ x.next = next
  BY DEF Call
<1> HIDE DEF x
<1>2. call'[c] = x /\ \A d \in Calls : d # c => OnwardCall(d)
  BY DEF BeginHeard, x, Inv, WaitersOK, TypeOK, OnwardCall
<1> QED
  BY <1>1, <1>2, BeginRest DEF Keeps

LEMMA SameWaiters ==
  ASSUME UNCHANGED waiter
  PROVE  Onward
BY DEF Onward, OnwardWaiter
-------------------------------------------------------------------------------
(***************************************************************************)
(* The readers, the handlers of the user and the calls of the runner.       *)
(***************************************************************************)
LEMMA RefreshRest ==
  ASSUME Inv, NEW c \in Calls, Refresh(c) \/ RecoverOnRead(c)
  PROVE  Rest'
<1>1. sess \in Session /\ UNCHANGED <<sess, waiter>>
  BY DEF Inv, WaitersOK, TypeOK, Refresh, RecoverOnRead
<1>2. \A quiet, aged \in BOOLEAN :
        LET s == Inspected(sess, quiet)
        IN  /\ Recovered(s, quiet, aged) \in Session /\ Keeps(sess, Recovered(s, quiet, aged))
            /\ Recovered(sess, quiet, aged) \in Session
            /\ Keeps(sess, Recovered(sess, quiet, aged))
  BY <1>1, InspectedType, InspectedKeeps, RecoveredType, RecoveredKeeps, KeepsTransitive
<1>3. \E op \in {"refresh", "recover"}, next \in Session :
        Keeps(sess, next) /\ Begin(c, op, NoRequest, next)
  BY <1>2 DEF Refresh, RecoverOnRead
<1> QED
  BY <1>1, <1>3, ReadRest, SameWaiters DEF Begin, Ops

LEMMA SendRest ==
  ASSUME Inv, NEW c \in Calls, Send(c)
  PROVE  Rest'
<1>1. /\ sess \in Session /\ sent \in Nat /\ sent < MaxMessages
      /\ UNCHANGED <<sess, waiter>>
  BY RequestNumbers DEF Send, Inv, WaitersOK, TypeOK
<1>2. PICK quiet, aged \in BOOLEAN :
        IF Recovered(sess, quiet, aged) # sess
        THEN Begin(c, "recoverFirst", sent + 1, Recovered(sess, quiet, aged))
        ELSE Begin(c, "send", sent + 1, Typing(Recovered(sess, quiet, aged), sent + 1))
  BY DEF Send
<1>3. sent + 1 \in Requests /\ waiter[sent + 1].at = "none"
  BY <1>1, RequestNumbers DEF Requests, Inv, WaitersOK, Untouched
<1>4. sess.bridge[sent + 1] = "NONE"
  BY <1>3 DEF Inv, NotQueued, Unqueued
<1>5. CASE Begin(c, "recoverFirst", sent + 1, Recovered(sess, quiet, aged))
  BY <1>1, <1>3, <1>5, RecoveredType, RecoveredKeeps, ReadRest, SameWaiters DEF Begin, Ops
<1>6. CASE Begin(c, "send", sent + 1, Typing(sess, sent + 1))
  <2> DEFINE next == Typing(sess, sent + 1)
             x == [op |-> "send", req |-> sent + 1, heard |-> FALSE, alone |-> TRUE,
                   next |-> next]
  <2>1. next \in Session /\ next.active = sent + 1 /\ next.bridge = sess.bridge
    BY <1>1, <1>3, TypingType DEF Typing, Session
  <2> HIDE DEF next
  <2>2. x \in Call /\ x.op = "send" /\ x.req = sent + 1 /\ x.next = next
    BY <1>3, <2>1 DEF Call, Ops
  <2> HIDE DEF x
  <2>3. call'[c] = x /\ \A d \in Calls : d # c => OnwardCall(d)
    BY <1>6 DEF Begin, BeginHeard, x, next, Inv, WaitersOK, TypeOK, OnwardCall
  <2>4. sess.bridge[x.next.active] \notin Failed
    BY <1>4, <2>1, <2>2 DEF Failed
  <2> QED
    BY <1>1, <2>1, <2>2, <2>3, <2>4, BeginRest, SameWaiters
<1> QED
  BY <1>2, <1>5, <1>6

LEMMA CancelRest ==
  ASSUME Inv, NEW c \in Calls, Cancel(c)
  PROVE  Rest'
<1> DEFINE t == FailBridge(sess, sess.active, "ERROR")
           u == Clear(t, "IDLE")
           next == [u EXCEPT !.failed = TRUE]
<1>1. sess \in Session /\ UNCHANGED <<sess, waiter>> /\ Begin(c, "cancel", NoRequest, next)
  BY DEF Inv, WaitersOK, TypeOK, Cancel
<1>2. t \in Session /\ u \in Session /\ Keeps(sess, t) /\ Keeps(t, u)
  BY <1>1, FailBridgeType, FailBridgeKeeps, ClearType, ClearKeeps DEF Status, BridgeStatus
<1> HIDE DEF t, u
<1>3. next \in Session /\ Keeps(u, next)
  BY <1>2 DEF Session, Keeps
<1> HIDE DEF next
<1> QED
  BY <1>1, <1>2, <1>3, KeepsTransitive, ReadRest, SameWaiters DEF Begin, Ops

LEMMA ReconnectRest ==
  ASSUME Inv, NEW c \in Calls, Reconnect(c)
  PROVE  Rest'
<1> DEFINE t == FailOpen(sess)
           u == Clear(t, "WAITING")
           next == [u EXCEPT !.url = FALSE, !.job = TRUE, !.failed = FALSE]
<1>1. sess \in Session /\ UNCHANGED <<sess, waiter>> /\ Begin(c, "reconnect", NoRequest, next)
  BY DEF Inv, WaitersOK, TypeOK, Reconnect
<1>2. t \in Session /\ u \in Session /\ Keeps(sess, t) /\ Keeps(t, u)
  BY <1>1, FailOpenType, FailOpenKeeps, ClearType, ClearKeeps DEF Status
<1> HIDE DEF t, u
<1>3. next \in Session /\ Keeps(u, next)
  BY <1>2 DEF Session, Keeps
<1> HIDE DEF next
<1> QED
  BY <1>1, <1>2, <1>3, KeepsTransitive, ReadRest, SameWaiters DEF Begin, Ops

LEMMA ClaimRest ==
  ASSUME Inv, NEW c \in Calls, Claim(c)
  PROVE  Rest'
<1> DEFINE next == [sess EXCEPT !.status = "STARTING", !.url = FALSE, !.job = TRUE]
<1>1. next \in Session /\ Keeps(sess, next) /\ UNCHANGED <<sess, waiter>>
  BY DEF Claim, Inv, WaitersOK, TypeOK, Session, Status, Keeps
<1>2. PICK heard \in BOOLEAN : BeginHeard(c, "claim", NoRequest, next, heard)
  BY DEF Claim
<1> HIDE DEF next
<1> QED
  BY <1>1, <1>2, ReadRest, SameWaiters DEF Ops

LEMMA ConnectRest ==
  ASSUME Inv, NEW c \in Calls, Connect(c)
  PROVE  Rest'
<1> DEFINE on == [sess EXCEPT !.status = "IDLE", !.url = TRUE, !.job = FALSE, !.failed = FALSE]
           off == [sess EXCEPT !.status = "ERROR", !.job = FALSE, !.failed = TRUE]
<1>1. /\ on \in Session /\ off \in Session /\ Keeps(sess, on) /\ Keeps(sess, off)
      /\ UNCHANGED <<sess, waiter>>
  BY DEF Connect, Inv, WaitersOK, TypeOK, Session, Status, Keeps
<1>2. PICK next \in {on, off} : BeginHeard(c, "connect", NoRequest, next, TRUE)
  BY DEF Connect
<1> HIDE DEF on, off
<1> QED
  BY <1>1, <1>2, ReadRest, SameWaiters DEF Ops

LEMMA NextRequestRest ==
  ASSUME Inv, NEW c \in Calls, NextRequest(c)
  PROVE  Rest'
<1>1. sess \in Session /\ UNCHANGED <<sess, waiter>>
  BY DEF Inv, WaitersOK, TypeOK, NextRequest
<1>2. PICK op \in {"heartbeat", "hand"}, r \in Requests \cup {NoRequest}, next \in Session :
        Keeps(sess, next) /\ BeginHeard(c, op, r, next, TRUE)
  BY <1>1, ConnectedType, ConnectedKeeps, HandedOutType, HandedOutKeeps DEF NextRequest
<1> QED
  BY <1>1, <1>2, ReadRest, SameWaiters DEF Ops

\* Progress makes a message active again only while it is open.
LEMMA ProgressRest ==
  ASSUME Inv, NEW c \in Calls, Progress(c)
  PROVE  Rest'
<1> DEFINE q == runner.req
           shown == [sess EXCEPT !.status = "TYPING", !.active = q, !.bridge[q] = "RUNNING"]
           next == Scoped(sess, q, shown)
           x == [op |-> "progress", req |-> q, heard |-> FALSE, alone |-> TRUE, next |-> next]
<1>1. /\ sess \in Session /\ UNCHANGED <<sess, waiter>>
      /\ q \in Requests \cup {NoRequest} /\ sess.bridge[q] \in Open
      /\ Begin(c, "progress", q, next)
  BY DEF Progress, Inv, WaitersOK, TypeOK, Runner
<1>2. shown \in Session
  BY <1>1 DEF Session, Status, BridgeStatus
<1>3. /\ \A r \in Requests : sess.bridge[r] = "NONE" => shown.bridge[r] = "NONE"
      /\ shown.active = q
  BY <1>1 DEF Session, Open
<1> HIDE DEF q, shown
<1>4. /\ next \in Session /\ next.active \in {q, sess.active}
      /\ \A r \in Requests : sess.bridge[r] = "NONE" => next.bridge[r] = "NONE"
  BY <1>1, <1>2, <1>3, ScopedType DEF Scoped, Session
<1> HIDE DEF next
<1>5. x \in Call /\ x.op = "progress" /\ x.next = next
  BY <1>1, <1>4 DEF Call, Ops
<1> HIDE DEF x
<1>6. call'[c] = x /\ \A d \in Calls : d # c => OnwardCall(d)
  BY <1>1 DEF Begin, BeginHeard, x, Inv, WaitersOK, TypeOK, OnwardCall
<1>7. next.active = sess.active \/ sess.bridge[next.active] \notin Failed
  BY <1>1, <1>4 DEF Open, Failed
<1> QED
  BY <1>1, <1>4, <1>5, <1>6, <1>7, BeginRest, SameWaiters

LEMMA CompleteRest ==
  ASSUME Inv, NEW c \in Calls, Complete(c)
  PROVE  Rest'
<1>1. /\ sess \in Session /\ UNCHANGED <<sess, waiter>>
      /\ runner.req \in Requests \cup {NoRequest} /\ sess.bridge[runner.req] # "NONE"
  BY DEF Complete, Inv, WaitersOK, TypeOK, Runner
<1>2. \A status \in {"COMPLETED", "ERROR"} :
        /\ Completed(sess, runner.req, status) \in Session
        /\ Keeps(sess, Completed(sess, runner.req, status))
  BY <1>1, CompletedType, CompletedKeeps DEF BridgeStatus
<1>3. PICK next \in Session :
        Keeps(sess, next) /\ BeginHeard(c, "complete", runner.req, next, TRUE)
  BY <1>2 DEF Complete
<1> QED
  BY <1>1, <1>3, ReadRest, SameWaiters DEF Ops

\* What a runner asked for is carried out though it no longer listens.
LEMMA UnheardOnward ==
  ASSUME TypeOK, NEW d \in Calls, call'[d] = Unheard[d]
  PROVE  OnwardCall(d)
<1>1. \A x \in Call : LET y == [x EXCEPT !.heard = FALSE]
                      IN  y.op = x.op /\ y.req = x.req /\ y.next = x.next /\ y.alone = x.alone
  BY DEF Call
<1> QED
  BY <1>1, CallTypes DEF Unheard, OnwardCall

LEMMA DisconnectRest ==
  ASSUME Inv, NEW c \in Calls, Disconnect(c)
  PROVE  Rest'
<1> DEFINE t == FailOpen(sess)
           gone == [t EXCEPT !.status = "WAITING", !.url = FALSE, !.failed = TRUE]
           next == OfflineRecovered(gone)
           x == [op |-> "disconnect", req |-> NoRequest, heard |-> FALSE, alone |-> TRUE,
                 next |-> next]
<1>1. sess \in Session /\ t \in Session /\ Keeps(sess, t)
  BY FailOpenType, FailOpenKeeps DEF Inv, WaitersOK, TypeOK
<1>2. /\ call' = [Unheard EXCEPT ![c] = x] /\ UNCHANGED <<sess, waiter>>
  BY DEF Disconnect
<1> HIDE DEF t
<1>3. gone \in Session /\ Keeps(t, gone)
  BY <1>1 DEF Session, Keeps, Status
<1> HIDE DEF gone
<1>4. next \in Session /\ Keeps(sess, next)
  BY <1>1, <1>3, OfflineRecoveredType, OfflineRecoveredKeeps, KeepsTransitive
<1> HIDE DEF next
<1>5. x \in Call /\ x.op = "disconnect" /\ x.next = next
  BY <1>4 DEF Call, Ops
<1> HIDE DEF x
<1>6. call'[c] = x /\ \A d \in Calls : d # c => OnwardCall(d)
  BY <1>2, UnheardOnward, UnheardKeeps DEF Inv, WaitersOK
<1> QED
  BY <1>2, <1>4, <1>5, <1>6, BeginRest, SameWaiters DEF Keeps

\* Steps that read and write nothing of the session.
LEMMA NetworkRest ==
  ASSUME Inv, Killed \/ CallFails \/ UNCHANGED vars \/ \E c \in Calls : AnswerLost(c)
  PROVE  Rest'
<1>1. UNCHANGED <<sess, waiter>>
  BY DEF Killed, CallFails, AnswerLost, vars
<1>2. CASE UNCHANGED call
  BY <1>1, <1>2, CalmStep, SameWaiters DEF OnwardCall
<1>3. CASE call' = Unheard
  BY <1>1, <1>3, CalmStep, SameWaiters, UnheardOnward DEF Inv, WaitersOK
<1>4. ASSUME NEW c \in Calls, call[c] # Free, call' = [call EXCEPT ![c].heard = FALSE]
      PROVE  Rest'
  <2>1. call[c] \in Call /\ call \in [Calls -> Call \cup {Free}]
    BY <1>4, CallTypes DEF Inv, WaitersOK, TypeOK
  <2>2. \A d \in Calls : OnwardCall(d)
    BY <1>4, <2>1 DEF OnwardCall, Call
  <2> QED
    BY <1>1, <2>2, CalmStep, SameWaiters
<1> QED
  BY <1>2, <1>3, <1>4 DEF Killed, CallFails, AnswerLost, vars

LEMMA CrashRest ==
  ASSUME Inv, Crash
  PROVE  Rest'
<1>1. UNCHANGED sess /\ \A c \in Calls : OnwardCall(c)
  BY DEF Crash, OnwardCall
<1>2. Onward
  BY DEF Crash, Onward, OnwardWaiter, Unsent, Unqueued
<1> QED
  BY <1>1, <1>2, CalmStep
-------------------------------------------------------------------------------
(***************************************************************************)
(* The waiter of a message.                                                *)
(***************************************************************************)
LEMMA WaitsOnward ==
  ASSUME Inv, NEW r \in Requests,
         NEW step \in {"enqueue", "poll", "finish", "fail", "timedout", "done"},
         Waits(r, step), step = "enqueue" => waiter[r].at = "prompt"
  PROVE  Onward
<1>1. waiter[r] \in Waiter /\ waiter \in [Requests -> Waiter]
  BY DEF Inv, WaitersOK, TypeOK
<1>2. CASE step = "enqueue"
  <2>1. waiter'[r] = [waiter[r] EXCEPT !.at = "enqueue"] /\ waiter[r].at = "prompt"
    BY <1>1, <1>2 DEF Waits
  <2>2. waiter'[r].at = "enqueue" /\ waiter'[r].snap = waiter[r].snap
    BY <1>1, <2>1 DEF Waiter
  <2> QED
    BY <1>1, <2>1, <2>2 DEF Waits, Onward, OnwardWaiter
<1>3. CASE step # "enqueue"
  <2>1. waiter'[r] = Unsent(step)
    BY <1>1, <1>3 DEF Waits
  <2> QED
    BY <1>1, <1>3, <2>1 DEF Waits, Onward, OnwardWaiter, Unqueued, Unsent
<1> QED
  BY <1>2, <1>3

LEMMA WaiterRest ==
  ASSUME Inv, NEW r \in Requests,
         TrackActiveMessage(r) \/ PrepareFails(r) \/ Poll(r) \/ Deadline(r)
  PROVE  Rest'
<1>1. UNCHANGED <<sess, call>>
  BY DEF TrackActiveMessage, PrepareFails, Poll, Deadline
<1>2. Onward
  BY WaitsOnward DEF TrackActiveMessage, PrepareFails, Poll, Deadline
<1> QED
  BY <1>1, <1>2, CalmStep DEF OnwardCall

LEMMA BeatRest ==
  ASSUME Inv, NEW c \in Calls, NEW r \in Requests, Beat(c, r)
  PROVE  Rest'
<1>1. sess \in Session /\ Keeps(sess, sess) /\ UNCHANGED <<sess, waiter>>
  BY DEF Beat, Inv, WaitersOK, TypeOK, Keeps
<1> QED
  BY <1>1, ReadRest, SameWaiters DEF Beat, Begin, Ops

LEMMA FinishRest ==
  ASSUME Inv, NEW c \in Calls, NEW r \in Requests, Finish(c, r)
  PROVE  Rest'
<1> DEFINE t == Clear(sess, "IDLE")
           u == Responded(t)
           v == [u EXCEPT !.newest = r]
           next == Scoped(sess, r, v)
<1>1. /\ sess \in Session /\ UNCHANGED sess /\ Begin(c, "settle", r, next)
      /\ Onward
  BY WaitsOnward DEF Finish, Inv, WaitersOK, TypeOK
<1>2. t \in Session /\ u \in Session /\ Keeps(sess, t) /\ Keeps(t, u)
  BY <1>1, ClearType, ClearKeeps, RespondedType, RespondedKeeps DEF Status
<1> HIDE DEF t, u
<1>3. v \in Session /\ Keeps(u, v)
  BY <1>2 DEF Session, Keeps
<1> HIDE DEF v
<1>4. next \in Session /\ Keeps(sess, next)
  BY <1>1, <1>2, <1>3, KeepsTransitive, ScopedType, ScopedKeeps
<1> HIDE DEF next
<1> QED
  BY <1>1, <1>4, ReadRest DEF Begin, Ops

LEMMA FailRest ==
  ASSUME Inv, NEW c \in Calls, NEW r \in Requests, Fail(c, r)
  PROVE  Rest'
<1> DEFINE late == waiter[r].at = "timedout"
           base == FailBridge(sess, r, IF late THEN "TIMEOUT" ELSE "ERROR")
           t == Clear(base, IF late THEN "IDLE" ELSE "ERROR")
           over == [t EXCEPT !.newest = r, !.failed = TRUE]
           u == Clear(base, "IDLE")
           v == Responded(u)
           answered == [v EXCEPT !.newest = r]
<1>1. /\ sess \in Session /\ UNCHANGED sess /\ Onward
      /\ \/ UNCHANGED call
         \/ Begin(c, "settle", r, Scoped(base, r, over))
         \/ Begin(c, "settle", r, Scoped(base, r, answered))
  BY WaitsOnward DEF Fail, Inv, WaitersOK, TypeOK
<1>2. base \in Session /\ Keeps(sess, base)
  BY <1>1, FailBridgeType, FailBridgeKeeps DEF BridgeStatus
<1>3. /\ t \in Session /\ Keeps(base, t) /\ u \in Session /\ Keeps(base, u)
      /\ v \in Session /\ Keeps(u, v)
  <2> HIDE DEF base, late
  <2> QED
    BY <1>2, ClearType, ClearKeeps, RespondedType, RespondedKeeps DEF Status
<1> HIDE DEF late, base, t, u, v
<1>4. over \in Session /\ Keeps(t, over) /\ answered \in Session /\ Keeps(v, answered)
  BY <1>3 DEF Session, Keeps
<1> HIDE DEF over, answered
<1>5. /\ Scoped(base, r, over) \in Session /\ Keeps(sess, Scoped(base, r, over))
      /\ Scoped(base, r, answered) \in Session /\ Keeps(sess, Scoped(base, r, answered))
  BY <1>2, <1>3, <1>4, KeepsTransitive, ScopedType, ScopedKeeps
<1>6. CASE UNCHANGED call
  BY <1>1, <1>6, CalmStep DEF OnwardCall
<1> QED
  BY <1>1, <1>5, <1>6, ReadRest DEF Begin, Ops
-------------------------------------------------------------------------------
(***************************************************************************)
(* The writes.                                                             *)
(***************************************************************************)
\* What Enqueue writes: its message is pending, and the active one unless the session
\* keeps the one it has.
LEMMA EnqueueWrites ==
  ASSUME Inv, NEW r \in Requests, Enqueue(r)
  PROVE  /\ \/ sess'.active = sess.active
            \/ sess'.active = r
         /\ sess.bridge[r] = "NONE"
         /\ \A o \in Requests : Unqueued(o) /\ o # r => sess'.bridge[o] = "NONE"
<1> DEFINE queued == [waiter[r].snap EXCEPT !.bridge[r] = "PENDING"]
<1>1. /\ waiter[r].at = "enqueue" /\ waiter[r].snap \in Session /\ sess \in Session
      /\ sess' = Preserved(queued, sess)
  BY DEF Enqueue, Inv, WaitersOK, TypeOK, Waiter
<1>2. /\ queued \in Session /\ queued.active = r
      /\ \A o \in Requests : o # r => queued.bridge[o] = waiter[r].snap.bridge[o]
  BY <1>1 DEF Session, BridgeStatus, Inv, SendsOwn
<1> HIDE DEF queued
<1>3. /\ sess.bridge[r] = "NONE"
      /\ \A o \in Requests : Unqueued(o) /\ o # r =>
           sess.bridge[o] = "NONE" /\ queued.bridge[o] = "NONE"
  BY <1>1, <1>2 DEF Inv, NotQueued, Unqueued
<1> QED
  BY <1>1, <1>2, <1>3, PreservedKeeps

LEMMA EnqueueRest ==
  ASSUME Inv, NEW r \in Requests, Enqueue(r)
  PROVE  Rest'
<1>1. Onward /\ waiter'[r].at = "poll"
  BY WaitsOnward DEF Enqueue, Waits, Unsent, Inv, WaitersOK, TypeOK
<1>2. \A c \in Calls : call'[c] # Free => /\ call[c] # Free /\ ~ call'[c].alone
                                          /\ call'[c].op = call[c].op /\ call'[c].req = call[c].req
                                          /\ call'[c].next = call[c].next
  BY OvertakenKeeps DEF Enqueue, Inv, WaitersOK
<1>3. NotQueued'
  <2> SUFFICES ASSUME NEW o \in Requests, Unqueued(o)'
               PROVE  /\ sess'.bridge[o] = "NONE"
                      /\ \A c \in Calls : call'[c] # Free => call'[c].next.bridge[o] = "NONE"
                      /\ \A p \in Requests : waiter'[p].snap.bridge[o] = "NONE"
    BY DEF NotQueued
  <2>1. Unqueued(o) /\ o # r /\ \A p \in Requests : waiter'[p].snap.bridge[o] = "NONE"
    BY <1>1, OnwardQueue DEF Inv, Unqueued
  <2> QED
    BY <1>2, <2>1, EnqueueWrites DEF Inv, NotQueued
<1>4. SendsOwn'
  BY <1>1, <1>2, OnwardQueue DEF Inv, SendsOwn, Unqueued
<1>5. NotStale'
  BY <1>2 DEF NotStale
<1> QED
  BY <1>3, <1>4, <1>5 DEF Rest

\* What Write leaves for the others: what they read is out of date.
LEMMA OthersOvertaken ==
  ASSUME Inv, NEW c \in Calls, NEW x, Overtakes(c, x), NEW d \in Calls, d # c, call'[d] # Free
  PROVE  /\ call[d] # Free /\ ~ call'[d].alone
         /\ call'[d].op = call[d].op /\ call'[d].req = call[d].req
         /\ call'[d].next = call[d].next
BY OvertakenKeeps DEF Overtakes, Inv, WaitersOK

\* What Write writes.
LEMMA WriteWrites ==
  ASSUME Inv, NEW c \in Calls, Write(c)
  PROVE  /\ call[c] \in Call /\ call[c].next \in Session /\ sess \in Session
         /\ \A r \in Requests : Unqueued(r) =>
              call[c].next.bridge[r] = "NONE" /\ sess'.bridge[r] = "NONE"
         /\ \/ sess' = call[c].next
            \/ sess'.active = sess.active /\ sess'.bridge = sess.bridge
<1>1. /\ call[c] # Free /\ call[c] \in Call /\ call[c].next \in Session /\ sess \in Session
      /\ sess' = Preserved(call[c].next, sess)
  BY CallTypes DEF Write, Inv, WaitersOK, TypeOK, Call
<1>2. \A r \in Requests : Unqueued(r) =>
        call[c].next.bridge[r] = "NONE" /\ sess.bridge[r] = "NONE"
  BY <1>1 DEF Inv, NotQueued
<1> QED
  BY <1>1, <1>2, PreservedKeeps

\* A second write follows: its session knows no more messages than the first.
LEMMA AgainRest ==
  ASSUME Inv, NEW c \in Calls, Write(c), NEW x, x # Free, Overtakes(c, x), UNCHANGED waiter,
         \A r \in Requests : call[c].next.bridge[r] = "NONE" => x.next.bridge[r] = "NONE",
         x.op = "send" => x.next.active = x.req,
         x.alone => \/ x.next.active \in {NoRequest, sess'.active}
                    \/ sess'.bridge[x.next.active] \notin Failed
  PROVE  Rest'
<1>1. call'[c] = x
  BY DEF Overtakes
<1>2. NotQueued'
  BY <1>1, WriteWrites, OthersOvertaken DEF Inv, NotQueued, Unqueued
<1>3. SendsOwn'
  BY <1>1, OthersOvertaken DEF Inv, SendsOwn
<1>4. NotStale'
  BY <1>1, OthersOvertaken DEF NotStale
<1> QED
  BY <1>2, <1>3, <1>4 DEF Rest

LEMMA WriteRest ==
  ASSUME Inv, NEW c \in Calls, Write(c)
  PROVE  Rest'
<1> DEFINE now == call[c].next
<1>1. /\ call[c] # Free /\ call[c] \in Call /\ now \in Session /\ sess \in Session
      /\ call[c].req \in Requests \cup {NoRequest}
      /\ \A r \in Requests : Unqueued(r) => now.bridge[r] = "NONE" /\ sess'.bridge[r] = "NONE"
      /\ sess' = now \/ (sess'.active = sess.active /\ sess'.bridge = sess.bridge)
  BY WriteWrites DEF Write, Call
<1>2. CASE /\ call[c].op = "recoverFirst" /\ UNCHANGED waiter
           /\ Overtakes(c, [call[c] EXCEPT !.op = "send", !.next = Typing(now, call[c].req)])
  <2>1. call[c].req \in Requests /\ waiter[call[c].req].at = "none"
    BY <1>1, <1>2 DEF Inv, WaitersOK, OneWaiter, Sending
  <2>2. PICK next : next = Typing(now, call[c].req)
    OBVIOUS
  <2>3. next.active = call[c].req /\ next.bridge = now.bridge
    BY <1>1, <2>2 DEF Typing, Session
  <2>4. PICK x : x = [call[c] EXCEPT !.op = "send", !.next = next]
    OBVIOUS
  <2>5. x.op = "send" /\ x.next = next /\ x.req = call[c].req /\ x # Free
    BY <1>1, <2>4 DEF Call, Free
  <2>6. sess'.bridge[call[c].req] \notin Failed
    BY <1>1, <2>1 DEF Unqueued, Failed
  <2>7. Overtakes(c, x) /\ UNCHANGED waiter
    BY <1>2, <2>2, <2>4
  <2>8. \A r \in Requests : call[c].next.bridge[r] = "NONE" => x.next.bridge[r] = "NONE"
    BY <2>3, <2>5
  <2>9. x.next.active = x.req /\ sess'.bridge[x.next.active] \notin Failed
    BY <2>3, <2>5, <2>6
  <2> QED
    BY <2>5, <2>7, <2>8, <2>9, AgainRest
<1>3. CASE /\ Pending(now) # {} /\ UNCHANGED waiter
           /\ Overtakes(c, [call[c] EXCEPT !.op = "hand", !.req = FirstPending(now),
                                           !.next = HandedOut(now)])
  <2>1. PICK next, q : next = HandedOut(now) /\ q = FirstPending(now)
    OBVIOUS
  <2>2. Keeps(now, next) /\ next.active = now.active
    BY <1>1, <1>3, <2>1, HandedOutKeeps
  <2>3. PICK x : x = [call[c] EXCEPT !.op = "hand", !.req = q, !.next = next]
    OBVIOUS
  <2>4. x.op = "hand" /\ x.next = next /\ x.alone = call[c].alone /\ x # Free
    BY <1>1, <2>3 DEF Call, Free
  <2>5. call[c].alone => \/ next.active \in {NoRequest, sess'.active}
                         \/ sess'.bridge[next.active] \notin Failed
    BY <1>1, <2>2 DEF Inv, NotStale
  <2>6. Overtakes(c, x) /\ UNCHANGED waiter
    BY <1>3, <2>1, <2>3
  <2>7. /\ \A r \in Requests : call[c].next.bridge[r] = "NONE" => x.next.bridge[r] = "NONE"
        /\ x.op # "send"
    BY <2>2, <2>4 DEF Keeps
  <2>8. x.alone => \/ x.next.active \in {NoRequest, sess'.active}
                   \/ sess'.bridge[x.next.active] \notin Failed
    BY <2>4, <2>5
  <2> QED
    BY <2>4, <2>6, <2>7, <2>8, AgainRest
<1>4. CASE /\ Overtakes(c, Free)
           /\ waiter' = IF call[c].op = "send"
                        THEN [waiter EXCEPT ![call[c].req] = [at |-> "prompt", snap |-> now]]
                        ELSE waiter
  <2>1. call'[c] = Free
    BY <1>4 DEF Overtakes
  <2>2. call[c].op = "send" =>
          /\ call[c].req \in Requests /\ waiter[call[c].req].at = "none"
          /\ now.active = call[c].req
    BY <1>1 DEF Inv, WaitersOK, OneWaiter, Sending, SendsOwn
  <2>3. \A r \in Requests :
          \/ waiter'[r] = waiter[r]
          \/ /\ waiter[r].at = "none" /\ waiter'[r].at = "prompt" /\ waiter'[r].snap = now
             /\ now.active = r
    BY <1>4, <2>2 DEF Inv, WaitersOK, TypeOK
  <2>4. \A r \in Requests : Unqueued(r)' => Unqueued(r)
    BY <2>3 DEF Unqueued
  <2>5. NotQueued'
    BY <1>1, <1>4, <2>1, <2>3, <2>4, OthersOvertaken DEF Inv, NotQueued
  <2>6. SendsOwn'
    BY <1>4, <2>1, <2>3, OthersOvertaken DEF Inv, SendsOwn
  <2>7. NotStale'
    BY <1>4, <2>1, OthersOvertaken DEF NotStale
  <2> QED
    BY <2>5, <2>6, <2>7 DEF Rest
<1> QED
  BY <1>2, <1>3, <1>4 DEF Write
-------------------------------------------------------------------------------
LEMMA NextInv == WaitersOK /\ [Next]_vars => WaitersOK'
<1> SUFFICES ASSUME WaitersOK, [Next]_vars PROVE WaitersOK'
  OBVIOUS
<1>1. ASSUME NEW c \in Calls,
             Refresh(c) \/ RecoverOnRead(c) \/ Send(c) \/ Cancel(c) \/ Reconnect(c) \/ Write(c)
      PROVE  WaitersOK'
  BY <1>1, RefreshInv, RecoverOnReadInv, SendInv, CancelInv, ReconnectInv, WriteInv
<1>2. ASSUME NEW c \in Calls, RunnerCall(c) PROVE WaitersOK'
  BY <1>2, ClaimInv, ConnectInv, NextRequestInv, ProgressInv, CompleteInv, DisconnectInv,
     AnswerLostInv DEF RunnerCall
<1>3. ASSUME NEW r \in Requests, WaiterStep(r) PROVE WaitersOK'
  BY <1>3, TrackActiveMessageInv, EnqueueInv, PrepareFailsInv, PollInv, DeadlineInv, BeatInv,
     FinishInv, FailInv DEF WaiterStep
<1>4. CASE Killed \/ CallFails \/ Crash
  BY <1>4, KilledInv, CallFailsInv, CrashInv
<1>5. CASE UNCHANGED vars
  <2>1. TypeOK' /\ TrackedWaits' /\ Quietly
    BY <1>5 DEF vars, WaitersOK, TypeOK, TrackedWaits, Quietly, Sending
  <2> QED
    BY <2>1, QuietStep
<1> QED
  BY <1>1, <1>2, <1>3, <1>4, <1>5 DEF Next

-------------------------------------------------------------------------------
LEMMA InitRest == Init => Inv
<1> SUFFICES ASSUME Init PROVE Inv
  OBVIOUS
<1>1. WaitersOK
  BY InitInv
<1>2. /\ \A r \in Requests : Launched.bridge[r] = "NONE" /\ waiter[r] = Unsent("none")
      /\ \A c \in Calls : call[c] = Free
      /\ sess = Launched
  BY DEF Init, Launched
<1>3. NotQueued /\ SendsOwn /\ NotStale
  BY <1>2 DEF NotQueued, SendsOwn, NotStale, Unsent
<1> QED
  BY <1>1, <1>3 DEF Inv

LEMMA NextRest == Inv /\ [Next]_vars => Inv'
<1> SUFFICES ASSUME Inv, [Next]_vars PROVE Inv'
  OBVIOUS
<1>1. WaitersOK'
  BY NextInv DEF Inv
<1>2. Rest'
  <2>1. ASSUME NEW c \in Calls,
               Refresh(c) \/ RecoverOnRead(c) \/ Send(c) \/ Cancel(c) \/ Reconnect(c) \/ Write(c)
        PROVE  Rest'
    BY <2>1, RefreshRest, SendRest, CancelRest, ReconnectRest, WriteRest
  <2>2. ASSUME NEW c \in Calls, RunnerCall(c) PROVE Rest'
    BY <2>2, ClaimRest, ConnectRest, NextRequestRest, ProgressRest, CompleteRest,
       DisconnectRest, NetworkRest DEF RunnerCall
  <2>3. ASSUME NEW r \in Requests, WaiterStep(r) PROVE Rest'
    BY <2>3, WaiterRest, EnqueueRest, BeatRest, FinishRest, FailRest DEF WaiterStep
  <2>4. CASE Killed \/ CallFails \/ Crash \/ UNCHANGED vars
    BY <2>4, NetworkRest, CrashRest
  <2> QED
    BY <2>1, <2>2, <2>3, <2>4 DEF Next
<1> QED
  BY <1>1, <1>2 DEF Rest, Inv

\* The invariant of the bridge: every session, handler and waiter is well formed; sends,
\* waiters and tracked messages belong together; a message nobody has enqueued yet is in
\* nobody's session; and a handler in time makes no failed message active.
THEOREM Invariance == Spec => []Inv
BY InitRest, NextRest, PTL DEF Spec

\* sendAgentRuntimeMessage: the send lock, and the in-memory waiter it starts, give a
\* message one waiter, whatever overlaps, is lost or restarts.
THEOREM OneWaiterOnly == Spec => []OneWaiter
<1>1. Inv => OneWaiter
  BY DEF Inv, WaitersOK
<1> QED
  BY <1>1, Invariance, PTL

\* trackActiveMessage: what the launcher tracks somebody waits for, so that
\* hasActiveMessage keeps no repair away from a message that was left alone.
THEOREM TrackedIsWaitedFor == Spec => []TrackedWaits
<1>1. Inv => TrackedWaits
  BY DEF Inv, WaitersOK
<1> QED
  BY <1>1, Invariance, PTL

\* The session is written by a handler, or by the waiter that enqueues its message.
LEMMA SessionWrites ==
  ASSUME [Next]_vars, sess' # sess
  PROVE  \/ \E r \in Requests : Enqueue(r)
         \/ \E c \in Calls : Write(c)
BY DEF Next, vars, Refresh, RecoverOnRead, Send, Cancel, Reconnect, RunnerCall, Claim, Connect,
       NextRequest, Progress, Complete, Disconnect, AnswerLost, WaiterStep, TrackActiveMessage,
       PrepareFails, Poll, Deadline, Beat, Finish, Fail, Killed, CallFails, Crash

LEMMA RevivedLate ==
  ASSUME Inv, [Next]_vars, NEW q \in Requests, sess.bridge[q] \in Failed,
         sess.active # q, sess'.active = q
  PROVE  \E c \in Calls : Write(c) /\ ~ call[c].alone
<1>1. CASE \E r \in Requests : Enqueue(r)
  BY <1>1, EnqueueWrites DEF Failed
<1>2. ASSUME NEW c \in Calls, Write(c) PROVE ~ call[c].alone
  <2>1. call[c] # Free /\ call[c].next.active = q
    BY <1>2, WriteWrites DEF Write
  <2> QED
    BY <2>1, RequestNumbers DEF Inv, NotStale
<1> QED
  BY <1>1, <1>2, SessionWrites

\* A handler that nobody overtook between its read and its write brings no cancelled,
\* failed or timed out message back as the active one.
THEOREM NotRevivedInTime == Spec => NotRevived
<1> DEFINE InTime == \A q \in Requests :
                       /\ sess.bridge[q] \in Failed /\ sess.active # q
                       /\ sess'.status = "TYPING" /\ sess'.active = q
                       => \E c \in Calls : Write(c) /\ ~call[c].alone
<1>1. Inv /\ [Next]_vars => [InTime]_vars
  BY RevivedLate
<1>2. Spec => [][InTime]_vars
  <2> HIDE DEF InTime
  <2> QED
    BY <1>1, Invariance, PTL DEF Spec
<1> QED
  BY <1>2 DEF NotRevived
=============================================================================
