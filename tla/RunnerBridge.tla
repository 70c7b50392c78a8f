----------------------------- MODULE RunnerBridge -----------------------------
(***************************************************************************)
(* A message to an agent whose runtime is a CLI on somebody's machine       *)
(* (provider local-codex).  The API keeps the runtime session as one JSON   *)
(* value in project_members.permissions; the local runner polls the API for *)
(* requests, reports progress and posts the answer.  Every handler reads    *)
(* the session, computes a whole new one and writes it back; only           *)
(* preserveQueuedLocalRuntimeBridge stands between two of them.             *)
(*                                                                         *)
(* One project member.  Conversations, texts, files and the assignments     *)
(* behind a message are left out; WAITING_CONFIRMATION is IDLE.             *)
(***************************************************************************)
EXTENDS Integers, FiniteSets, FiniteSetsExt

CONSTANTS MaxMessages,        \* how many messages are sent
          Calls,              \* how many read-modify-writes of the session overlap
          TimeoutsConfigured  \* the bridge and chat timeouts are set (default: none)

\* The bridge keeps the last 20 requests: within them nothing is dropped.
ASSUME RunnerBridgeAssumption ==
  MaxMessages \in 1 .. 20 /\ TimeoutsConfigured \in BOOLEAN

VARIABLES sess,     \* runtimeSession in project_members.permissions
          call,     \* the handlers that have read the session and not yet written it
          waiter,   \* processAgentRuntimeMessage, one per message
          tracked,  \* activeMessageControllers of the launcher
          runner,   \* the worker of the local runner
          sent      \* messages accepted so far

vars == <<sess, call, waiter, tracked, runner, sent>>
-------------------------------------------------------------------------------
\* Messages are numbered in the order they are sent.
Requests == 1 .. MaxMessages
NoRequest == 0

\* WAITING is WAITING_LOCAL_CODEX; TIMEOUT is ERROR with the text of a timeout.
Status == {"WAITING", "STARTING", "IDLE", "TYPING", "ERROR"}
BridgeStatus == {"NONE", "PENDING", "RUNNING", "COMPLETED", "ERROR", "TIMEOUT"}
Open == {"PENDING", "RUNNING"}
Terminal == {"COMPLETED", "ERROR", "TIMEOUT"}

Session == [status   : Status,
            active   : Requests \cup {NoRequest},  \* activeRequestId
            url      : BOOLEAN,                    \* apiBaseUrl is set
            job      : BOOLEAN,                    \* localRunnerJob is set
            answered : BOOLEAN,                    \* lastResponseAt is set
            failed   : BOOLEAN,                    \* lastError is set
            newest   : Requests \cup {NoRequest},  \* message of lastMessageAt
            settled  : SUBSET Requests,            \* completedAt <= lastResponseAt
            bridge   : [Requests -> BridgeStatus]] \* localRunnerBridge.requests

Ops == {"refresh", "recover", "recoverFirst", "send", "cancel", "reconnect", "beat",
        "settle", "claim", "connect", "heartbeat", "hand", "progress", "complete",
        "disconnect"}
Call == [op : Ops, req : Requests \cup {NoRequest}, heard : BOOLEAN, alone : BOOLEAN,
         next : Session]

Launched == [status |-> "WAITING", active |-> NoRequest, url |-> FALSE, job |-> TRUE,
             answered |-> FALSE, failed |-> FALSE, newest |-> NoRequest, settled |-> {},
             bridge |-> [r \in Requests |-> "NONE"]]
Free == [op |-> "free"]

OpenIn(s) == {r \in Requests : s.bridge[r] \in Open}
TerminalIn(s) == {r \in Requests : s.bridge[r] \in Terminal}
\* Mutant.
ForgetOnly(s, status) == [s EXCEPT !.active = NoRequest]
\* The message is over: the status says so and no request is active.
Clear(s, status) == [s EXCEPT !.status = status, !.active = NoRequest]
Responded(s) == [s EXCEPT !.answered = TRUE, !.failed = FALSE, !.settled = TerminalIn(s)]
FailOpen(s) ==
  [s EXCEPT !.bridge = [r \in Requests |-> IF s.bridge[r] \in Open THEN "ERROR"
                                           ELSE s.bridge[r]]]

\* runtimeHasOngoingConversation; a message left TYPING in the history is left out.
Busy(s) == \/ s.status = "TYPING"
           \/ s.active # NoRequest /\ s.status \notin {"IDLE", "ERROR"}

\* preserveQueuedLocalRuntimeBridge: what is stored when next is written over old.
Preserved(next, old) ==
  LET a == IF next.active # NoRequest THEN next.active ELSE old.active
      unqueued == old.status = "TYPING" /\ old.active = a /\ next.active = NoRequest
      cleared == /\ next.active = NoRequest /\ next.status \in {"IDLE", "ERROR"}
                 /\ next.answered \/ next.failed
      kept == /\ a # NoRequest
              /\ next.bridge[a] = "NONE"
              /\ old.bridge[a] # "NONE" \/ unqueued
              /\ ~cleared
  IN IF kept
     THEN [next EXCEPT !.status = old.status, !.active = old.active,
                       !.newest = old.newest, !.bridge = old.bridge,
                       !.settled = {r \in @ : next.bridge[r] = old.bridge[r]}]
     ELSE next
-------------------------------------------------------------------------------
\* finalizeLocalRunnerBridgeRequestSession for the terminal request q of s.
Finalized(s, q) ==
  CASE s.bridge[q] = "COMPLETED" -> Responded(Clear(s, "IDLE"))
    [] s.bridge[q] = "ERROR" -> [Clear(s, "ERROR") EXCEPT !.failed = TRUE]
    [] OTHER -> [Clear(s, "IDLE") EXCEPT !.failed = TRUE]

\* Mutant.
LateWhenIdle(s) == {q \in TerminalIn(s) : /\ s.active = NoRequest /\ s.status = "IDLE"
                                          /\ s.newest <= q /\ q \notin s.settled}
\* shouldFinalizeLateLocalRunnerBridgeRequest.
Late(s) ==
  {q \in TerminalIn(s) : /\ s.active = NoRequest
                         /\ s.status # "TYPING"
                         /\ s.newest <= q /\ q \notin s.settled}

\* localRunnerBridgeRequestToFinalize, as a set of at most one request.
ToFinalize(s) ==
  LET found == IF s.active # NoRequest THEN TerminalIn(s) \cap {s.active}
               ELSE IF s.status = "TYPING" THEN TerminalIn(s) ELSE Late(s)
  IN IF found = {} THEN {}
     ELSE {IF s.status = "TYPING" THEN Min(found) ELSE Max(found)}

\* failQueuedLocalRuntimeBridgeRequest.
FailBridge(s, r, status) ==
  IF r = NoRequest \/ s.bridge[r] = "NONE" THEN s ELSE [s EXCEPT !.bridge[r] = status]

\* recoverOfflineLocalRunnerActiveRequest: an open request is written as ERROR, and the
\* runtime stays offline.
OfflineRecovered(s) ==
  IF s.active = NoRequest \/ s.url \/ s.status # "WAITING" THEN s
  ELSE IF s.bridge[s.active] \notin Open THEN [s EXCEPT !.active = NoRequest]
  ELSE [s EXCEPT !.bridge[s.active] = "ERROR", !.active = NoRequest, !.failed = TRUE]

\* recoverStaleQueuedLocalActiveRequest: the request fails and the runner is offline.
\* (The runner's heartbeat counts as progress: a stale request has no runner.)
StaleRecovered(s) ==
  [Finalized(FailBridge(s, s.active, "ERROR"), s.active) EXCEPT !.status = "WAITING",
                                                                !.url = FALSE]

\* recoverStaleTypingSession, and recoverMissingLocalRunnerBridgeRequest.
TypingReset(s) == [Clear(s, "ERROR") EXCEPT !.failed = TRUE]

\* recoverPersistedRuntimeSession: the first of its repairs that applies.  quiet: the
\* runner's heartbeat is stale; aged: the active request made no progress for long.
\* isRuntimeTypingOrphaned never fires for this provider: the grace time of a missing
\* request is shorter.
Recovered(s, quiet, aged) ==
  LET typing == s.status = "TYPING"
      waiting == typing /\ s.active # NoRequest /\ s.active \notin tracked
  IN CASE ToFinalize(s) # {} -> Finalized(s, CHOOSE q \in ToFinalize(s) : TRUE)
       [] waiting /\ s.bridge[s.active] \in Open /\ quiet ->
            StaleRecovered(s)
       [] waiting /\ s.bridge[s.active] = "NONE" /\ aged ->
            TypingReset(s)
       [] s.active # NoRequest /\ ~s.url /\ s.status = "WAITING" -> OfflineRecovered(s)
       [] s.active # NoRequest /\ s.status \in {"IDLE", "ERROR"} ->
            [s EXCEPT !.active = NoRequest]
       [] TimeoutsConfigured /\ typing /\ aged -> TypingReset(s)
       [] OTHER -> s

\* inspect, for a runtime of this provider.
Inspected(s, quiet) ==
  LET watched == IF s.active # NoRequest THEN OpenIn(s) \cap {s.active} ELSE OpenIn(s)
  IN IF ~s.url THEN s
     ELSE IF watched = {} /\ quiet
     THEN [s EXCEPT !.status = "WAITING", !.url = FALSE,
                    !.failed = @ \/ s.status = "TYPING"]
     ELSE IF s.status \in {"STARTING", "WAITING"} THEN [s EXCEPT !.status = "IDLE"]
     ELSE s

\* activeRequestScopedUpdates: another request's session keeps all but its bridge.
Scoped(s, r, updated) ==
  IF s.active \in {NoRequest, r} THEN updated ELSE [s EXCEPT !.bridge = updated.bridge]
-------------------------------------------------------------------------------
Off == [at |-> "off", req |-> NoRequest]
Runner == [at : {"off", "claiming", "starting", "connecting", "abandon", "leaving",
                 "poll", "asking", "run", "completing", "report", "failing"},
           req : Requests \cup {NoRequest}]
WaiterSteps == {"none", "prompt", "enqueue", "poll", "finish", "fail", "timedout", "done"}
Waiter == [at : WaiterSteps, snap : Session]
\* The session of the send is kept until the request is enqueued.
Unsent(step) == [at |-> step, snap |-> Launched]

Init ==
  /\ sess = Launched
  /\ call = [c \in Calls |-> Free]
  /\ waiter = [r \in Requests |-> Unsent("none")]
  /\ tracked = {} /\ runner = Off /\ sent = 0

\* A handler has read the session; next is what it will write, heard says whether the
\* runner waits for its answer, and alone (history) that nobody has written since.
BeginHeard(c, op, r, next, heard) ==
  /\ call[c] = Free
  /\ call' = [call EXCEPT ![c] = [op |-> op, req |-> r, heard |-> heard, alone |-> TRUE,
                                 next |-> next]]
Begin(c, op, r, next) == BeginHeard(c, op, r, next, FALSE)

\* The session is written: what the other handlers read is out of date.
Overtaken(c) == IF call[c] = Free THEN Free ELSE [call[c] EXCEPT !.alone = FALSE]
Overtakes(c, next) == call' = [d \in Calls |-> IF d = c THEN next ELSE Overtaken(d)]

\* The heartbeat goes stale unless the runner polls or makes progress on an open
\* request; the active request ages unless the runner works on it or it was just sent
\* (the grace times are many seconds, building a request takes less).
Quiet(quiet) == quiet => \/ runner.at \in {"off", "starting", "abandon"}
                         \/ runner.at = "run" /\ sess.bridge[runner.req] \notin Open
Aged(aged) ==
  aged => /\ ~(runner.at = "run" /\ runner.req = sess.active
                /\ sess.bridge[runner.req] \in Open)
          /\ sess.active # NoRequest => waiter[sess.active].at \notin {"prompt", "enqueue"}
-------------------------------------------------------------------------------
\* listAgentRuntimes writes every session back, changed or not.
Refresh(c) ==
  /\ \E quiet, aged \in BOOLEAN :
       /\ Quiet(quiet) /\ Aged(aged)
       /\ Begin(c, "refresh", NoRequest, Recovered(Inspected(sess, quiet), quiet, aged))
  /\ UNCHANGED <<sess, waiter, tracked, runner, sent>>

\* The other readers write only what recoverPersistedRuntimeSession changed.
RecoverOnRead(c) ==
  /\ \E quiet, aged \in BOOLEAN :
       /\ Quiet(quiet) /\ Aged(aged)
       /\ Recovered(sess, quiet, aged) # sess
       /\ Begin(c, "recover", NoRequest, Recovered(sess, quiet, aged))
  /\ UNCHANGED <<sess, waiter, tracked, runner, sent>>

Typing(s, r) == [s EXCEPT !.status = "TYPING", !.active = r, !.newest = r, !.failed = FALSE]

\* Mutant.
SendReusesId(c) ==
  LET id == IF sent = 0 THEN 1 ELSE sent
  IN /\ \A d \in Calls : call[d] # Free => call[d].op \notin {"send", "recoverFirst"}
     /\ ~Busy(sess) /\ Begin(c, "send", id, Typing(sess, id))
     /\ sent' = id
     /\ UNCHANGED <<sess, waiter, tracked, runner>>
\* sendAgentRuntimeMessage, under the send lock of the process: refused while the
\* agent is busy, and a recovered session is written first.
Send(c) ==
  /\ sent < MaxMessages
  /\ \A d \in Calls : call[d] # Free => call[d].op \notin {"send", "recoverFirst"}
  /\ \E quiet, aged \in BOOLEAN :
       LET now == Recovered(sess, quiet, aged)
       IN /\ Quiet(quiet) /\ Aged(aged)
          /\ ~Busy(now)
          /\ IF now # sess THEN Begin(c, "recoverFirst", sent + 1, now)
             ELSE Begin(c, "send", sent + 1, Typing(now, sent + 1))
  /\ sent' = sent + 1
  /\ UNCHANGED <<sess, waiter, tracked, runner>>

\* cancelAgentRuntimeMessage; the launcher forgets the message before the write.
Cancel(c) ==
  /\ sess.active # NoRequest
  /\ Begin(c, "cancel", NoRequest,
           [Clear(FailBridge(sess, sess.active, "ERROR"), "IDLE") EXCEPT !.failed = TRUE])
  /\ tracked' = tracked \ {sess.active}
  /\ UNCHANGED <<sess, waiter, runner, sent>>

\* reconnectQueuedLocalRuntime.
Reconnect(c) ==
  /\ Begin(c, "reconnect", NoRequest,
           [Clear(FailOpen(sess), "WAITING") EXCEPT !.url = FALSE, !.job = TRUE,
                                                    !.failed = FALSE])
  /\ UNCHANGED <<sess, waiter, tracked, runner, sent>>
-------------------------------------------------------------------------------
(***************************************************************************)
(* processAgentRuntimeMessage, which waits for the answer of message r.     *)
(***************************************************************************)
Waits(r, step) ==
  waiter' = [waiter EXCEPT ![r] = IF step = "enqueue" THEN [@ EXCEPT !.at = step]
                                  ELSE Unsent(step)]
Waiting(r) == waiter[r].at \in {"prompt", "enqueue", "poll"}

\* publishRuntimeProgressHeartbeat writes the session back to show it is alive.
Beat(c, r) ==
  /\ Waiting(r)
  /\ sess.active = r /\ sess.status = "TYPING"
  /\ Begin(c, "beat", r, sess)
  /\ UNCHANGED <<sess, waiter, tracked, runner, sent>>

\* The system prompt is built; from here on the message is tracked.
TrackActiveMessage(r) ==
  /\ waiter[r].at = "prompt"
  /\ Waits(r, "enqueue") /\ tracked' = tracked \cup {r}
  /\ UNCHANGED <<sess, call, runner, sent>>

\* sendMessageViaLocalRunnerBridge enqueues the request in the session as it was when
\* the message was sent.
Enqueue(r) ==
  LET queued == [waiter[r].snap EXCEPT !.bridge[r] = "PENDING"]
  IN /\ waiter[r].at = "enqueue"
     /\ sess' = Preserved(queued, sess)
     /\ call' = [c \in Calls |-> Overtaken(c)]
     /\ Waits(r, "poll")
     /\ UNCHANGED <<tracked, runner, sent>>

\* Building the prompt or the request fails.
PrepareFails(r) ==
  /\ waiter[r].at \in {"prompt", "enqueue"}
  /\ Waits(r, "fail") /\ tracked' = tracked \ {r}
  /\ UNCHANGED <<sess, call, runner, sent>>

\* One look at the session, every second.
Poll(r) ==
  /\ waiter[r].at = "poll"
  /\ \/ sess.bridge[r] \in {"NONE", "ERROR"} /\ Waits(r, "fail")
     \/ sess.bridge[r] = "TIMEOUT" /\ Waits(r, "timedout")
     \/ sess.bridge[r] = "COMPLETED" /\ Waits(r, "finish")
     \/ /\ sess.bridge[r] \in Open
        /\ sess.active # r /\ sess.status # "TYPING"
        /\ Waits(r, "fail")
  /\ tracked' = tracked \ {r}
  /\ UNCHANGED <<sess, call, runner, sent>>

\* The deadline passes while the request is open; there is none by default.
Deadline(r) ==
  /\ TimeoutsConfigured
  /\ waiter[r].at = "poll" /\ sess.bridge[r] \in Open
  /\ Waits(r, "timedout") /\ tracked' = tracked \ {r}
  /\ UNCHANGED <<sess, call, runner, sent>>

\* The answer is put into the latest session.
Finish(c, r) ==
  /\ waiter[r].at = "finish"
  /\ Begin(c, "settle", r,
           Scoped(sess, r, [Responded(Clear(sess, "IDLE")) EXCEPT !.newest = r]))
  /\ Waits(r, "done")
  /\ UNCHANGED <<sess, tracked, runner, sent>>

\* The catch block: nothing when another request took over, else the bridge request
\* fails too; a message whose assignment is completed all the same counts as answered.
Fail(c, r) ==
  LET late == waiter[r].at = "timedout"
      base == FailBridge(sess, r, IF late THEN "TIMEOUT" ELSE "ERROR")
      over == [Clear(base, IF late THEN "IDLE" ELSE "ERROR") EXCEPT !.newest = r,
                                                                    !.failed = TRUE]
      answered == [Responded(Clear(base, "IDLE")) EXCEPT !.newest = r]
  IN /\ waiter[r].at \in {"fail", "timedout"}
     /\ IF sess.active # r /\ sess.status # "TYPING" THEN UNCHANGED call
        ELSE \/ Begin(c, "settle", r, Scoped(base, r, over))
             \/ ~late /\ Begin(c, "settle", r, Scoped(base, r, answered))
     /\ Waits(r, "done")
     /\ UNCHANGED <<sess, tracked, runner, sent>>
-------------------------------------------------------------------------------
(***************************************************************************)
(* The calls of the local runner: supervisorLoop claims the runtime, the    *)
(* worker it starts connects and polls.                                    *)
(***************************************************************************)
Goes(step) == runner' = [runner EXCEPT !.at = step]

\* isLocalRuntimeClaimable.
Claimable(s, quiet) ==
  \/ s.url /\ quiet
  \/ s.status = "WAITING" /\ (s.job \/ ~s.url)
  \/ s.status = "STARTING" /\ (IF s.job THEN quiet ELSE ~s.url)
  \/ s.status \in {"IDLE", "ERROR"} /\ ~s.url
  \/ s.job /\ ~s.url /\ OpenIn(s) # {}

\* claimQueuedLocalRuntime: a runtime that may be claimed, or whatever its state the one the
\* runner was started for (--member).  A supervisor whose worker still runs asks as well,
\* and ignores the answer.
Claim(c) ==
  LET off == runner.at = "off"
  IN /\ off \/ \E quiet \in BOOLEAN : Quiet(quiet) /\ Claimable(sess, quiet)
     /\ BeginHeard(c, "claim", NoRequest,
                   [sess EXCEPT !.status = "STARTING", !.url = FALSE, !.job = TRUE], off)
     /\ IF off THEN Goes("claiming") ELSE UNCHANGED runner
     /\ UNCHANGED <<sess, waiter, tracked, sent>>

\* completeQueuedLocalRuntime: the worker has started, or could not.
Connect(c) ==
  /\ \/ /\ runner.at = "starting"
        /\ BeginHeard(c, "connect", NoRequest,
             [sess EXCEPT !.status = "IDLE", !.url = TRUE, !.job = FALSE, !.failed = FALSE],
             TRUE)
        /\ Goes("connecting")
     \/ /\ runner.at \in {"starting", "abandon"}
        /\ BeginHeard(c, "connect", NoRequest,
             [sess EXCEPT !.status = "ERROR", !.job = FALSE, !.failed = TRUE], TRUE)
        /\ Goes("leaving")
  /\ UNCHANGED <<sess, waiter, tracked, sent>>

\* connectedQueuedLocalRuntimeSession: a poll shows that the runner is there.
Connected(s) ==
  LET typing == s.status = "TYPING" \/ (s.active # NoRequest /\ s.active \in OpenIn(s))
  IN IF s.url /\ s.status \in {"IDLE", "TYPING"} THEN s
     ELSE [s EXCEPT !.url = TRUE, !.status = IF typing THEN "TYPING" ELSE "IDLE",
                    !.failed = @ /\ typing]

Pending(s) == {r \in Requests : s.bridge[r] = "PENDING"}
FirstPending(s) == Min(Pending(s))
HandedOut(s) == [s EXCEPT !.status = "TYPING", !.bridge[FirstPending(s)] = "RUNNING"]

\* nextQueuedLocalRuntimeRequest: the first write is due when the runtime was not
\* connected or the heartbeat is some seconds old, the second when a request waits.
NextRequest(c) ==
  LET here == Connected(sess)
  IN /\ runner.at = "poll"
     /\ \/ BeginHeard(c, "heartbeat", NoRequest, here, TRUE)
        \/ /\ here = sess /\ Pending(sess) # {}
           /\ BeginHeard(c, "hand", FirstPending(sess), HandedOut(sess), TRUE)
     /\ Goes("asking")
     /\ UNCHANGED <<sess, waiter, tracked, sent>>

\* Mutant.
ProgressOnAny(c) ==
  LET q == runner.req
      shown == [sess EXCEPT !.status = "TYPING", !.active = q, !.bridge[q] = "RUNNING"]
  IN /\ runner.at = "run"
     /\ Begin(c, "progress", q, shown)
     /\ UNCHANGED <<sess, waiter, tracked, runner, sent>>
\* progressQueuedLocalRuntimeRequest; the reporter does not wait for its calls.
Progress(c) ==
  LET q == runner.req
      shown == [sess EXCEPT !.status = "TYPING", !.active = q, !.bridge[q] = "RUNNING"]
  IN /\ runner.at = "run"
     /\ sess.bridge[q] \in Open
     /\ Begin(c, "progress", q, Scoped(sess, q, shown))
     /\ UNCHANGED <<sess, waiter, tracked, runner, sent>>

\* completeQueuedLocalRuntimeRequest takes whatever state the request is in.
Completed(s, q, status) ==
  LET done == [s EXCEPT !.bridge[q] = status, !.settled = @ \ {q}]
  IN IF \/ s.active = q
        \/ s.active = NoRequest /\ s.status = "TYPING"
        \/ q \in Late(done)
     THEN Finalized(done, q)
     ELSE [done EXCEPT !.failed = @ \/ status = "ERROR"]

\* The worker posts its answer, or an error; it waits for what becomes of the answer.
Complete(c) ==
  LET q == runner.req
  IN /\ runner.at \in {"run", "report"}
     /\ sess.bridge[q] # "NONE"
     /\ \/ /\ runner.at = "run"
           /\ BeginHeard(c, "complete", q, Completed(sess, q, "COMPLETED"), TRUE)
           /\ Goes("completing")
        \/ /\ BeginHeard(c, "complete", q, Completed(sess, q, "ERROR"), TRUE)
           /\ Goes("failing")
     /\ UNCHANGED <<sess, waiter, tracked, sent>>

\* The runner is stopped, by a signal with a last call, or dead at once.  What it
\* asked for is carried out by the API all the same.
Unheard == [c \in Calls |-> IF call[c] = Free THEN Free ELSE [call[c] EXCEPT !.heard = FALSE]]

Disconnect(c) ==
  /\ runner.at \in {"poll", "asking", "run", "completing", "report", "failing"}
  /\ call[c] = Free
  /\ LET gone == [FailOpen(sess) EXCEPT !.status = "WAITING", !.url = FALSE, !.failed = TRUE]
     IN call' = [Unheard EXCEPT ![c] = [op |-> "disconnect", req |-> NoRequest,
                                        heard |-> FALSE, alone |-> TRUE,
                                        next |-> OfflineRecovered(gone)]]
  /\ runner' = Off
  /\ UNCHANGED <<sess, waiter, tracked, sent>>

Killed ==
  /\ runner # Off
  /\ call' = Unheard /\ runner' = Off
  /\ UNCHANGED <<sess, waiter, tracked, sent>>

\* What the worker does when a call fails: it gives the runtime up, polls again, or
\* posts an error for a request whose answer did not get through.
AfterFailure ==
  CASE runner.at \in {"claiming", "abandon", "leaving"} -> Off
    [] runner.at \in {"starting", "connecting"} -> [runner EXCEPT !.at = "abandon"]
    [] runner.at \in {"run", "completing"} -> [runner EXCEPT !.at = "report"]
    [] OTHER -> [at |-> "poll", req |-> NoRequest]

\* The answer of a call is lost, or the call never reaches the API (which also answers
\* 404 when the request is no longer in the bridge).
AnswerLost(c) ==
  /\ call[c] # Free /\ call[c].heard
  /\ call' = [call EXCEPT ![c].heard = FALSE]
  /\ runner' = AfterFailure
  /\ UNCHANGED <<sess, waiter, tracked, sent>>

CallFails ==
  /\ runner.at \in {"starting", "abandon", "run", "report"}
  /\ runner' = AfterFailure
  /\ UNCHANGED <<sess, call, waiter, tracked, sent>>
-------------------------------------------------------------------------------
\* What the runner does with an answer.
Answered(c) ==
  CASE ~call[c].heard -> runner
    [] runner.at = "leaving" -> Off
    [] call[c].op = "claim" -> [runner EXCEPT !.at = "starting"]
    [] call[c].op = "hand" -> [at |-> "run", req |-> call[c].req]
    [] OTHER -> [at |-> "poll", req |-> NoRequest]

\* writeRuntimeSession: in a transaction that locks the row.  Handlers with two writes
\* go on with the session they have, not with the one that is stored.
Write(c) ==
  LET now == call[c].next
      op == call[c].op
  IN /\ call[c] # Free
     /\ sess' = Preserved(now, sess)
     /\ \/ /\ op = "recoverFirst"
           /\ Overtakes(c, [call[c] EXCEPT !.op = "send", !.next = Typing(now, call[c].req)])
           /\ UNCHANGED <<waiter, runner>>
        \/ /\ op = "heartbeat" /\ Pending(now) # {}
           /\ Overtakes(c, [call[c] EXCEPT !.op = "hand", !.req = FirstPending(now),
                                           !.next = HandedOut(now)])
           /\ UNCHANGED <<waiter, runner>>
        \/ /\ ~(op = "recoverFirst" \/ (op = "heartbeat" /\ Pending(now) # {}))
           /\ Overtakes(c, Free)
           /\ runner' = Answered(c)
           /\ waiter' = IF op = "send"
                        THEN [waiter EXCEPT ![call[c].req] = [at |-> "prompt", snap |-> now]]
                        ELSE waiter
     /\ UNCHANGED <<tracked, sent>>

\* The API process restarts: handlers, waiters, the tracked messages and the send lock
\* are gone.
Crash ==
  /\ call' = [c \in Calls |-> Free]
  /\ waiter' = [r \in Requests |->
       IF waiter[r].at = "none" THEN waiter[r] ELSE Unsent("done")]
  /\ tracked' = {}
  /\ runner' = IF \E c \in Calls : call[c] # Free /\ call[c].heard THEN AfterFailure
               ELSE runner
  /\ UNCHANGED <<sess, sent>>
-------------------------------------------------------------------------------
WaiterStep(r) == \/ TrackActiveMessage(r) \/ Enqueue(r) \/ PrepareFails(r)
                 \/ Poll(r) \/ Deadline(r)
                 \/ \E c \in Calls : Beat(c, r) \/ Finish(c, r) \/ Fail(c, r)

RunnerCall(c) == Claim(c) \/ Connect(c) \/ NextRequest(c) \/ Progress(c) \/ Complete(c)
                 \/ Disconnect(c) \/ AnswerLost(c)

Next == \/ \E c \in Calls : \/ Refresh(c) \/ RecoverOnRead(c) \/ Send(c) \/ Cancel(c)
                            \/ Reconnect(c) \/ RunnerCall(c) \/ Write(c)
        \/ \E r \in Requests : WaiterStep(r)
        \/ Killed \/ CallFails \/ Crash

Spec == Init /\ [][Next]_vars

(***************************************************************************)
(* The promise of the event loop: a handler that has read goes on to write, *)
(* and the code that waits for a message goes on.  Call slots are only a    *)
(* bound of the model, so nobody is kept from one for ever (SF).  Somebody   *)
(* keeps looking at the runtime (the page that shows it, the coordinator),  *)
(* and a CLI that was started on a request ends, one way or another.        *)
(***************************************************************************)
RunEnds == /\ runner.at = "run"
           /\ Killed \/ CallFails \/ \E c \in Calls : Complete(c) \/ Disconnect(c)
Settles(r) == \E c \in Calls : Finish(c, r) \/ Fail(c, r)

Fairness ==
  /\ \A c \in Calls : WF_vars(Write(c))
  /\ \A r \in Requests : /\ WF_vars(TrackActiveMessage(r) \/ Enqueue(r))
                         /\ WF_vars(Poll(r)) /\ WF_vars(Deadline(r))
                         /\ SF_vars(Settles(r))
  /\ SF_vars(\E c \in Calls : RecoverOnRead(c))
  /\ SF_vars(RunEnds)
  /\ <>[][~Crash]_vars

FairSpec == Spec /\ Fairness
-------------------------------------------------------------------------------
\* The session, the handlers, the waiters and the runner have the shapes declared above.
TypeOK ==
  /\ sess \in Session
  /\ call \in [Calls -> Call \cup {Free}]
  /\ waiter \in [Requests -> Waiter]
  /\ tracked \subseteq Requests
  /\ runner \in Runner
  /\ sent \in 0 .. MaxMessages

\* A tracked message has somebody who waits for it: a leaked entry would keep every
\* later look at the session from repairing it (hasActiveMessage).
TrackedWaits == \A r \in tracked : waiter[r].at \in {"enqueue", "poll"}

\* A message gets one waiter, whatever overlaps or restarts: while its send is on the
\* way nobody waits for it yet, and no second send of it is on the way.
Sending(c) == call[c] # Free /\ call[c].op \in {"send", "recoverFirst"}
OneWaiter == \A c \in Calls : Sending(c) =>
  /\ call[c].req \in Requests /\ call[c].req = sent
  /\ waiter[call[c].req].at = "none"
  /\ \A d \in Calls : Sending(d) => d = c

\* Messages not yet accepted have left no trace.
Untouched == \A r \in Requests : r > sent => waiter[r].at = "none"

\* Until a message is enqueued no session knows of it, neither the stored one nor those
\* that handlers are about to write or waiters keep.
Unqueued(r) == waiter[r].at \in {"none", "prompt", "enqueue"}
NotQueued ==
  \A r \in Requests : Unqueued(r) =>
    /\ sess.bridge[r] = "NONE"
    /\ \A c \in Calls : call[c] # Free => call[c].next.bridge[r] = "NONE"
    /\ \A o \in Requests : waiter[o].snap.bridge[r] = "NONE"

\* A send is about to write, and its waiter to enqueue, the session in which its message
\* is the active one.
SendsOwn ==
  /\ \A c \in Calls : call[c] # Free /\ call[c].op = "send" => call[c].next.active = call[c].req
  /\ \A r \in Requests : waiter[r].at \in {"prompt", "enqueue"} => waiter[r].snap.active = r

\* A handler nobody overtook is about to make no message active that has failed.
Failed == {"ERROR", "TIMEOUT"}
NotStale ==
  \A c \in Calls : call[c] # Free /\ call[c].alone =>
    \/ call[c].next.active \in {NoRequest, sess.active}
    \/ sess.bridge[call[c].next.active] \notin Failed

\* The inductive invariant of the module.
WaitersOK == TypeOK /\ TrackedWaits /\ OneWaiter /\ Untouched
Inv == WaitersOK /\ NotQueued /\ SendsOwn /\ NotStale

\* With the timeouts configured nobody sees the agent typing for ever: whatever is
\* lost, restarted or cancelled, the typing message is answered, fails or is reset.
TypingEnds == sess.status = "TYPING" ~> sess.status # "TYPING"

\* An answer that reached the session is put into the conversation in the end, also
\* after a restart of the API ("finalizes completed local-runner bridge requests after
\* an API restart"), unless a newer message took over or the request was failed.
Unshown(q) == sess.bridge[q] = "COMPLETED" /\ q \notin sess.settled
AnswerShown == \A q \in Requests : Unshown(q) ~> ~Unshown(q) \/ sess.newest > q

\* "Marks timed-out queued local requests terminal so late progress cannot revive typing":
\* a failed message comes back as the one the agent works on only through a handler that
\* somebody else overtook between its read of the session and its write.
NotRevived ==
  [][\A q \in Requests :
       /\ sess.bridge[q] \in Failed /\ sess.active # q
       /\ sess'.status = "TYPING" /\ sess'.active = q
       => \E c \in Calls : Write(c) /\ ~call[c].alone]_vars
=============================================================================
