------------------------------ MODULE WebChat ------------------------------
(***************************************************************************)
(* The chat page of the web client (use-chat-session.ts) against a CLI     *)
(* daemon: connecting to the session of the route, the reconnecting SSE    *)
(* subscription of cli-client.ts, the events applied to the messages on    *)
(* the screen, and the refreshes of the session tree, whose answers come   *)
(* when they come.                                                         *)
(*                                                                         *)
(* An action of the client is the code from one await to the next.  A      *)
(* connection attempt is a call of connectSession, made by the route       *)
(* effect (kind "init") or by retryConnection (kind "retry"); its step     *)
(* names the await at which it is.  The daemon is reduced to what a client *)
(* sees of it: the branch of a session, the events, and the buffer that    *)
(* the event hub keeps for a session without clients.                      *)
(***************************************************************************)
EXTENDS Naturals, Sequences, FiniteSets, SequencesExt

CONSTANTS Sessions,      \* the sessions of the daemon
          NewSessions,   \* those that the user creates from the page of a new chat
          Prompts,       \* the messages that the user may send
          Conns,         \* connection attempts
          Refreshes,     \* tree requests that may be under way at once
          Budgets,       \* bounds: how often users and faults act, one record for each case
          None

ASSUME WebChatAssumption ==
  /\ NewSessions \subseteq Sessions
  /\ None \notin Sessions \cup Prompts \cup Conns
  /\ Budgets \subseteq [{"faults", "routes", "compactions", "prompts", "attempts"} -> Nat]

VARIABLES
  route,       \* routeSessionId
  status,      \* ChatSessionStatus
  sseStatus,   \* SseConnectionStatus
  sessionId,   \* the state of that name
  messages,    \* what the screen shows
  compacting, stopping,      \* the flags of those names
  treeError,   \* whether treeError is set
  creating,    \* the message whose session is being created (creatingSession)
  pendingInitial,            \* pendingInitialMessageRef
  reachable, wasUnreachable, \* of the device; deviceWasUnreachableRef
  conn,        \* connection attempt -> its record
  cancelled,   \* the attempts whose route effect was cleaned up
  sseAbort,    \* sseAbortRef: the attempt whose subscription it would abort
  wire,        \* connection attempt -> events on their way to it
  refresh,     \* tree requests: id -> record, or None
  posts,       \* chat and abort requests under way
  branch,      \* daemon: the messages stored on the branch of a session
  jobs,        \* daemon: accepted prompts and compactions of a session
  turn,        \* daemon: what runs in a session
  pending,     \* daemon: the hub's buffer
  sendEffect,  \* whether the effect that sends pendingInitial is due
  budget,      \* what is left of the bounds
  \* what happened so far that no variable of the code records: the prompts written, the
  \* sessions they were for and those they have reached; an attempt to connect has met
  \* another; the last tree was older than one before it, or another session's, and how
  \* long the tree was; the first message of a chat met a change of the route; a retry has
  \* connected the page to another session than the one whose messages it still shows
  sent, intended, reached, overlap, outdated, shownLength, strayed, leftover

clientVars == <<route, status, sseStatus, sessionId, compacting, stopping, creating, pendingInitial,
                reachable, wasUnreachable, conn, cancelled, sseAbort>>
screenVars == <<messages, treeError, refresh>>
daemonVars == <<branch, jobs, turn>>
writing == <<sent, intended, reached>>
crossing == <<overlap, strayed>>
treeHistory == <<outdated, shownLength, leftover>>
history == <<writing, crossing, treeHistory>>
vars == <<clientVars, screenVars, daemonVars, wire, pending, posts, sendEffect, budget, history>>

Compaction == "compaction"
User(k)      == [role |-> "user", turn |-> k, streaming |-> FALSE, tool |-> FALSE, error |-> FALSE]
Assistant(k) == [User(k) EXCEPT !.role = "assistant"]
\* createAssistantMessage, for an agent_start
Reply(k) == [Assistant(k) EXCEPT !.streaming = TRUE]
Idle == [job |-> None, stored |-> FALSE, tool |-> FALSE]
NoConn == [of |-> None, kind |-> "init", step |-> "free", ever |-> FALSE]

Init ==
  /\ route = None /\ status = "idle" /\ sseStatus = "idle" /\ sessionId = None
  /\ messages = <<>> /\ treeError = FALSE
  /\ compacting = FALSE /\ stopping = FALSE
  /\ creating = None /\ pendingInitial = None
  /\ reachable = TRUE /\ wasUnreachable = FALSE
  /\ conn = [i \in Conns |-> NoConn] /\ cancelled = {} /\ sseAbort = None
  /\ wire = [i \in Conns |-> <<>>]
  /\ refresh = [x \in Refreshes |-> None]
  /\ posts = {} /\ sendEffect = FALSE
  /\ branch = [s \in Sessions |-> <<>>] /\ jobs = [s \in Sessions |-> <<>>]
  /\ turn = [s \in Sessions |-> Idle] /\ pending = [s \in Sessions |-> <<>>]
  /\ budget \in Budgets
  /\ sent = {} /\ intended = [k \in Prompts |-> None] /\ reached = {}
  /\ overlap = FALSE /\ outdated = FALSE /\ shownLength = 0 /\ strayed = FALSE /\ leftover = FALSE

-----------------------------------------------------------------------------
(* The messages on the screen. *)

LastIsAssistant(ms) == ms # <<>> /\ Last(ms).role = "assistant"

isStreaming(ms) == LastIsAssistant(ms) /\ Last(ms).streaming

\* updateLastAssistant: the last assistant message, a new one if there is none.
updateLastAssistant(ms, k, Updated(_)) ==
  LET at == {i \in DOMAIN ms : ms[i].role = "assistant"}
      i == CHOOSE j \in at : \A h \in at : h <= j
  IN  IF at = {} THEN Append(ms, Updated(Reply(k))) ELSE [ms EXCEPT ![i] = Updated(@)]

\* The blocks of a message are reduced to whether a tool runs; a message that takes
\* deltas of another turn takes over its number, so that it differs from the branch.
applySseEvent(ms, e) ==
  CASE e.type = "agent_start" -> Append(ms, Reply(e.turn))
    [] e.type = "text_delta"  -> updateLastAssistant(ms, e.turn, LAMBDA m : [m EXCEPT !.turn = e.turn])
    [] e.type = "tool_start"  -> updateLastAssistant(ms, e.turn, LAMBDA m : [m EXCEPT !.tool = TRUE])
    [] e.type = "tool_end"    -> updateLastAssistant(ms, e.turn, LAMBDA m : [m EXCEPT !.tool = FALSE])
    [] e.type = "agent_end"   -> updateLastAssistant(ms, e.turn,
                                    LAMBDA m : [m EXCEPT !.streaming = FALSE, !.tool = FALSE])
    [] e.type = "error"       -> updateLastAssistant(ms, e.turn,
                                    LAMBDA m : [m EXCEPT !.streaming = FALSE, !.error = TRUE])
    [] OTHER                  -> ms

\* Faulty KeepTail: the tail is kept whatever the branch ends in.
KeepTailAlways(fromBranch, tail) == Append(fromBranch, tail)

\* The tail of the screen is kept behind the branch, unless the branch ends in a reply.
KeepTail(fromBranch, tail) == IF LastIsAssistant(fromBranch) THEN fromBranch ELSE Append(fromBranch, tail)

finalizeInterruptedAssistant(m) == [m EXCEPT !.streaming = FALSE, !.tool = FALSE, !.error = TRUE]

mergeBranchWithEphemeralTail(current, fromBranch, finalizeStaleTail) ==
  IF ~LastIsAssistant(current) THEN fromBranch
  ELSE LET tail == Last(current) IN
       CASE finalizeStaleTail /\ (tail.streaming \/ tail.tool) ->
              KeepTail(fromBranch, finalizeInterruptedAssistant(tail))
         [] ~finalizeStaleTail /\ tail.streaming /\ ~tail.tool ->
              KeepTail(fromBranch, [tail EXCEPT !.streaming = FALSE])
         [] OTHER -> fromBranch

shouldFinalizeStaleTail ==
  wasUnreachable \/ (LastIsAssistant(messages) /\ (Last(messages).streaming \/ Last(messages).tool))

sessionReady == status = "ready" /\ sseStatus = "connected" /\ reachable
canSend == sessionReady /\ ~compacting
canStop == (isStreaming(messages) \/ compacting) /\ sessionReady /\ ~stopping

-----------------------------------------------------------------------------
(* The tree requests. *)

FreeRefresh == {x \in Refreshes : refresh[x] = None}
NewRefresh(s, finalize, waiter) ==
  [session |-> s, finalize |-> finalize, waiter |-> waiter, answered |-> FALSE, tree |-> <<>>]

\* refreshTree up to its await
refreshTree(s, finalize, waiter) ==
  \E x \in FreeRefresh :
    /\ refresh' = [refresh EXCEPT ![x] = NewRefresh(s, finalize, waiter)]
    /\ treeError' = FALSE

Spend(what) == budget[what] > 0 /\ budget' = [budget EXCEPT ![what] = @ - 1]
Fault == Spend("faults")

\* The daemon reads the branch for its answer.
AnswerTree(x) ==
  /\ refresh[x] # None /\ ~refresh[x].answered
  /\ refresh' = [refresh EXCEPT ![x].answered = TRUE, ![x].tree = branch[refresh[x].session]]
  /\ UNCHANGED <<clientVars, messages, treeError, daemonVars, wire, pending, posts, budget, history>>

\* connectSession after its refreshTree: it subscribes, whatever became of it meanwhile.
Proceed(i) ==
  IF i = None THEN UNCHANGED <<conn, sseAbort>>
              ELSE /\ conn' = [conn EXCEPT ![i].step = "subscribe"]
                   /\ sseAbort' = i

\* refreshTree after its await.  Nothing tells it that the route has changed, or that a
\* later request was answered before it: outdated.
ApplyTree(x) ==
  LET r == refresh[x] IN
  /\ r # None /\ r.answered
  /\ refresh' = [refresh EXCEPT ![x] = None]
  /\ messages' = mergeBranchWithEphemeralTail(messages, r.tree, r.finalize)
  /\ outdated' = (r.session # sessionId \/ Len(r.tree) < shownLength)
  /\ shownLength' = IF r.session = sessionId /\ Len(r.tree) > shownLength THEN Len(r.tree) ELSE shownLength
  /\ Proceed(r.waiter)
  /\ UNCHANGED <<route, status, sseStatus, sessionId, compacting, stopping, creating, pendingInitial,
                 reachable, wasUnreachable, cancelled, treeError, daemonVars, wire, pending, posts, budget,
                 writing, crossing, leftover>>

TreeFails(x) ==
  /\ refresh[x] # None /\ Fault
  /\ refresh' = [refresh EXCEPT ![x] = None]
  /\ treeError' = TRUE
  /\ Proceed(refresh[x].waiter)
  /\ UNCHANGED <<route, status, sseStatus, sessionId, compacting, stopping, creating, pendingInitial,
                 reachable, wasUnreachable, cancelled, messages, daemonVars, wire, pending, posts, history>>

-----------------------------------------------------------------------------
(* Connecting. *)

FreeConn == {i \in Conns : conn[i].step = "free"}

\* An attempt that goes on connecting, whether it is the one that counts or not
Connecting(c, gone, i) == \/ c[i].step \in {"settings", "tree"}
                          \/ c[i].step = "health" /\ i \notin gone

\* Some attempt goes on when another one starts, or when the page of the session is left.
MeetsOther(c, gone) == overlap' = (overlap \/ \E j \in Conns : Connecting(c, gone, j))

\* AbortController.abort of the subscription in sseAbortRef
Abort(c) == IF sseAbort = None THEN c ELSE [c EXCEPT ![sseAbort].step = "ended"]
AbortedWire == IF sseAbort = None THEN wire ELSE [wire EXCEPT ![sseAbort] = <<>>]

\* The route effect's init and retryConnection, up to checkCliHealth.
StartAttempt(c, gone, kind, s) ==
  \E i \in FreeConn :
    /\ i <= budget.attempts
    /\ \A j \in FreeConn : i <= j
    /\ conn' = [c EXCEPT ![i] = [NoConn EXCEPT !.of = s, !.kind = kind, !.step = "health"]]
    /\ cancelled' = gone
    /\ MeetsOther(c, gone)

\* Faulty Cleanup: the subscription lives on.
CleanupKeepsStream == conn

\* The cleanup of the route effect: the subscription is aborted, the last init cancelled.
Cleanup == Abort(conn)
CancelInits == cancelled \cup {i \in Conns : conn[i].kind = "init" /\ conn[i].step # "free"}

\* The route effect: cleanup, then init or resetToIdle.
RouteEffect(r) ==
  /\ Spend("routes")
  /\ route' = r
  /\ sseAbort' = None /\ wire' = AbortedWire
  /\ \/ /\ r # None
        /\ StartAttempt(Cleanup, CancelInits, "init", r)
        /\ strayed' = (strayed \/ pendingInitial # None \/ creating # None)
        /\ UNCHANGED <<status, sseStatus, sessionId, messages, treeError, leftover>>
     \/ /\ r = None
        /\ conn' = Cleanup /\ cancelled' = CancelInits
        /\ MeetsOther(Cleanup, CancelInits)
        /\ status' = "idle" /\ sseStatus' = "idle" /\ sessionId' = None
        /\ messages' = <<>> /\ treeError' = FALSE /\ leftover' = FALSE
        /\ UNCHANGED strayed

RouteTo(r) ==
  /\ r # route
  /\ RouteEffect(r)
  /\ pendingInitial' = IF r = None THEN None ELSE pendingInitial
  /\ UNCHANGED <<compacting, stopping, creating, reachable, wasUnreachable, refresh, daemonVars,
                 pending, posts, writing, outdated, shownLength>>

\* The catch of init and of retryConnection.
AttemptFails(i) ==
  /\ conn' = [conn EXCEPT ![i].step = "ended"]
  /\ IF conn[i].kind = "init" /\ i \in cancelled
     THEN UNCHANGED <<status, sseStatus>>
     ELSE status' = "error" /\ sseStatus' = "disconnected"

\* checkCliHealth answers; connectSession up to loadSettings.
CheckHealth(i) ==
  /\ conn[i].step = "health"
  /\ \/ /\ i \in cancelled
        /\ conn' = [conn EXCEPT ![i].step = "ended"]
        /\ UNCHANGED <<status, sseStatus, sessionId, messages, wire, shownLength, leftover>>
     \/ /\ i \notin cancelled
        /\ conn' = [Abort(conn) EXCEPT ![i].step = "settings"] /\ wire' = AbortedWire
        /\ status' = "connecting" /\ sseStatus' = "connecting"
        /\ sessionId' = conn[i].of
        /\ messages' = IF conn[i].kind = "init" THEN <<>> ELSE messages
        /\ shownLength' = 0
        /\ leftover' = (conn[i].kind = "retry" /\ (leftover \/ (sessionId # conn[i].of /\ messages # <<>>)))
  /\ UNCHANGED <<route, compacting, stopping, creating, pendingInitial, reachable, wasUnreachable, cancelled,
                 sseAbort, treeError, refresh, daemonVars, pending, posts, budget, writing, crossing, outdated>>

\* loadSettings answers; connectSession up to the answer of refreshTree.
LoadSettings(i) ==
  /\ conn[i].step = "settings"
  /\ conn' = [conn EXCEPT ![i].step = "tree"]
  /\ refreshTree(conn[i].of, FALSE, i)
  /\ UNCHANGED <<route, status, sseStatus, sessionId, compacting, stopping, creating, pendingInitial,
                 reachable, wasUnreachable, cancelled, sseAbort, messages, daemonVars, wire, pending, posts, budget, history>>

ConnectFails(i) ==
  /\ \/ conn[i].step \in {"health", "settings"}
     \/ conn[i].step = "subscribe" /\ ~conn[i].ever
  /\ Fault
  /\ AttemptFails(i)
  /\ UNCHANGED <<route, sessionId, compacting, stopping, creating, pendingInitial, reachable, wasUnreachable,
                 cancelled, sseAbort, screenVars, daemonVars, wire, pending, posts, history>>

\* subscribeSessionEvents: the response has come.  The hub replays its buffer into the stream.
Subscribe(i) ==
  /\ conn[i].step = "subscribe"
  /\ conn' = [conn EXCEPT ![i].step = "open", ![i].ever = TRUE]
  /\ sseStatus' = "connected"
  /\ wire' = [wire EXCEPT ![i] = pending[conn[i].of]]
  /\ pending' = [pending EXCEPT ![conn[i].of] = <<>>]
  /\ IF conn[i].ever THEN /\ refreshTree(conn[i].of, shouldFinalizeStaleTail, None)
                          /\ wasUnreachable' = FALSE
                          /\ UNCHANGED status
                     ELSE /\ status' = "ready"
                          /\ UNCHANGED <<wasUnreachable, refresh, treeError>>
  /\ UNCHANGED <<route, sessionId, compacting, stopping, creating, pendingInitial, reachable, cancelled, sseAbort,
                 messages, daemonVars, posts, budget, history>>

\* A stream that breaks, or a new subscription that fails: what is on the wire is lost.
StreamEnds(i) ==
  /\ conn[i].step = "open" \/ (conn[i].step = "subscribe" /\ conn[i].ever)
  /\ Fault
  /\ conn' = [conn EXCEPT ![i].step = "sleep"]
  /\ wire' = [wire EXCEPT ![i] = <<>>]
  /\ sseStatus' = "reconnecting"
  /\ UNCHANGED <<route, status, sessionId, compacting, stopping, creating, pendingInitial, reachable,
                 wasUnreachable, cancelled, sseAbort, screenVars, daemonVars, pending, posts, history>>

Wake(i) ==
  /\ conn[i].step = "sleep"
  /\ conn' = [conn EXCEPT ![i].step = "subscribe"]
  /\ UNCHANGED <<route, status, sseStatus, sessionId, compacting, stopping, creating, pendingInitial, reachable,
                 wasUnreachable, cancelled, sseAbort, screenVars, daemonVars, wire, pending, posts, budget, history>>

\* onEvent
Deliver(i) ==
  LET e == Head(wire[i]) IN
  /\ conn[i].step = "open" /\ wire[i] # <<>>
  /\ wire' = [wire EXCEPT ![i] = Tail(@)]
  /\ messages' = applySseEvent(messages, e)
  /\ compacting' = CASE e.type = "compaction_start" -> TRUE
                     [] e.type = "compaction_end" -> FALSE
                     [] OTHER -> compacting
  /\ stopping' = (stopping /\ e.type \notin {"agent_end", "compaction_end"})
  /\ IF e.type \in {"agent_end", "compaction_end"} THEN refreshTree(conn[i].of, FALSE, None)
                                                   ELSE UNCHANGED <<refresh, treeError>>
  /\ UNCHANGED <<route, status, sseStatus, sessionId, creating, pendingInitial, reachable, wasUnreachable,
                 conn, cancelled, sseAbort, daemonVars, pending, posts, budget, history>>

\* retryConnection, by the user or 800 ms after an error
RetryConnection ==
  /\ status = "error" /\ route # None
  /\ StartAttempt(conn, cancelled, "retry", route)
  /\ status' = "connecting" /\ sseStatus' = "connecting"
  /\ UNCHANGED <<route, sessionId, compacting, stopping, creating, pendingInitial, reachable, wasUnreachable,
                 sseAbort, screenVars, daemonVars, wire, pending, posts, budget, writing, strayed, treeHistory>>

DeviceLost ==
  /\ reachable /\ Fault
  /\ reachable' = FALSE /\ wasUnreachable' = TRUE
  /\ UNCHANGED <<route, status, sseStatus, sessionId, compacting, stopping, creating, pendingInitial, conn,
                 cancelled, sseAbort, screenVars, daemonVars, wire, pending, posts, history>>

\* The effect on reachable.
DeviceBack ==
  /\ ~reachable /\ reachable' = TRUE
  /\ \/ /\ status = "error" /\ route # None
        /\ StartAttempt(conn, cancelled, "retry", route)
        /\ status' = "connecting" /\ sseStatus' = "connecting"
        /\ UNCHANGED <<wasUnreachable, refresh, treeError>>
     \/ /\ status = "ready" /\ sessionId # None
        /\ refreshTree(sessionId, TRUE, None)
        /\ wasUnreachable' = FALSE
        /\ UNCHANGED <<status, sseStatus, conn, cancelled, overlap>>
     \/ /\ ~(status = "error" /\ route # None) /\ ~(status = "ready" /\ sessionId # None)
        /\ UNCHANGED <<status, sseStatus, conn, cancelled, overlap, wasUnreachable, refresh, treeError>>
  /\ UNCHANGED <<route, sessionId, compacting, stopping, creating, pendingInitial, sseAbort, messages,
                 daemonVars, wire, pending, posts, budget, writing, strayed, treeHistory>>

-----------------------------------------------------------------------------
(* The user. *)

\* sendMessage: the message is on the screen before the daemon has it.
Post(k) ==
  /\ messages' = Append(messages, User(k))
  /\ posts' = posts \cup {[kind |-> "chat", session |-> sessionId, prompt |-> k]}

sendMessage(k) ==
  /\ sessionId # None /\ canSend
  /\ k \notin sent /\ Spend("prompts")
  /\ Post(k)
  /\ sent' = sent \cup {k} /\ intended' = [intended EXCEPT ![k] = sessionId]
  /\ UNCHANGED <<clientVars, treeError, refresh, daemonVars, wire, pending, reached, crossing, treeHistory>>

\* startNewSessionWithMessage, to the answer of createCliSession
startNewSessionWithMessage(k) ==
  /\ route = None /\ creating = None
  /\ k \notin sent /\ Spend("prompts")
  /\ creating' = k
  /\ sent' = sent \cup {k}
  /\ UNCHANGED <<route, status, sseStatus, sessionId, compacting, stopping, pendingInitial, reachable,
                 wasUnreachable, conn, cancelled, sseAbort, screenVars, daemonVars, wire, pending, posts,
                 intended, reached, crossing, treeHistory>>

\* createSession resolves, onSessionChange changes the route; the effect's cleanup as ever.
SessionCreated(s) ==
  /\ creating # None
  /\ \A k \in Prompts : intended[k] # s
  /\ s # route
  /\ creating' = None /\ pendingInitial' = creating
  /\ Spend("routes")
  /\ route' = s
  /\ sseAbort' = None /\ wire' = AbortedWire
  /\ StartAttempt(Cleanup, CancelInits, "init", s)
  /\ intended' = [intended EXCEPT ![creating] = s]
  /\ UNCHANGED <<status, sseStatus, sessionId, compacting, stopping, reachable, wasUnreachable, screenVars,
                 daemonVars, pending, posts, sent, reached, strayed, treeHistory>>

CreateFails ==
  /\ creating # None /\ Fault
  /\ creating' = None
  /\ status' = "error" /\ sseStatus' = "disconnected"
  /\ UNCHANGED <<route, sessionId, compacting, stopping, pendingInitial, reachable, wasUnreachable, conn,
                 cancelled, sseAbort, screenVars, daemonVars, wire, pending, posts, history>>

\* The effect that sends the first message of a new session.  React runs it after the
\* render in which canSend or sendMessage (that is, sessionId) has changed.  When the
\* attempt of the session before has made the page ready, there is no session to send to,
\* and the message is gone.
EffectDue == sendEffect /\ pendingInitial # None /\ canSend

SendPending ==
  /\ EffectDue
  /\ pendingInitial' = None
  /\ IF sessionId = None THEN UNCHANGED <<messages, posts>> ELSE Post(pendingInitial)
  /\ UNCHANGED <<route, status, sseStatus, sessionId, compacting, stopping, creating, reachable, wasUnreachable,
                 conn, cancelled, sseAbort, treeError, refresh, daemonVars, wire, pending, budget, history>>

stopGeneration ==
  /\ sessionId # None /\ canStop
  /\ stopping' = TRUE
  /\ messages' = IF isStreaming(messages)
                 THEN updateLastAssistant(messages, None, LAMBDA m : [m EXCEPT !.streaming = FALSE, !.tool = FALSE])
                 ELSE messages
  /\ posts' = posts \cup {[kind |-> "abort", session |-> sessionId, prompt |-> None]}
  /\ UNCHANGED <<route, status, sseStatus, sessionId, compacting, creating, pendingInitial, reachable,
                 wasUnreachable, conn, cancelled, sseAbort, treeError, refresh, daemonVars, wire, pending, budget, history>>

compactContext ==
  /\ sessionId # None /\ ~compacting
  /\ Spend("compactions")
  /\ posts' = posts \cup {[kind |-> "compact", session |-> sessionId, prompt |-> None]}
  /\ UNCHANGED <<clientVars, screenVars, daemonVars, wire, pending, history>>

\* A chat or compact request is accepted, an abort request is answered.
PostAnswered(p) ==
  /\ p \in posts /\ posts' = posts \ {p}
  /\ \/ /\ p.kind = "chat"
        /\ jobs' = [jobs EXCEPT ![p.session] = Append(@, p.prompt)]
        /\ reached' = reached \cup {<<p.prompt, p.session>>}
        /\ UNCHANGED stopping
     \/ /\ p.kind = "compact"
        /\ jobs' = [jobs EXCEPT ![p.session] = Append(@, Compaction)]
        /\ UNCHANGED <<stopping, reached>>
     \/ /\ p.kind = "abort"
        /\ stopping' = (stopping /\ turn[p.session].job # None)
        /\ UNCHANGED <<jobs, reached>>
  /\ UNCHANGED <<route, status, sseStatus, sessionId, compacting, creating, pendingInitial, reachable,
                 wasUnreachable, conn, cancelled, sseAbort, screenVars, branch, turn, wire, pending, budget,
                 sent, intended, crossing, treeHistory>>

PostFails(p) ==
  /\ p \in posts /\ Fault
  /\ posts' = posts \ {p}
  /\ stopping' = (stopping /\ p.kind # "abort")
  /\ UNCHANGED <<route, status, sseStatus, sessionId, compacting, creating, pendingInitial, reachable,
                 wasUnreachable, conn, cancelled, sseAbort, screenVars, daemonVars, wire, pending, history>>

-----------------------------------------------------------------------------
(* The daemon, as the client sees it (ChatService and SessionEventHub in full). *)

Event(type, k) == [type |-> type, turn |-> k]
Clients(s) == {i \in Conns : conn[i].step = "open" /\ conn[i].of = s}

publish(s, events) ==
  IF Clients(s) = {} THEN /\ pending' = [pending EXCEPT ![s] = @ \o events]
                          /\ UNCHANGED wire
  ELSE /\ wire' = [i \in Conns |-> IF i \in Clients(s) THEN wire[i] \o events ELSE wire[i]]
       /\ UNCHANGED pending

DaemonStep(s) ==
  LET t == turn[s] IN
  \/ /\ t.job = None /\ jobs[s] # <<>> /\ Head(jobs[s]) # Compaction      \* a turn begins
     /\ jobs' = [jobs EXCEPT ![s] = Tail(@)]
     /\ \/ /\ turn' = [turn EXCEPT ![s] = [Idle EXCEPT !.job = Head(jobs[s])]]
           /\ branch' = [branch EXCEPT ![s] = Append(@, User(Head(jobs[s])))]
           /\ publish(s, <<Event("agent_start", Head(jobs[s]))>>)
        \/ /\ publish(s, <<Event("error", Head(jobs[s])), Event("agent_end", Head(jobs[s]))>>)  \* refused
           /\ UNCHANGED <<turn, branch>>
  \/ /\ t.job \in Prompts /\ ~t.stored                                      \* text, then a message is stored
     /\ turn' = [turn EXCEPT ![s].stored = TRUE, ![s].tool = TRUE]
     /\ branch' = [branch EXCEPT ![s] = Append(@, Assistant(t.job))]
     /\ publish(s, <<Event("text_delta", t.job), Event("tool_start", t.job)>>)
     /\ UNCHANGED jobs
  \/ /\ t.tool                                                              \* the tool ends
     /\ turn' = [turn EXCEPT ![s].tool = FALSE]
     /\ publish(s, <<Event("tool_end", t.job)>>)
     /\ UNCHANGED <<branch, jobs>>
  \/ /\ t.job \in Prompts /\ ~t.tool                                        \* the turn ends
     /\ turn' = [turn EXCEPT ![s] = Idle]
     /\ branch' = [branch EXCEPT ![s] = IF t.stored THEN @ ELSE Append(@, Assistant(t.job))]
     /\ publish(s, IF t.stored THEN <<Event("agent_end", t.job)>>
                               ELSE <<Event("text_delta", t.job), Event("agent_end", t.job)>>)
     /\ UNCHANGED jobs
  \/ /\ t.job = None /\ jobs[s] # <<>> /\ Head(jobs[s]) = Compaction
     /\ jobs' = [jobs EXCEPT ![s] = Tail(@)]
     /\ turn' = [turn EXCEPT ![s] = [Idle EXCEPT !.job = Compaction]]
     /\ publish(s, <<Event("compaction_start", None)>>)
     /\ UNCHANGED branch
  \/ /\ t.job = Compaction
     /\ turn' = [turn EXCEPT ![s] = Idle]
     /\ publish(s, <<Event("compaction_end", None)>>)
     /\ UNCHANGED <<branch, jobs>>

Daemon(s) ==
  /\ DaemonStep(s)
  /\ UNCHANGED <<clientVars, screenVars, posts, budget, history>>

-----------------------------------------------------------------------------

Client ==
  \/ \E x \in Refreshes : AnswerTree(x) \/ ApplyTree(x)
  \/ \E i \in Conns : CheckHealth(i) \/ LoadSettings(i) \/ Subscribe(i) \/ Wake(i) \/ Deliver(i)
  \/ \E p \in posts : PostAnswered(p)

Faults ==
  \/ \E x \in Refreshes : TreeFails(x)
  \/ \E i \in Conns : ConnectFails(i) \/ StreamEnds(i)
  \/ \E p \in posts : PostFails(p)
  \/ DeviceLost \/ DeviceBack \/ CreateFails

UserStep ==
  \/ \E r \in Sessions \cup {None} : RouteTo(r)
  \/ \E k \in Prompts : sendMessage(k) \/ startNewSessionWithMessage(k)
  \/ \E s \in NewSessions : SessionCreated(s)
  \/ stopGeneration \/ compactContext \/ RetryConnection

Next ==
  \/ SendPending /\ sendEffect' = FALSE
  \/ /\ ~EffectDue
     /\ Client \/ Faults \/ UserStep \/ (\E s \in Sessions : Daemon(s))
     /\ sendEffect' = (canSend' /\ (~canSend \/ sessionId' # sessionId))

Spec == Init /\ [][Next]_vars

-----------------------------------------------------------------------------

Message == [role : {"user", "assistant"}, turn : Prompts \cup {None},
            streaming : BOOLEAN, tool : BOOLEAN, error : BOOLEAN]
SseEvent == [type : {"agent_start", "text_delta", "tool_start", "tool_end", "agent_end", "error",
                     "compaction_start", "compaction_end"},
             turn : Prompts \cup {None}]
Attempt == [of : Sessions \cup {None}, kind : {"init", "retry"}, ever : BOOLEAN,
            step : {"free", "health", "settings", "tree", "subscribe", "open", "sleep", "ended"}]
TreeRequest == [session : Sessions, finalize : BOOLEAN, waiter : Conns \cup {None},
                answered : BOOLEAN, tree : Seq(Message)]
PostRequest == [kind : {"chat"}, session : Sessions, prompt : Prompts]
                 \cup [kind : {"abort", "compact"}, session : Sessions, prompt : {None}]

TypeOK ==
  /\ route \in Sessions \cup {None} /\ sessionId \in Sessions \cup {None}
  /\ status \in {"idle", "connecting", "ready", "error"}
  /\ sseStatus \in {"idle", "connecting", "connected", "reconnecting", "disconnected"}
  /\ messages \in Seq(Message)
  /\ compacting \in BOOLEAN /\ stopping \in BOOLEAN /\ treeError \in BOOLEAN
  /\ creating \in Prompts \cup {None} /\ pendingInitial \in Prompts \cup {None}
  /\ conn \in [Conns -> Attempt] /\ cancelled \subseteq Conns /\ sseAbort \in Conns \cup {None}
  /\ wire \in [Conns -> Seq(SseEvent)] /\ pending \in [Sessions -> Seq(SseEvent)]
  /\ refresh \in [Refreshes -> TreeRequest \cup {None}]
  /\ posts \subseteq PostRequest
  /\ branch \in [Sessions -> Seq(Message)] /\ jobs \in [Sessions -> Seq(Prompts \cup {Compaction})]
  /\ turn \in [Sessions -> [job : Prompts \cup {Compaction, None}, stored : BOOLEAN, tool : BOOLEAN]]
  /\ \A s \in Sessions : turn[s].tool => turn[s].job \in Prompts
  /\ sent \subseteq Prompts /\ intended \in [Prompts -> Sessions \cup {None}]
  /\ reached \subseteq Prompts \X Sessions
  /\ overlap \in BOOLEAN /\ strayed \in BOOLEAN /\ leftover \in BOOLEAN

\* A connection attempt whose subscription lives on.
Subscribed == {i \in Conns : conn[i].step \in {"subscribe", "open", "sleep"}}

\* What leaves the page of a session aborts its subscription, and nothing else opens a
\* second one, as long as attempts to connect did not overlap: at most one subscription,
\* it is the one that sseAbortRef can abort, and it feeds the screen of its own session.
OneSubscription ==
  ~overlap => \A i \in Subscribed : sseAbort = i /\ sessionId = conn[i].of

\* The messages of a screen that the daemon knows of.
Known(ms) == SelectSeq(ms, LAMBDA m : m.role = "assistant" \/ \E s \in Sessions : <<m.turn, s>> \in reached)

Quiet ==
  /\ status = "ready" /\ sessionId # None
  /\ \E i \in Conns : conn[i].step = "open" /\ conn[i].of = sessionId
  /\ \A x \in Refreshes : refresh[x] = None
  /\ \A i \in Conns : wire[i] = <<>>
  /\ jobs[sessionId] = <<>> /\ turn[sessionId] = Idle
  /\ \A p \in posts : p.kind # "chat"
  /\ ~treeError

\* When all has been delivered and nothing runs, the screen shows what the daemon has
\* stored on the branch: no reply lost, doubled, cut or still streaming, whatever was lost
\* with broken streams, replayed from the hub's buffer or refreshed in the middle of a
\* turn.  Exempt are screens that were fed by overlapping attempts to connect, those
\* whose last tree was older than one before it, or another session's, and those that a
\* retry has taken over from another session: only init clears the messages, and the reply
\* that streamed there is kept as the tail of this session's branch.
SettledScreen ==
  Quiet /\ ~overlap /\ ~outdated /\ ~leftover => Known(messages) = branch[sessionId]

\* A message reaches the session for which the user wrote it, the first message of a
\* new chat included, which waits for its session to be created and connected, if the
\* user does not go to another session meanwhile and no earlier attempt to connect is
\* under way: pendingInitialMessageRef names no session.
MessageReachesItsSession ==
  ~strayed /\ ~overlap => \A a \in reached : a[2] = intended[a[1]]

\* An attempt takes its steps in order: sseAbortRef is set when it subscribes, and until
\* then one tree request is under way for it.
AttemptsInOrder ==
  /\ \A i \in Conns : conn[i].step # "free" => conn[i].of \in Sessions
  /\ sseAbort # None => conn[sseAbort].step \in {"subscribe", "open", "sleep", "ended"}
  /\ \A x \in Refreshes : refresh[x] # None /\ refresh[x].waiter # None =>
       /\ conn[refresh[x].waiter].step = "tree"
       /\ \A y \in Refreshes : refresh[y] # None /\ refresh[y].waiter = refresh[x].waiter => x = y

\* As long as attempts to connect did not overlap, what connects or is connected is of the
\* route's session: nothing is left of a session whose page was left, and the page of a
\* new chat, which has no session, is never ready.
ConnectedToRoute ==
  ~overlap =>
    /\ \A i, j \in Conns : Connecting(conn, cancelled, i) /\ Connecting(conn, cancelled, j) => i = j
    /\ \A i \in Conns : Connecting(conn, cancelled, i) \/ i \in Subscribed => conn[i].of = route
    /\ \A i \in Conns : conn[i].step \in {"settings", "tree"} => sessionId = conn[i].of /\ Subscribed = {}
    /\ route = None => sessionId = None /\ status # "ready"

\* A prompt whose session is being created or connected has not been posted.
PostedOnce ==
  /\ \A p \in posts : p.kind = "chat" => p.prompt \in sent
  /\ \A a \in reached : a[1] \in sent
  /\ \A k \in {creating, pendingInitial} \ {None} :
       k \in sent /\ (\A p \in posts : p.kind = "chat" => p.prompt # k) /\ (\A a \in reached : a[1] # k)
  /\ creating # None => creating # pendingInitial

\* The first message of a new chat waits on the page where it was written, then on the page
\* of its session, and finds no other session there when the page is ready.
FirstMessageWaits ==
  ~strayed /\ ~overlap =>
    /\ creating # None => route = None /\ pendingInitial = None
    /\ pendingInitial # None =>
         /\ route # None /\ intended[pendingInitial] = route
         /\ status = "ready" => sessionId = route
    /\ \A p \in posts : p.kind = "chat" => p.session = intended[p.prompt]

WebChatInv ==
  /\ TypeOK /\ OneSubscription /\ MessageReachesItsSession
  /\ AttemptsInOrder /\ ConnectedToRoute /\ PostedOnce /\ FirstMessageWaits
=============================================================================
