----------------------------- MODULE DeviceLink -----------------------------
(***************************************************************************)
(* What connects the web client to a device besides the chat: the stream   *)
(* of device events with its retry loop (subscribeDeviceEvents), the state *)
(* that the hook and the store keep of it, the status panel that opens and *)
(* closes by itself (DeviceStatusController), and the list of sessions     *)
(* that the events keep up to date (use-session-list.ts).                  *)
(*                                                                         *)
(* Streams are numbered as the daemon answers them.  React's passive       *)
(* effects of a commit run child first: setHealth, of the controller, runs *)
(* before setDeviceSseState, of the provider (Commit).                     *)
(***************************************************************************)
EXTENDS Naturals, Sequences, FiniteSets, SequencesExt

CONSTANTS Sessions,    \* sessions that the daemon may list
          Streams,     \* 1 .. the number of streams the daemon may answer
          Requests,    \* list requests under way at once
          Bounds,      \* how often faults, changes, users and the chat act
          Null

Titles == {"untitled", "titled", "renamed"}
ListState == [Sessions -> Titles \cup {Null}]
ListRequest == [effect : BOOLEAN, cancelled : BOOLEAN, answered : BOOLEAN, sessions : ListState]

Budget == [faults : Nat, changes : Nat, exits : Nat, user : Nat, chat : Nat]
PublishState == [event : {"changed", "shutting_down"}, id : Nat, ahead : SUBSET Streams]

ASSUME LinkAssumption ==
  /\ Streams \subseteq Nat \ {0}
  /\ Bounds \subseteq Budget
  /\ Null \notin Titles \cup ListRequest

VARIABLES
  phase,       \* daemon: up, stopping or down
  registry,    \* daemon: session -> its title, or Null
  hub,         \* daemon: DeviceEventHub.subscribers, ids of streams
  serving,     \* daemon: the stream that it serves, 0 for none
  publishing,  \* daemon: calls of publish, with the subscribers ahead of them
  link,        \* subscribeDeviceEvents: step, retryAttempt, everConnected, stream
  wire,        \* events of the current stream on their way
  hook,        \* the state of use-device-health
  store,       \* the part of it that useDeviceStatusStore has
  chat,        \* store: what the chat page reports
  panel,       \* store and controller: the panel, its flags and timers
  list,        \* use-session-list: sessions, patches, error, a refresh due
  request,     \* its requests
  meta,        \* session_meta_updated events on their way, from the session's SSE
  left,        \* what is left of Bounds
  history      \* for the properties

daemonVars == <<phase, registry, hub, serving, publishing>>
statusVars == <<hook, store, chat, panel>>
listVars   == <<list, request, meta>>
vars == <<daemonVars, link, wire, statusVars, listVars, left, history>>

NoTitles == [s \in Sessions |-> Null]
up == phase # "down"

Init ==
  /\ phase = "up" /\ registry = NoTitles /\ hub = {} /\ serving = 0 /\ publishing = {}
  /\ link = [step |-> "fetch", attempt |-> 0, ever |-> FALSE, stream |-> 0]
  /\ wire = <<>>
  /\ hook = [reachable |-> Null, checking |-> TRUE, status |-> "connecting"]
  /\ store = [reachable |-> Null, checking |-> FALSE, status |-> "idle"]
  /\ chat = "off"
  /\ panel = [prev |-> "ready", open |-> FALSE, byUser |-> FALSE, auto |-> FALSE,
              expand |-> FALSE, close |-> FALSE]
  /\ list = [sessions |-> NoTitles, patches |-> NoTitles, error |-> FALSE, due |-> TRUE]
  /\ request = [x \in Requests |-> Null] /\ meta = {}
  /\ left \in Bounds
  /\ history = [gap |-> FALSE, crossed |-> FALSE]

Spend(what) == left[what] > 0 /\ left' = [left EXCEPT ![what] = @ - 1]

-----------------------------------------------------------------------------
(* The daemon. *)

\* A change that the hub announces is missed by a client whose stream is not in the hub
\* yet, although it has its answer, or that has never been connected.
Missed == link.stream \notin hub /\ (~link.ever \/ serving # 0)

\* Sessions created, deleted and renamed by requests of other clients.
ChangeRegistry(s, title) ==
  /\ up /\ (title = "untitled") = (registry[s] = Null) /\ registry[s] # title /\ Spend("changes")
  /\ registry' = [registry EXCEPT ![s] = title]
  /\ publishing' = publishing \cup {[event |-> "changed", id |-> left["changes"], ahead |-> hub]}
  /\ history' = [history EXCEPT !.gap = @ \/ Missed]
  /\ UNCHANGED <<phase, hub, serving, link, wire, statusVars, listVars>>

\* The title service: the chat page hears of it on the session's stream, the hub does not.
SetTitle(s) ==
  /\ up /\ registry[s] = "untitled" /\ Spend("changes")
  /\ registry' = [registry EXCEPT ![s] = "titled"]
  /\ meta' = meta \cup {s}
  /\ UNCHANGED <<phase, hub, serving, publishing, link, wire, statusVars, list, request, history>>

\* One write of publish.  A stream that is gone takes the event, or is dropped at the end.
Write(p, i) ==
  /\ p \in publishing /\ i \in p.ahead
  /\ publishing' = (publishing \ {p}) \cup {[p EXCEPT !.ahead = @ \ {i}]}
  /\ wire' = IF i = link.stream /\ link.step \in {"answered", "open"} THEN Append(wire, p.event) ELSE wire
  /\ UNCHANGED <<phase, registry, hub, serving, link, statusVars, listVars, left, history>>

PublishEnds(p) ==
  /\ p \in publishing /\ p.ahead = {}
  /\ publishing' = publishing \ {p}
  /\ hub' = hub \cap {serving}
  /\ UNCHANGED <<phase, registry, serving, link, wire, statusVars, listVars, left, history>>

\* shutdown; a daemon without a device token announces nothing.
Shutdown ==
  /\ phase = "up" /\ phase' = "stopping" /\ Spend("exits")
  /\ \/ publishing' = publishing \cup {[event |-> "shutting_down", id |-> 0, ahead |-> hub]}
     \/ UNCHANGED publishing
  /\ UNCHANGED <<registry, hub, serving, link, wire, statusVars, listVars, history>>

\* The process exits: 3 s after the signal at the latest, or because it is killed.
Exit ==
  /\ (phase = "stopping" /\ UNCHANGED left) \/ (up /\ Spend("faults"))
  /\ phase' = "down" /\ hub' = {} /\ serving' = 0 /\ publishing' = {}
  /\ UNCHANGED <<registry, link, wire, statusVars, listVars, history>>

Restart ==
  /\ ~up /\ phase' = "up"
  /\ UNCHANGED <<registry, hub, serving, publishing, link, wire, statusVars, listVars, left, history>>

\* The handler of DEVICE_EVENTS answers, and writes "connected" before it subscribes.
AnswerStream ==
  /\ up /\ link.step = "fetch"
  /\ link.stream + 1 \in Streams
  /\ link' = [link EXCEPT !.step = "answered", !.stream = @ + 1]
  /\ wire' = <<>>
  /\ serving' = link.stream + 1
  /\ UNCHANGED <<phase, registry, hub, publishing, statusVars, listVars, left, history>>

subscribe ==
  /\ up /\ serving # 0 /\ serving \notin hub
  /\ hub' = hub \cup {serving}
  \* a Map's iteration visits what is added to it meanwhile
  /\ publishing' = {[p EXCEPT !.ahead = @ \cup {serving}] : p \in publishing}
  /\ UNCHANGED <<phase, registry, serving, link, wire, statusVars, listVars, left, history>>

-----------------------------------------------------------------------------
(* The stream's client. *)

\* The head of the loop after a failure: it waits with the delay of computeSseBackoffMs.
\* Attempts are counted to 2, longer delays look the same without a clock.
Loop ==
  /\ link' = [link EXCEPT !.step = "wait", !.attempt = IF @ < 2 THEN @ + 1 ELSE @]
  /\ hook' = [reachable |-> FALSE, checking |-> FALSE, status |-> "reconnecting"]

\* Faulty Connected: onReconnected does not say that the device is reachable again.
ConnectedFirstOnly ==
  /\ link.step = "answered"
  /\ link' = [link EXCEPT !.step = "open", !.attempt = 0, !.ever = TRUE]
  /\ hook' = [hook EXCEPT !.reachable = IF link.ever THEN @ ELSE TRUE, !.status = "connected"]
  /\ list' = [list EXCEPT !.due = @ \/ link.ever]
  /\ UNCHANGED <<daemonVars, wire, store, chat, panel, request, meta, left, history>>

\* The response: onConnected or onReconnected.
Connected ==
  /\ link.step = "answered"
  /\ link' = [link EXCEPT !.step = "open", !.attempt = 0, !.ever = TRUE]
  /\ hook' = [hook EXCEPT !.reachable = TRUE, !.status = "connected", !.checking = IF link.ever THEN @ ELSE FALSE]
  /\ list' = [list EXCEPT !.due = @ \/ link.ever]
  /\ UNCHANGED <<daemonVars, wire, store, chat, panel, request, meta, left, history>>

\* The fetch fails (onConnectFailed, then onReconnecting).
FetchFails ==
  /\ link.step = "fetch"
  /\ (~up /\ UNCHANGED left) \/ Spend("faults")
  /\ Loop
  /\ UNCHANGED <<daemonVars, wire, store, chat, panel, listVars, history>>

\* The stream ends, or its reading throws.
StreamEnds ==
  /\ link.step = "open"
  /\ (serving # link.stream /\ wire = <<>> /\ UNCHANGED left) \/ Spend("faults")
  /\ Loop
  /\ wire' = <<>>
  /\ UNCHANGED <<daemonVars, store, chat, panel, listVars, history>>

\* The answer is lost on its way.
AnswerLost ==
  /\ link.step = "answered" /\ serving # link.stream
  /\ Loop
  /\ wire' = <<>>
  /\ UNCHANGED <<daemonVars, store, chat, panel, listVars, left, history>>

\* A second passes, or a user has seen the page: React has committed what came before.
Rendered == store = hook

\* waitForSseRetry: the delay has elapsed.
Elapsed ==
  /\ link.step = "wait" /\ Rendered
  /\ link' = [link EXCEPT !.step = "fetch"]
  /\ UNCHANGED <<daemonVars, wire, statusVars, listVars, left, history>>

\* retryNow: by the user, or because the page has become visible.
retryNow ==
  /\ Rendered /\ Spend("user")
  /\ link' = [link EXCEPT !.attempt = 0, !.step = IF @ = "wait" THEN "fetch" ELSE @]
  /\ UNCHANGED <<daemonVars, wire, statusVars, listVars, history>>

\* onEvent
Deliver ==
  /\ link.step = "open" /\ wire # <<>>
  /\ wire' = Tail(wire)
  /\ \/ /\ Head(wire) = "shutting_down"
        /\ hook' = [hook EXCEPT !.reachable = FALSE, !.status = "disconnected"]
        /\ UNCHANGED list
     \/ /\ Head(wire) = "changed"
        /\ list' = [list EXCEPT !.due = TRUE]
        /\ UNCHANGED hook
  /\ UNCHANGED <<daemonVars, link, store, chat, panel, request, meta, left, history>>

-----------------------------------------------------------------------------
(* The store, the controller and the panel. *)

\* resolveDeviceAggregateStatus, for a client that has chosen a device
resolveDeviceAggregateStatus(st, c) ==
  CASE st.status = "connecting" \/ st.checking -> "checking"
    [] st.status = "reconnecting" -> "reconnecting"
    [] st.reachable = FALSE \/ st.status = "disconnected" -> "unreachable"
    [] c = "failed" -> "session_disconnected"
    [] c \in {"connecting", "reconnecting"} -> c
    [] OTHER -> "ready"

isDeviceStatusFailure(a) == a \in {"unreachable", "session_disconnected"}

\* handleTransition; activities are left out.
handleTransition(p, a) ==
  LET opens == isDeviceStatusFailure(a)
      isAuto == p.auto \/ opens
  IN  [prev   |-> a,
       open   |-> p.open \/ opens,
       byUser |-> p.byUser,
       auto   |-> isAuto,
       expand |-> a = "reconnecting",
       close  |-> ~opens /\ (p.close \/ (a = "ready" /\ isAuto /\ ~p.byUser))]

\* The listener of the store.
Notified(p, st, c) ==
  LET a == resolveDeviceAggregateStatus(st, c) IN IF a = p.prev THEN p ELSE handleTransition(p, a)

\* The effects of a commit after the hook's state has changed, child first.
Commit ==
  LET mid == [store EXCEPT !.reachable = hook.reachable, !.checking = hook.checking] IN
  /\ store # hook
  /\ store' = hook
  /\ panel' = Notified(Notified(panel, mid, chat), hook, chat)
  /\ list' = [list EXCEPT !.due = @ \/ (store.reachable = FALSE /\ hook.reachable = TRUE)]
  /\ UNCHANGED <<daemonVars, link, wire, hook, chat, request, meta, left, history>>

\* setChatState, resetChatState
ChatChanges(c) ==
  /\ c # chat /\ Spend("chat")
  /\ chat' = c
  /\ panel' = Notified(panel, store, c)
  /\ UNCHANGED <<daemonVars, link, wire, hook, store, listVars, history>>

\* The timer of SSE_RECONNECT_AUTO_EXPAND_MS.  A recovery timer that runs at the same
\* time was started before it and is shorter.
ExpandTimer ==
  /\ panel.expand /\ ~panel.close
  /\ panel' = [panel EXCEPT !.expand = FALSE, !.auto = TRUE, !.open = TRUE]
  /\ UNCHANGED <<daemonVars, link, wire, hook, store, chat, listVars, left, history>>

\* The timer of RECOVERY_AUTO_CLOSE_MS
RecoveryTimer ==
  /\ panel.close
  /\ panel' = [panel EXCEPT !.close = FALSE, !.auto = FALSE, !.open = FALSE, !.byUser = FALSE]
  /\ UNCHANGED <<daemonVars, link, wire, hook, store, chat, listVars, left, history>>

togglePanel ==
  /\ Spend("user")
  /\ panel' = [panel EXCEPT !.open = ~@, !.byUser = ~panel.open]
  /\ UNCHANGED <<daemonVars, link, wire, hook, store, chat, listVars, history>>

-----------------------------------------------------------------------------
(* The list of sessions. *)

NewRequest(effect) == [effect |-> effect, cancelled |-> FALSE, answered |-> FALSE, sessions |-> NoTitles]
Cancelled == [x \in Requests |-> IF request[x] = Null \/ ~request[x].effect THEN request[x]
                                 ELSE [request[x] EXCEPT !.cancelled = TRUE]]

\* Faulty ListEffect: a request that is under way serves for the new one.
ListEffectJoins ==
  /\ list.due
  /\ IF \E x \in Requests : request[x] # Null THEN UNCHANGED request
     ELSE \E x \in Requests : request' = [request EXCEPT ![x] = NewRequest(TRUE)]
  /\ list' = [list EXCEPT !.due = FALSE]
  /\ UNCHANGED <<daemonVars, link, wire, statusVars, meta, left, history>>

\* The effect on refreshNonce: it cancels the one before.
ListEffect ==
  /\ list.due
  /\ \E x \in Requests :
       /\ request[x] = Null
       /\ request' = [Cancelled EXCEPT ![x] = NewRequest(TRUE)]
  /\ list' = [list EXCEPT !.due = FALSE]
  /\ UNCHANGED <<daemonVars, link, wire, statusVars, meta, left, history>>

\* refresh, which clears the patches first and which nothing cancels
refresh ==
  /\ Spend("user")
  /\ \E x \in Requests :
       /\ request[x] = Null
       /\ request' = [request EXCEPT ![x] = NewRequest(FALSE)]
  /\ list' = [list EXCEPT !.patches = NoTitles]
  /\ UNCHANGED <<daemonVars, link, wire, statusVars, meta, history>>

AnswerList(x) ==
  /\ up /\ request[x] # Null /\ ~request[x].answered
  /\ request' = [request EXCEPT ![x].answered = TRUE, ![x].sessions = registry]
  /\ UNCHANGED <<daemonVars, link, wire, statusVars, list, meta, left, history>>

\* history.crossed: an answer of refresh overtakes another, or a patch arrives between
\* the reading of the list and its answer, which clears it.
ApplyList(x) ==
  LET r == request[x] IN
  /\ r # Null /\ r.answered
  /\ request' = [request EXCEPT ![x] = Null]
  /\ list' = IF r.cancelled THEN list
             ELSE [list EXCEPT !.sessions = r.sessions, !.patches = NoTitles, !.error = FALSE]
  /\ history' = [history EXCEPT !.crossed = @ \/ ~r.effect \/ \E y \in Requests \ {x} :
                                                                 request[y] # Null /\ ~request[y].effect]
  /\ UNCHANGED <<daemonVars, link, wire, statusVars, meta, left>>

ListFails(x) ==
  /\ request[x] # Null
  /\ (~up /\ ~request[x].answered /\ UNCHANGED left) \/ Spend("faults")
  /\ request' = [request EXCEPT ![x] = Null]
  /\ list' = IF request[x].cancelled THEN list ELSE [list EXCEPT !.error = TRUE]
  /\ UNCHANGED <<daemonVars, link, wire, statusVars, meta, history>>

\* patchSession, for a session_meta_updated event.  history.crossed: it arrives after another
\* client has renamed the session, or it crosses a list that is read.
patchSession(s) ==
  /\ s \in meta /\ meta' = meta \ {s}
  /\ list' = [list EXCEPT !.patches[s] = "titled"]
  /\ history' = [history EXCEPT !.crossed = @ \/ registry[s] \notin {"titled", Null}
                     \/ \E x \in Requests : /\ request[x] # Null /\ request[x].answered
                                           /\ request[x].sessions[s] # "titled"]
  /\ UNCHANGED <<daemonVars, link, wire, statusVars, request, left>>

mergeSessionList ==
  [s \in Sessions |-> IF list.sessions[s] # Null /\ list.patches[s] # Null THEN list.patches[s]
                                                                           ELSE list.sessions[s]]

-----------------------------------------------------------------------------

LinkStep == Connected \/ FetchFails \/ StreamEnds \/ AnswerLost \/ Elapsed \/ Deliver
DaemonStep == AnswerStream \/ subscribe \/ Restart
Page == Commit \/ ListEffect \/ ExpandTimer \/ RecoveryTimer

Next ==
  \/ \E s \in Sessions, t \in {"untitled", "renamed", Null} : ChangeRegistry(s, t)
  \/ \E s \in Sessions : SetTitle(s) \/ patchSession(s)
  \/ \E p \in publishing : PublishEnds(p) \/ \E i \in p.ahead : Write(p, i)
  \/ Shutdown \/ Exit
  \/ DaemonStep \/ LinkStep \/ Page
  \/ retryNow \/ togglePanel \/ refresh
  \/ \E c \in {"off", "connecting", "ready", "reconnecting", "failed"} : ChatChanges(c)
  \/ \E x \in Requests : AnswerList(x) \/ ApplyList(x) \/ ListFails(x)

Fairness ==
  /\ WF_vars(Connected) /\ WF_vars(FetchFails /\ ~up) /\ WF_vars(StreamEnds /\ serving # link.stream) /\ WF_vars(AnswerLost)
  /\ WF_vars(phase = "stopping" /\ Exit) /\ WF_vars(Elapsed) /\ WF_vars(Deliver) /\ WF_vars(Commit) /\ WF_vars(AnswerStream)

Spec == Init /\ [][Next]_vars
FairSpec == Spec /\ Fairness

-----------------------------------------------------------------------------

TypeOK ==
  /\ phase \in {"up", "stopping", "down"} /\ registry \in ListState
  /\ hub \subseteq Streams /\ serving \in Streams \cup {0}
  /\ publishing \subseteq PublishState /\ left \in Budget
  /\ link \in [step : {"fetch", "answered", "open", "wait"}, attempt : 0 .. 2, ever : BOOLEAN,
               stream : Streams \cup {0}]
  /\ wire \in Seq({"changed", "shutting_down"})
  /\ \A h \in {hook, store} :
       h \in [reachable : BOOLEAN \cup {Null}, checking : BOOLEAN,
              status : {"idle", "connecting", "connected", "reconnecting", "disconnected"}]
  /\ panel.open \in BOOLEAN /\ panel.byUser \in BOOLEAN /\ panel.auto \in BOOLEAN
  /\ panel.expand \in BOOLEAN /\ panel.close \in BOOLEAN
  /\ list \in [sessions : ListState, patches : ListState, error : BOOLEAN, due : BOOLEAN]
  /\ request \in [Requests -> {Null} \cup ListRequest]
  /\ meta \subseteq Sessions
  /\ history \in [gap : BOOLEAN, crossed : BOOLEAN]

\* What the daemon serves is the stream that was answered last, or nothing.
OneStream ==
  /\ serving \in {0, link.stream}
  /\ link.stream \in hub => serving = link.stream
  /\ phase = "down" => serving = 0 /\ publishing = {}
  /\ link.step \in {"answered", "open"} => link.stream # 0
  /\ link.step = "open" => link.ever
  /\ link.step \in {"fetch", "wait"} /\ ~link.ever => serving = 0
  /\ link.step = "wait" => hook.reachable = FALSE

\* Only a daemon that stops says that it does.
FarewellIsTrue ==
  /\ phase = "up" => \A p \in publishing : p.event = "changed"
  /\ "shutting_down" \in ToSet(wire) /\ link.step \in {"answered", "open"} =>
       phase # "up" \/ serving # link.stream

\* A read of the list is coming: it is due, or an event or the connection will ask for it.
Coming ==
  \/ list.due
  \/ link.step = "wait"
  \/ link.step \in {"fetch", "answered"} /\ (link.ever \/ (Rendered /\ store.reachable = FALSE))
  \/ /\ link.step \in {"answered", "open"}
     /\ \/ serving # link.stream
        \/ "changed" \in ToSet(wire)
        \/ \E p \in publishing : p.event = "changed" /\ link.stream \in p.ahead
  \/ link.step = "open" /\ (phase # "up" \/ (store.reachable = FALSE /\ hook.reachable = TRUE))

\* A list is the daemon's, up to titles that the chat page will hear of.
Agrees(sessions) ==
  \A s \in Sessions :
    \/ sessions[s] = registry[s]
    \/ sessions[s] = "untitled" /\ registry[s] = "titled" /\ s \in meta

\* The request whose answer counts.
Reading(x) == request[x] # Null /\ request[x].effect /\ ~request[x].cancelled

OneReading ==
  /\ \A x, y \in Requests : Reading(x) /\ Reading(y) => x = y
  /\ \A x \in Requests : request[x] # Null /\ request[x].cancelled => request[x].effect

\* A request will bring what the daemon has.
BeingRead == \E x \in Requests : Reading(x) /\ (request[x].answered => Agrees(request[x].sessions))

\* The last read did, or failed, or the user repeats it.
WasRead ==
  /\ ~\E x \in Requests : Reading(x)
  /\ \/ list.error \/ Agrees(mergeSessionList)
     \/ \E x \in Requests : request[x] # Null /\ ~request[x].effect

\* Every change reaches the list: a read is coming, or under way, or was the last thing done.
ChangesReachList == Coming \/ history.gap \/ history.crossed \/ BeingRead \/ WasRead

\* When nothing is on its way, the list that a connected client shows is the daemon's:
\* every change was announced on a stream of the client, or the client read the list
\* after it had reconnected.  Exempt are the changes that fall in the gap between the
\* answer of a stream and its subscription, answers that cross a patch or a refresh, and
\* patches that come late.
ListIsCurrent ==
  link.step = "open" /\ phase = "up" /\ Rendered /\ link.stream \in hub /\ wire = <<>> /\ meta = {}
  /\ publishing = {} /\ ~list.due /\ ~list.error /\ (\A x \in Requests : request[x] = Null)
  /\ ~history.gap /\ ~history.crossed
  => mergeSessionList = registry

\* A panel that is open without the user has opened by itself.
OpenedByItself ==
  /\ panel.open /\ ~panel.byUser => panel.auto
  /\ panel.expand => panel.prev = "reconnecting"

\* A panel that opened by itself does not stay open: when all is well its timer runs.
AutoPanelCloses ==
  panel.open /\ ~panel.byUser /\ panel.prev = "ready" => panel.close

LinkInv ==
  /\ TypeOK /\ OneStream /\ FarewellIsTrue /\ OneReading /\ ChangesReachList /\ ListIsCurrent
  /\ OpenedByItself /\ AutoPanelCloses

\* A daemon that stays up is shown as connected in the end, whatever failed before.
LinkRecovers == <>[]up => <>[](store.status = "connected" /\ store.reachable = TRUE)
=============================================================================
