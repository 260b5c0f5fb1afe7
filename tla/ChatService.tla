----------------------------- MODULE ChatService -----------------------------
(***************************************************************************)
(* The CLI daemon's ChatService                                            *)
(* (packages/cli/src/daemon/chat-service.ts) with the HTTP handlers that   *)
(* call it (packages/cli/src/daemon/server.ts: chat, compact, abort and    *)
(* delete).                                                                *)
(*                                                                         *)
(* The daemon is one Node.js process: code between two awaits is atomic.   *)
(* One action is therefore the code from one await to the next; step[r]    *)
(* names the await at which the job of request r is.  A job's place in the *)
(* promise chain of its session is SessionChains' business, and every      *)
(* action that touches the chain takes one of its actions as a conjunct.   *)
(*                                                                         *)
(* External, modelled by what ChatService can observe: the pi AgentHarness *)
(* (prompt, compact, abort, steer), the session files and the SSE clients. *)
(***************************************************************************)
EXTENDS SessionChains, FiniteSets

CONSTANTS Deletable,  \* the sessions a client may ask to delete
          Faults      \* the fallible awaits that may throw, a subset of FaultKinds

FaultKinds == {"open",    \* repo.open fails although the session is registered
               "create",  \* createHarnessWithEvents: agent, persona or skill is gone
               "store"}   \* a registry write fails

ASSUME ChatAssumption == Deletable \subseteq Sessions /\ Faults \subseteq FaultKinds

\* A request to POST /chat or POST /sessions/:id/compact, named by the job it
\* may become.  steer and follow_up take the same path: "steer" is both.
Kinds == {"prompt", "steer", "compact"}

VARIABLES
    request,   \* request[r]: how far the HTTP handler of r is
    kind,      \* kind[r]
    target,    \* target[r]: the session it names
    step,      \* step[r]: the await at which the job of r is, "idle" outside it
    activeTurns, activeCompacts,                  \* runtimes, named by their job
    compactingSessions, compactAbortRequested,
    aborting,  \* the jobs whose harness was told to abort
    inRegistry, onDisk,   \* sessions with a registry entry, with a JSONL file
    deleting,  \* deleting[s]: how far DELETE /sessions/:id is
    shownStreaming, shownCompacting,   \* the sessions a client that got every
               \* event so far displays as replying, as being compacted
    crashed    \* an unhandled rejection has ended the process

requestVars == <<request, kind, target>>
runtimeVars == <<activeTurns, activeCompacts, compactingSessions, compactAbortRequested>>
storeVars   == <<inRegistry, onDisk, deleting>>
shown       == <<shownStreaming, shownCompacting>>
vars == <<chainVars, requestVars, step, runtimeVars, aborting, storeVars, shown, crashed>>

RequestState == {"none", "checked", "rejected", "scheduled",
                 "steered", "steer_failed", "steer_reported"}
TurnSteps    == {"turn",       \* harness.prompt called
                 "streaming",  \* agent_start seen
                 "answered"}   \* agent_end seen
CompactSteps == {"compact",    \* harness.compact called
                 "ctouch",     \* compaction_end published, awaiting touch
                 "cfail"}      \* failure reported, finally not yet run
Steps == {"idle", "auth", "open", "create", "touch", "finally", "ccreate"}
            \cup TurnSteps \cup CompactSteps
DeleteState == {"no", "removing", "unlinked", "unlisted", "deleted", "failed"}

Init ==
    /\ ChainInit
    /\ request = [r \in Jobs |-> "none"]
    /\ kind = [r \in Jobs |-> None]
    /\ target = [r \in Jobs |-> None]
    /\ step = [r \in Jobs |-> "idle"]
    /\ activeTurns = [s \in Sessions |-> None]
    /\ activeCompacts = [s \in Sessions |-> None]
    /\ compactingSessions = {}
    /\ compactAbortRequested = {}
    /\ aborting = {}
    /\ inRegistry = Sessions
    /\ onDisk = Sessions
    /\ deleting = [s \in Sessions |-> "no"]
    /\ shownStreaming = {}
    /\ shownCompacting = {}
    /\ crashed = FALSE
-----------------------------------------------------------------------------
(* Helpers                                                                 *)

isSessionBusy(s) ==
    \/ s \in compactingSessions
    \/ sessionChains[s] # None
    \/ activeTurns[s] # None

\* The client's state after an event: agent_start / agent_end (and error)
\* turn the streaming reply on and off, compaction_start / _end the spinner.
ShowRunning(s, b) ==
    /\ shownStreaming' = IF b THEN shownStreaming \cup {s} ELSE shownStreaming \ {s}
    /\ UNCHANGED shownCompacting
ShowCompacting(s, b) ==
    /\ shownCompacting' = IF b THEN shownCompacting \cup {s} ELSE shownCompacting \ {s}
    /\ UNCHANGED shownStreaming
publishError(s) == ShowRunning(s, FALSE)    \* error, then agent_end
publishCompactionEnd(s) == ShowCompacting(s, FALSE)

\* A harness event reaches the clients while its subscription is alive, which
\* is as long as the runtime is in activeTurns.
ShowIfSubscribed(r, b) ==
    IF activeTurns[owner[r]] = r THEN ShowRunning(owner[r], b) ELSE UNCHANGED shown

GoTo(r, next) == step' = [step EXCEPT ![r] = next]

evictRuntime(s) ==
    /\ activeTurns' = [activeTurns EXCEPT ![s] = None]
    /\ activeCompacts' = [activeCompacts EXCEPT ![s] = None]
    /\ IF activeCompacts[s] # None
       THEN /\ compactingSessions' = compactingSessions \ {s}
            /\ compactAbortRequested' = compactAbortRequested \ {s}
       ELSE UNCHANGED <<compactingSessions, compactAbortRequested>>

\* Faulty EvictOwnTurn: the runtime stays.
EvictNothing(s) == s \in Sessions /\ UNCHANGED runtimeVars

\* dispatchTurn's finally.
EvictOwnTurn(s) ==
    IF activeTurns[s] # None THEN evictRuntime(s) ELSE UNCHANGED runtimeVars

\* runCompact's finally.
ClearCompact(s) ==
    /\ activeCompacts' = [activeCompacts EXCEPT ![s] = None]
    /\ compactingSessions' = compactingSessions \ {s}
    /\ compactAbortRequested' = compactAbortRequested \ {s}
    /\ UNCHANGED activeTurns

IsCompactJob(r) == kind[r] = "compact"

\* The job's promise resolves; what it reported is in `shown`.
EndJob(r) == Settle(r) /\ GoTo(r, "idle")

\* A failure before any harness exists: a prompt reports error and agent_end,
\* a compaction reports compaction_end.
FailJob(r) ==
    /\ IF IsCompactJob(r) THEN publishCompactionEnd(owner[r]) ELSE publishError(owner[r])
    /\ EndJob(r)
    /\ UNCHANGED <<requestVars, runtimeVars, aborting, storeVars, crashed>>
-----------------------------------------------------------------------------
(* HTTP handlers                                                           *)

\* Both handlers first await sessionStore.get.
Receive(r, s, k) ==
    /\ request[r] = "none"
    /\ request' = [request EXCEPT ![r] = IF s \in inRegistry THEN "checked" ELSE "rejected"]
    /\ kind' = [kind EXCEPT ![r] = k]
    /\ target' = [target EXCEPT ![r] = s]
    /\ UNCHANGED <<chainVars, step, runtimeVars, aborting, storeVars, shown, crashed>>

Reply(r, answer) ==
    /\ request[r] = "checked"
    /\ request' = [request EXCEPT ![r] = answer]
    /\ UNCHANGED <<kind, target>>

\* enqueue, after the title and the touch: a prompt, or a steer that finds no
\* turn to go to, joins the chain.
enqueue(r) ==
    /\ kind[r] = "prompt" \/ (kind[r] = "steer" /\ activeTurns[target[r]] = None)
    /\ Reply(r, "scheduled")
    /\ Schedule(r, target[r])
    /\ UNCHANGED <<step, runtimeVars, aborting, storeVars, shown, crashed>>

\* The title or the touch cannot be written: 500, nothing is scheduled.
enqueueFails(r) ==
    /\ "store" \in Faults
    /\ ~IsCompactJob(r)
    /\ Reply(r, "rejected")
    /\ UNCHANGED <<chainVars, step, runtimeVars, aborting, storeVars, shown, crashed>>

\* enqueueCompact tests and takes the chain without an await in between.
enqueueCompact(r) ==
    /\ IsCompactJob(r)
    /\ IF isSessionBusy(target[r])
       THEN Reply(r, "rejected") /\ UNCHANGED chainVars
       ELSE Reply(r, "scheduled") /\ Schedule(r, target[r])
    /\ UNCHANGED <<step, runtimeVars, aborting, storeVars, shown, crashed>>

\* handleSteerOrFollowUp with a runtime: the harness takes the message while
\* its loop runs, and refuses it afterwards.
handleSteerOrFollowUp(r) ==
    /\ kind[r] = "steer"
    /\ activeTurns[target[r]] # None
    /\ Reply(r, IF step[activeTurns[target[r]]] \in {"turn", "streaming"}
                THEN "steered" ELSE "steer_failed")
    /\ UNCHANGED <<chainVars, step, runtimeVars, aborting, storeVars, shown, crashed>>

\* The rejected steer is reported in two publishes, each of them awaited and
\* neither of them part of the chain.
ReportSteerError(r) ==
    /\ request[r] \in {"steer_failed", "steer_reported"}
    /\ request' = [request EXCEPT ![r] = IF @ = "steer_failed" THEN "steer_reported" ELSE "rejected"]
    /\ publishError(target[r])
    /\ UNCHANGED <<chainVars, kind, target, step, runtimeVars, aborting, storeVars, crashed>>

abortTurn(s) ==
    /\ s \in inRegistry
    /\ \/ /\ activeTurns[s] # None
          /\ aborting' = aborting \cup {activeTurns[s]}
          /\ UNCHANGED compactAbortRequested
       \/ /\ activeTurns[s] = None
          /\ activeCompacts[s] # None
          /\ aborting' = aborting \cup {activeCompacts[s]}
          /\ compactAbortRequested' = compactAbortRequested \cup {s}
    /\ UNCHANGED <<chainVars, requestVars, step, activeTurns, activeCompacts,
                   compactingSessions, storeVars, shown, crashed>>

(* DELETE /sessions/:id: busy test, repo.delete, registry, evictRuntime.   *)

DeleteAccepted(s) ==
    /\ s \in Deletable
    /\ deleting[s] = "no"
    /\ s \in inRegistry
    /\ ~isSessionBusy(s)
    /\ deleting' = [deleting EXCEPT ![s] = "removing"]
    /\ UNCHANGED <<chainVars, requestVars, step, runtimeVars, aborting, inRegistry, onDisk, shown, crashed>>

DeleteFile(s) ==
    /\ deleting[s] = "removing"
    /\ onDisk' = onDisk \ {s}
    /\ deleting' = [deleting EXCEPT ![s] = "unlinked"]
    /\ UNCHANGED <<chainVars, requestVars, step, runtimeVars, aborting, inRegistry, shown, crashed>>

DeleteEntry(s) ==
    /\ deleting[s] = "unlinked"
    /\ inRegistry' = inRegistry \ {s}
    /\ deleting' = [deleting EXCEPT ![s] = "unlisted"]
    /\ UNCHANGED <<chainVars, requestVars, step, runtimeVars, aborting, onDisk, shown, crashed>>

DeleteEvict(s) ==
    /\ deleting[s] = "unlisted"
    /\ evictRuntime(s)
    /\ deleting' = [deleting EXCEPT ![s] = "deleted"]
    /\ UNCHANGED <<chainVars, requestVars, step, aborting, inRegistry, onDisk, shown, crashed>>

\* Writing the registry without the entry fails: 500 before evictRuntime.
DeleteFails(s) ==
    /\ "store" \in Faults
    /\ deleting[s] = "unlisted"
    /\ deleting' = [deleting EXCEPT ![s] = "failed"]
    /\ UNCHANGED <<chainVars, requestVars, step, runtimeVars, aborting, inRegistry, onDisk, shown, crashed>>
-----------------------------------------------------------------------------
(* A job up to its harness                                                 *)

StartJob(r) ==
    /\ Run(r)
    /\ GoTo(r, "auth")
    /\ UNCHANGED <<requestVars, runtimeVars, aborting, storeVars, shown, crashed>>

\* resolveBackendAuth finds no device token.
NotPaired(r) ==
    /\ step[r] = "auth"
    /\ FailJob(r)

Paired(r) ==
    /\ step[r] = "auth"
    /\ GoTo(r, "open")
    /\ UNCHANGED <<chainVars, requestVars, runtimeVars, aborting, storeVars, shown, crashed>>

\* openPiSession answers undefined.  A prompt reports it; a compaction lets
\* the ChatServiceError out of its catch, and the promise that `finally`
\* derives from the chain rejects with nobody listening.
SessionGone(r) ==
    /\ step[r] = "open"
    /\ owner[r] \notin inRegistry
    /\ IF IsCompactJob(r)
       THEN /\ EndJob(r)
            /\ crashed' = TRUE
            /\ UNCHANGED <<requestVars, runtimeVars, aborting, storeVars, shown>>
       ELSE FailJob(r)

\* Faulty OpenFails: enqueueCompact's catch lets every error out.
OpenFailsUncaught(r) ==
    /\ step[r] = "open"
    /\ owner[r] \in inRegistry
    /\ "open" \in Faults
    /\ EndJob(r)
    /\ crashed' = IsCompactJob(r)
    /\ UNCHANGED <<requestVars, runtimeVars, aborting, storeVars, shown>>

OpenFails(r) ==
    /\ step[r] = "open"
    /\ owner[r] \in inRegistry
    /\ owner[r] \notin onDisk \/ "open" \in Faults
    /\ FailJob(r)

openPiSession(r) ==
    /\ step[r] = "open"
    /\ owner[r] \in inRegistry \cap onDisk

OpenForTurn(r) ==
    /\ openPiSession(r)
    /\ ~IsCompactJob(r)
    /\ GoTo(r, "create")
    /\ UNCHANGED <<chainVars, requestVars, runtimeVars, aborting, storeVars, shown, crashed>>

\* runCompact up to createHarnessWithEvents.
BeginCompact(r) ==
    /\ compactingSessions' = compactingSessions \cup {owner[r]}
    /\ ShowCompacting(owner[r], TRUE)
    /\ GoTo(r, "ccreate")
    /\ UNCHANGED <<chainVars, requestVars, storeVars, crashed>>

OpenForCompact(r) ==
    /\ openPiSession(r)
    /\ IsCompactJob(r)
    /\ BeginCompact(r)
    /\ UNCHANGED <<activeTurns, activeCompacts, compactAbortRequested, aborting>>
-----------------------------------------------------------------------------
(* dispatchTurn from createTurnRuntime on                                  *)

CreateTurn(r) ==
    /\ step[r] = "create"
    /\ activeTurns' = [activeTurns EXCEPT ![owner[r]] = r]
    /\ GoTo(r, "turn")
    /\ UNCHANGED <<chainVars, requestVars, activeCompacts, compactingSessions,
                   compactAbortRequested, aborting, storeVars, shown, crashed>>

CreateTurnFails(r) ==
    /\ "create" \in Faults
    /\ step[r] = "create"
    /\ FailJob(r)

AgentStart(r) ==
    /\ step[r] = "turn"
    /\ ShowIfSubscribed(r, TRUE)
    /\ GoTo(r, "streaming")
    /\ UNCHANGED <<chainVars, requestVars, runtimeVars, aborting, storeVars, crashed>>

AgentEnd(r) ==
    /\ step[r] = "streaming"
    /\ ShowIfSubscribed(r, FALSE)
    /\ GoTo(r, "answered")
    /\ UNCHANGED <<chainVars, requestVars, runtimeVars, aborting, storeVars, crashed>>

\* Faulty PromptThrows: the failure is not reported.
PromptThrowsSilently(r) ==
    /\ step[r] \in {"turn", "streaming"}
    /\ GoTo(r, "finally")
    /\ UNCHANGED <<chainVars, requestVars, runtimeVars, aborting, storeVars, shown, crashed>>

\* harness.prompt rejects.
PromptThrows(r) ==
    /\ step[r] \in {"turn", "streaming"}
    /\ publishError(owner[r])
    /\ GoTo(r, "finally")
    /\ UNCHANGED <<chainVars, requestVars, runtimeVars, aborting, storeVars, crashed>>

\* harness.prompt resolves (with an answer or an error to publish).
Answer(r) ==
    /\ step[r] = "answered"
    /\ GoTo(r, "touch")
    /\ UNCHANGED <<chainVars, requestVars, runtimeVars, aborting, storeVars, shown, crashed>>

\* Faulty Overflow: the prompt is tried again, without end.
OverflowRetries(r) ==
    /\ step[r] = "answered"
    /\ GoTo(r, "turn")
    /\ UNCHANGED <<chainVars, requestVars, runtimeVars, aborting, storeVars, shown, crashed>>

\* It resolves with a context overflow: the turn's runtime makes way for a
\* compaction inside the same job.
Overflow(r) ==
    /\ step[r] = "answered"
    /\ activeTurns' = [activeTurns EXCEPT ![owner[r]] = None]
    /\ activeCompacts' = [activeCompacts EXCEPT ![owner[r]] = None]
    /\ compactAbortRequested' = IF activeCompacts[owner[r]] # None
                                THEN compactAbortRequested \ {owner[r]}
                                ELSE compactAbortRequested
    /\ aborting' = aborting \ {r}   \* the compaction gets a harness of its own
    /\ BeginCompact(r)

\* touch, then (not awaited) the title, then finally.
TouchTurn(r) ==
    /\ step[r] = "touch"
    /\ EvictOwnTurn(owner[r])
    /\ EndJob(r)
    /\ UNCHANGED <<requestVars, aborting, storeVars, shown, crashed>>

TouchTurnFails(r) ==
    /\ "store" \in Faults
    /\ step[r] = "touch"
    /\ publishError(owner[r])
    /\ GoTo(r, "finally")
    /\ UNCHANGED <<chainVars, requestVars, runtimeVars, aborting, storeVars, crashed>>

FinishTurn(r) ==
    /\ step[r] = "finally"
    /\ EvictOwnTurn(owner[r])
    /\ EndJob(r)
    /\ UNCHANGED <<requestVars, aborting, storeVars, shown, crashed>>
-----------------------------------------------------------------------------
(* runCompact from createHarnessWithEvents on                              *)

CreateCompact(r) ==
    /\ step[r] = "ccreate"
    /\ activeCompacts' = [activeCompacts EXCEPT ![owner[r]] = r]
    /\ GoTo(r, "compact")
    /\ UNCHANGED <<chainVars, requestVars, activeTurns, compactingSessions,
                   compactAbortRequested, aborting, storeVars, shown, crashed>>

\* createHarnessWithEvents throws before runCompact's try: nothing is cleaned
\* up, and only a manual compaction still publishes compaction_end.
CreateCompactFails(r) ==
    /\ "create" \in Faults
    /\ step[r] = "ccreate"
    /\ IF IsCompactJob(r)
       THEN FailJob(r)
       ELSE /\ publishError(owner[r])
            /\ GoTo(r, "finally")
            /\ UNCHANGED <<chainVars, requestVars, runtimeVars, aborting, storeVars, crashed>>

CompactDone(r) ==
    /\ step[r] = "compact"
    /\ publishCompactionEnd(owner[r])
    /\ GoTo(r, "ctouch")
    /\ UNCHANGED <<chainVars, requestVars, runtimeVars, aborting, storeVars, crashed>>

\* harness.compact rejects (cancelled or not), or touch does.
CompactFails(r) ==
    /\ step[r] = "compact" \/ ("store" \in Faults /\ step[r] = "ctouch")
    /\ publishCompactionEnd(owner[r])
    /\ GoTo(r, "cfail")
    /\ UNCHANGED <<chainVars, requestVars, runtimeVars, aborting, storeVars, crashed>>

\* finally.  A manual compaction is over; a turn that overflowed tells the
\* user to send again (or reports its error) and goes on to touch.
FinishCompact(r) ==
    /\ step[r] \in {"ctouch", "cfail"}
    /\ ClearCompact(owner[r])
    /\ IF IsCompactJob(r)
       THEN EndJob(r) /\ UNCHANGED shown
       ELSE GoTo(r, "touch") /\ publishError(owner[r]) /\ UNCHANGED chainVars
    /\ UNCHANGED <<requestVars, aborting, storeVars, crashed>>

\* The job's finally callback.
FinallyCallback(r) ==
    /\ Forget(r)
    /\ UNCHANGED <<requestVars, step, runtimeVars, aborting, storeVars, shown, crashed>>
-----------------------------------------------------------------------------
HandlerStep(r) ==
    \/ \E s \in Sessions, k \in Kinds : Receive(r, s, k)
    \/ enqueue(r) \/ enqueueFails(r) \/ enqueueCompact(r)
    \/ handleSteerOrFollowUp(r) \/ ReportSteerError(r)

SetupStep(r) ==
    \/ StartJob(r) \/ NotPaired(r) \/ Paired(r) \/ SessionGone(r)
    \/ OpenFails(r) \/ OpenForTurn(r) \/ OpenForCompact(r)
    \/ CreateTurn(r) \/ CreateTurnFails(r)
    \/ CreateCompact(r) \/ CreateCompactFails(r)

\* The harness: the agent loop and the compaction call.
HarnessStep(r) ==
    \/ AgentStart(r) \/ AgentEnd(r) \/ PromptThrows(r)
    \/ CompactDone(r) \/ (step[r] = "compact" /\ CompactFails(r))

CloseStep(r) ==
    \/ Answer(r) \/ Overflow(r) \/ TouchTurn(r) \/ TouchTurnFails(r) \/ FinishTurn(r)
    \/ (step[r] = "ctouch" /\ CompactFails(r))
    \/ FinishCompact(r) \/ FinallyCallback(r)

DeleteStep(s) ==
    \/ DeleteAccepted(s) \/ DeleteFile(s) \/ DeleteEntry(s) \/ DeleteEvict(s) \/ DeleteFails(s)

Next ==
    /\ ~crashed
    /\ \/ \E r \in Jobs : HandlerStep(r) \/ SetupStep(r) \/ HarnessStep(r) \/ CloseStep(r)
       \/ \E s \in Sessions : abortTurn(s) \/ DeleteStep(s)

Spec == Init /\ [][Next]_vars
-----------------------------------------------------------------------------
(* Fairness.  Every await of the daemon's own code comes back; requests,   *)
(* aborts and deletions need never happen.                                 *)

OwnSteps(r) == ~crashed /\ (SetupStep(r) \/ CloseStep(r))

\* A harness may work for ever, but obeys abort().
FairSpec == Spec /\ \A r \in Jobs :
    WF_vars(OwnSteps(r) \/ (~crashed /\ r \in aborting /\ HarnessStep(r)))

AtHarness(r) == step[r] \in {"turn", "streaming", "compact"}

\* What some of the liveness properties ask of the harness: LLM calls and
\* tools end by themselves.
HarnessesAnswer == \A r \in Jobs : []<>(~AtHarness(r))
-----------------------------------------------------------------------------
ChatTypeOK ==
    /\ ChainTypeOK
    /\ request \in [Jobs -> RequestState]
    /\ kind \in [Jobs -> Kinds \cup {None}]
    /\ target \in [Jobs -> Sessions \cup {None}]
    /\ step \in [Jobs -> Steps]
    /\ activeTurns \in [Sessions -> Jobs \cup {None}]
    /\ activeCompacts \in [Sessions -> Jobs \cup {None}]
    /\ compactingSessions \subseteq Sessions
    /\ compactAbortRequested \subseteq Sessions
    /\ aborting \subseteq Jobs
    /\ inRegistry \subseteq Sessions
    /\ onDisk \subseteq Sessions
    /\ deleting \in [Sessions -> DeleteState]
    /\ shownStreaming \subseteq Sessions
    /\ shownCompacting \subseteq Sessions
    /\ crashed \in BOOLEAN

\* A runtime belongs to the one job of its session that is running, at an
\* await at which that job is using it: no turn finds, steers, aborts or
\* evicts the runtime of another, and no harness outlives its job.
RuntimeOwned ==
    \A s \in Sessions, r \in Jobs :
        /\ activeTurns[s] = r =>
              owner[r] = s /\ step[r] \in TurnSteps \cup {"touch", "finally"}
        /\ activeCompacts[s] = r => owner[r] = s /\ step[r] \in CompactSteps

\* The job is at an await exactly while its promise is running.
StepMatchesPromise ==
    \A r \in Jobs : step[r] # "idle" <=> promise[r] = "running"

\* A session has at most one harness at work: never two turns, two
\* compactions, or a turn and a compaction, on one session tree.
OneHarnessPerSession ==
    \A q, r \in Jobs :
        /\ AtHarness(q) /\ AtHarness(r)
        /\ owner[q] = owner[r]
        => q = r

\* A session holds one runtime at most.
OneRuntimePerSession ==
    \A s \in Sessions : activeTurns[s] = None \/ activeCompacts[s] = None

\* While a harness works for a session that was not deleted, abortTurn finds
\* it: the stop button never answers "nothing to abort" under a live harness.
AbortReachesHarness ==
    \A r \in Jobs : owner[r] # None /\ deleting[owner[r]] # "deleted" =>
        /\ step[r] \in {"turn", "streaming"} => activeTurns[owner[r]] = r
        /\ step[r] = "compact" =>
              activeTurns[owner[r]] = None /\ activeCompacts[owner[r]] = r

\* An abort request is dropped with the compaction it was for, so that no
\* later compaction that fails is reported as cancelled.
CancelFlagFresh ==
    \A s \in compactAbortRequested : activeCompacts[s] # None

\* A request past its existence test names a session.
RequestsHaveTargets ==
    \A r \in Jobs : request[r] # "none" => target[r] \in Sessions

\* What every step preserves: the types and the promise chain, who owns a
\* runtime, and where abortTurn will look for it.
ChatInv ==
    /\ ChatTypeOK
    /\ ChainInv
    /\ RequestsHaveTargets
    /\ StepMatchesPromise
    /\ RuntimeOwned
    /\ AbortReachesHarness
    /\ CancelFlagFresh

\* isSessionBusy, by its comment: the session still has queued or running work.
HasWork(s) == \E r \in Jobs : owner[r] = s /\ promise[r] \in {"waiting", "running", "settled"}
BusyMeansWork == \A s \in Sessions : isSessionBusy(s) => HasWork(s)

\* And the other way round: work is never invisible to the busy test that
\* guards manual compaction and deletion.
WorkMeansBusy == \A s \in Sessions :
    (\E r \in Jobs : owner[r] = s /\ promise[r] \in {"waiting", "running"}) => isSessionBusy(s)

\* What the user relies on: one harness and one runtime per session, the stop button finds
\* the harness, and work is never hidden from the busy test.
ChatSafety == OneHarnessPerSession /\ OneRuntimePerSession /\ AbortReachesHarness /\ WorkMeansBusy

\* A session that counts as being compacted has a job that has not yet been through
\* runCompact's finally.
CompactingIsReal ==
    \A s \in compactingSessions :
        \E r \in Jobs : owner[r] = s /\ step[r] \in CompactSteps \cup {"ccreate"}

\* A client never displays a reply that no turn is producing ...
ReplyShownIsReal ==
    \A s \in shownStreaming : deleting[s] # "deleted" =>
        \E r \in Jobs : owner[r] = s /\ step[r] = "streaming"

\* ... or a compaction that no job is performing, for a session that still exists.
SpinnerIsReal ==
    \A s \in shownCompacting : deleting[s] # "deleted" =>
        \E r \in Jobs : owner[r] = s /\ step[r] \in {"ccreate", "compact"}

\* What is said of a session, to the busy test and on the screen, is true of its jobs.
StatusIsReal == BusyMeansWork /\ CompactingIsReal /\ ReplyShownIsReal /\ SpinnerIsReal

\* An unhandled rejection takes a deletion that overtook a compaction.
CrashNeedsDeletion ==
    crashed => \E s \in Sessions : s \notin inRegistry

\* Every request that was accepted is over at some point.
AcceptedJobEnds == HarnessesAnswer =>
    \A r \in Jobs : request[r] = "scheduled" ~> (HasSettled(r) \/ crashed)

\* The compaction spinner goes out again.
CompactionEnds == HarnessesAnswer =>
    \A s \in Sessions : s \in shownCompacting ~> (s \notin shownCompacting \/ crashed)

\* Nothing that was accepted or is displayed goes on for ever.
EveryJobEnds == AcceptedJobEnds /\ CompactionEnds

\* abortTurn ends the work it was told to end, however long the harness would
\* have gone on (a turn that overflows may still be compacted).
AbortEndsWork ==
    \A r \in Jobs : r \in aborting ~> (r \notin aborting \/ step[r] = "idle" \/ crashed)

=============================================================================
