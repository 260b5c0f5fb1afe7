------------------------- MODULE ChatService_proofs -------------------------
(***************************************************************************)
(* Proofs about ChatService, for any sets of requests and sessions and any *)
(* combination of faults: every step of the daemon is a step of the        *)
(* promise chain, so that what is proved of SessionChains holds of         *)
(* ChatService, and ChatInv is inductive.                                  *)
(***************************************************************************)
EXTENDS ChatService, SessionChains_proofs

USE ChatAssumption

\* A job that is at an await runs, belongs to a session, and is the only one
\* of its session that does.
LEMMA AtWork ==
    ASSUME ChainInv, StepMatchesPromise, NEW r \in Jobs, step[r] # "idle"
    PROVE  /\ promise[r] = "running"
           /\ owner[r] \in Sessions
           /\ \A q \in Jobs : step[q] # "idle" /\ owner[q] = owner[r] => q = r
<1>1. promise[r] = "running" /\ owner[r] \in Sessions
  BY DEF StepMatchesPromise, ChainInv, HistoryOK
<1>2. \A q \in Jobs : step[q] # "idle" /\ owner[q] = owner[r] => q = r
  BY <1>1, ExclusionFromInv DEF OneJobPerSession, StepMatchesPromise
<1>3. QED
  BY <1>1, <1>2

-----------------------------------------------------------------------------
(* Every step of the daemon is a step of the promise chain.                *)

\* What a handler does to the chain: nothing, or schedule its own job.
LEMMA HandlerChain ==
    ASSUME ChatInv, NEW r \in Jobs, HandlerStep(r)
    PROVE  [ChainNext]_chainVars
<1>1. CASE enqueue(r)
  <2>1. target[r] \in Sessions
    BY <1>1 DEF enqueue, Reply, ChatInv, RequestsHaveTargets
  <2>2. QED
    BY <1>1, <2>1 DEF enqueue, ChainNext
<1>2. CASE enqueueCompact(r)
  <2>1. target[r] \in Sessions
    BY <1>2 DEF enqueueCompact, Reply, ChatInv, RequestsHaveTargets
  <2>2. QED
    BY <1>2, <2>1 DEF enqueueCompact, ChainNext
<1>3. CASE UNCHANGED chainVars
  BY <1>3
<1>4. QED
  BY <1>1, <1>2, <1>3
     DEF HandlerStep, Receive, enqueueFails, handleSteerOrFollowUp, ReportSteerError

\* Setting a job up runs it, settles it, or leaves the chain alone.
LEMMA SetupChain ==
    ASSUME NEW r \in Jobs, SetupStep(r)
    PROVE  [ChainNext]_chainVars
<1>1. CASE Run(r)
  BY <1>1 DEF ChainNext
<1>2. CASE Settle(r)
  BY <1>2 DEF ChainNext
<1>3. CASE UNCHANGED chainVars
  BY <1>3
<1>4. QED
  BY <1>1, <1>2, <1>3
     DEF SetupStep, StartJob, NotPaired, Paired, SessionGone, OpenFails, OpenForTurn,
         OpenForCompact, BeginCompact, CreateTurn, CreateTurnFails, CreateCompact,
         CreateCompactFails, FailJob, EndJob

\* Closing a job settles it, forgets it, or leaves the chain alone.
LEMMA CloseChain ==
    ASSUME NEW r \in Jobs, HarnessStep(r) \/ CloseStep(r)
    PROVE  [ChainNext]_chainVars
<1>1. CASE Settle(r)
  BY <1>1 DEF ChainNext
<1>2. CASE Forget(r)
  BY <1>2 DEF ChainNext
<1>3. CASE UNCHANGED chainVars
  BY <1>3
<1>4. QED
  BY <1>1, <1>2, <1>3
     DEF HarnessStep, CloseStep, AgentStart, AgentEnd, PromptThrows, CompactDone,
         CompactFails, Answer, Overflow, BeginCompact, TouchTurn, TouchTurnFails,
         FinishTurn, FinishCompact, FinallyCallback, EndJob

\* Every step of the daemon is a step of the promise chain or leaves it alone.
LEMMA StepIsChainStep == ChatInv /\ [Next]_vars => [ChainNext]_chainVars
<1> SUFFICES ASSUME ChatInv, [Next]_vars PROVE [ChainNext]_chainVars
  OBVIOUS
<1>1. CASE \E r \in Jobs : HandlerStep(r) \/ SetupStep(r) \/ HarnessStep(r) \/ CloseStep(r)
  BY <1>1, HandlerChain, SetupChain, CloseChain
<1>2. CASE \E s \in Sessions : abortTurn(s) \/ DeleteStep(s)
  BY <1>2 DEF abortTurn, DeleteStep, DeleteAccepted, DeleteFile, DeleteEntry, DeleteEvict,
              DeleteFails
<1>3. CASE UNCHANGED vars
  BY <1>3 DEF vars
<1>4. QED
  BY <1>1, <1>2, <1>3 DEF Next

-----------------------------------------------------------------------------
(* Types.                                                                  *)

\* The effect on its own variables of each way a step may touch the runtimes.
LEMMA HandlerType ==
    ASSUME ChatInv, ChainTypeOK', NEW r \in Jobs, HandlerStep(r)
    PROVE  ChatTypeOK'
<1> USE DEF ChatInv, ChatTypeOK, requestVars, runtimeVars, storeVars, shown, RequestState, Kinds
<1>1. ASSUME NEW s \in Sessions, NEW k \in Kinds, Receive(r, s, k) PROVE ChatTypeOK'
  BY <1>1 DEF Receive
<1>2. CASE enqueue(r) \/ enqueueFails(r) \/ enqueueCompact(r) \/ handleSteerOrFollowUp(r)
  BY <1>2 DEF enqueue, enqueueFails, enqueueCompact, handleSteerOrFollowUp, Reply
<1>3. CASE ReportSteerError(r)
  <2>1. target[r] \in Sessions
    BY <1>3 DEF ReportSteerError, RequestsHaveTargets
  <2>2. QED
    BY <1>3, <2>1 DEF ReportSteerError, publishError, ShowRunning
<1>4. QED
  BY <1>1, <1>2, <1>3 DEF HandlerStep

\* No step leads a job outside the awaits it may be at.
LEMMA SetupType ==
    ASSUME ChatInv, ChainTypeOK', NEW r \in Jobs, SetupStep(r)
    PROVE  ChatTypeOK'
<1> USE DEF ChatInv, ChatTypeOK, requestVars, runtimeVars, storeVars, shown, Steps, TurnSteps,
            CompactSteps, GoTo, EndJob, FailJob, publishError, publishCompactionEnd,
            ShowRunning, ShowCompacting
<1>1. CASE StartJob(r)
  BY <1>1 DEF StartJob
<1>2. CASE step[r] # "idle"
  <2>1. owner[r] \in Sessions
    BY <1>2, AtWork
  <2>2. CASE NotPaired(r) \/ OpenFails(r) \/ CreateTurnFails(r)
    BY <2>1, <2>2 DEF NotPaired, OpenFails, CreateTurnFails
  <2>3. CASE SessionGone(r)
    BY <2>1, <2>3 DEF SessionGone
  <2>4. CASE Paired(r) \/ OpenForTurn(r) \/ OpenForCompact(r)
    BY <2>1, <2>4 DEF Paired, OpenForTurn, OpenForCompact, BeginCompact
  <2>5. CASE CreateTurn(r) \/ CreateCompact(r)
    BY <2>1, <2>5 DEF CreateTurn, CreateCompact
  <2>6. CASE CreateCompactFails(r)
    BY <2>1, <2>6 DEF CreateCompactFails
  <2>7. QED
    BY <1>1, <2>2, <2>3, <2>4, <2>5, <2>6 DEF SetupStep
<1>3. CASE step[r] = "idle"
  BY <1>1, <1>3 DEF SetupStep, NotPaired, OpenFails, CreateTurnFails, SessionGone, Paired,
       OpenForTurn, OpenForCompact, openPiSession, CreateTurn, CreateCompact, CreateCompactFails
<1>4. QED
  BY <1>2, <1>3

\* Nor do the steps of a harness or those after it.
LEMMA CloseType ==
    ASSUME ChatInv, ChainTypeOK', NEW r \in Jobs, HarnessStep(r) \/ CloseStep(r)
    PROVE  ChatTypeOK'
<1> USE DEF ChatInv, ChatTypeOK, requestVars, runtimeVars, storeVars, shown, Steps, TurnSteps,
            CompactSteps, GoTo, EndJob, publishError, publishCompactionEnd,
            ShowRunning, ShowCompacting
<1>1. CASE FinallyCallback(r)
  BY <1>1 DEF FinallyCallback
<1>2. CASE step[r] # "idle"
  <2>1. owner[r] \in Sessions
    BY <1>2, AtWork
  <2>2. CASE AgentStart(r) \/ AgentEnd(r)
    BY <2>1, <2>2 DEF AgentStart, AgentEnd, ShowIfSubscribed
  <2>3. CASE PromptThrows(r) \/ CompactDone(r) \/ CompactFails(r) \/ TouchTurnFails(r)
    BY <2>1, <2>3 DEF PromptThrows, CompactDone, CompactFails, TouchTurnFails
  <2>4. CASE Answer(r) \/ Overflow(r)
    BY <2>1, <2>4 DEF Answer, Overflow, BeginCompact
  <2>5. CASE TouchTurn(r) \/ FinishTurn(r)
    BY <2>1, <2>5 DEF TouchTurn, FinishTurn, EvictOwnTurn, evictRuntime
  <2>6. CASE FinishCompact(r)
    BY <2>1, <2>6 DEF FinishCompact, ClearCompact
  <2>7. QED
    BY <1>1, <2>2, <2>3, <2>4, <2>5, <2>6 DEF HarnessStep, CloseStep
<1>3. CASE step[r] = "idle"
  BY <1>1, <1>3 DEF HarnessStep, CloseStep, AgentStart, AgentEnd, PromptThrows, CompactDone,
       CompactFails, TouchTurnFails, Answer, Overflow, TouchTurn, FinishTurn, FinishCompact
<1>4. QED
  BY <1>2, <1>3

\* abort and delete.
LEMMA SessionType ==
    ASSUME ChatInv, ChainTypeOK', NEW s \in Sessions, abortTurn(s) \/ DeleteStep(s)
    PROVE  ChatTypeOK'
<1> USE DEF ChatInv, ChatTypeOK, requestVars, runtimeVars, storeVars, shown, DeleteState
<1>1. CASE abortTurn(s)
  BY <1>1 DEF abortTurn
<1>2. CASE DeleteAccepted(s) \/ DeleteFile(s) \/ DeleteEntry(s) \/ DeleteFails(s)
  BY <1>2 DEF DeleteAccepted, DeleteFile, DeleteEntry, DeleteFails
<1>3. CASE DeleteEvict(s)
  BY <1>3 DEF DeleteEvict, evictRuntime
<1>4. QED
  BY <1>1, <1>2, <1>3 DEF DeleteStep

-----------------------------------------------------------------------------
(* Who owns a runtime.                                                     *)

Ownership == StepMatchesPromise /\ RuntimeOwned /\ AbortReachesHarness /\ CancelFlagFresh

\* A job going from one await to another keeps every runtime where it is.  It
\* needs a runtime at the awaits at which it works with a harness, and may not
\* hold one at those before it has created it.
LEMMA MoveKeeps ==
    ASSUME ChatInv, NEW r \in Jobs, step[r] # "idle", NEW next \in Steps \ {"idle"}, GoTo(r, next),
           UNCHANGED <<chainVars, activeTurns, activeCompacts, compactAbortRequested, deleting>>,
           activeTurns[owner[r]] = r => next \in TurnSteps \cup {"touch", "finally"},
           activeCompacts[owner[r]] = r => next \in CompactSteps,
           deleting[owner[r]] # "deleted" /\ next \in {"turn", "streaming"} => activeTurns[owner[r]] = r,
           deleting[owner[r]] # "deleted" /\ next = "compact" =>
               activeTurns[owner[r]] = None /\ activeCompacts[owner[r]] = r
    PROVE  Ownership'
<1> USE DEF ChatInv, ChatTypeOK, ChainInv, ChainTypeOK
<1>1. step' = [step EXCEPT ![r] = next] /\ step'[r] = next
      /\ \A q \in Jobs : q # r => step'[q] = step[q]
  BY DEF GoTo
<1>2. UNCHANGED <<owner, promise>>
  BY DEF chainVars
<1>3. StepMatchesPromise'
  BY <1>1, <1>2 DEF StepMatchesPromise
<1>4. RuntimeOwned'
  <2>1. \A s \in Sessions : activeTurns[s] = r \/ activeCompacts[s] = r => s = owner[r]
    BY NoneAssumption DEF RuntimeOwned
  <2>2. QED
    BY <1>1, <1>2, <2>1 DEF RuntimeOwned
<1>5. AbortReachesHarness'
  BY <1>1, <1>2 DEF AbortReachesHarness
<1>6. CancelFlagFresh'
  BY DEF CancelFlagFresh
<1>7. QED
  BY <1>3, <1>4, <1>5, <1>6 DEF Ownership

\* A job that ends leaves no runtime of its own behind, and takes away none of
\* another job's: at most its own, and the flag with it.
LEMMA EndKeeps ==
    ASSUME ChatInv, NEW r \in Jobs, step[r] # "idle", EndJob(r), deleting' = deleting,
           \/ /\ activeTurns[owner[r]] # r /\ activeCompacts[owner[r]] # r
              /\ UNCHANGED <<activeTurns, activeCompacts, compactAbortRequested>>
           \/ EvictOwnTurn(owner[r]) /\ activeCompacts[owner[r]] # r
           \/ ClearCompact(owner[r]) /\ activeTurns[owner[r]] # r
    PROVE  Ownership'
<1> USE DEF ChatInv, ChatTypeOK, ChainInv, ChainTypeOK
<1>1. /\ step'[r] = "idle" /\ promise'[r] = "settled" /\ owner' = owner
      /\ \A q \in Jobs : q # r => step'[q] = step[q] /\ promise'[q] = promise[q]
  BY DEF EndJob, GoTo, Settle
<1>2. owner[r] \in Sessions /\ \A q \in Jobs : step[q] # "idle" /\ owner[q] = owner[r] => q = r
  BY AtWork
<1>3. /\ \A s \in Sessions : s # owner[r] =>
            activeTurns'[s] = activeTurns[s] /\ activeCompacts'[s] = activeCompacts[s]
      /\ \A s \in Sessions :
            /\ activeTurns'[s] \in {None, activeTurns[s]}
            /\ activeCompacts'[s] \in {None, activeCompacts[s]}
      /\ activeTurns'[owner[r]] # r /\ activeCompacts'[owner[r]] # r
      /\ compactAbortRequested' \subseteq compactAbortRequested
      /\ \A s \in compactAbortRequested' : activeCompacts'[s] = activeCompacts[s]
  BY <1>2, NoneAssumption
     DEF EvictOwnTurn, evictRuntime, ClearCompact, runtimeVars, CancelFlagFresh
<1>4. StepMatchesPromise'
  BY <1>1 DEF StepMatchesPromise
<1>5. RuntimeOwned'
  BY <1>1, <1>3, NoneAssumption DEF RuntimeOwned
<1>6. AbortReachesHarness'
  <2>1. SUFFICES ASSUME NEW q \in Jobs, owner[q] # None, deleting[owner[q]] # "deleted",
                        step'[q] # "idle"
                 PROVE  /\ step'[q] \in {"turn", "streaming"} => activeTurns'[owner[q]] = q
                        /\ step'[q] = "compact" =>
                              activeTurns'[owner[q]] = None /\ activeCompacts'[owner[q]] = q
    BY <1>1 DEF AbortReachesHarness
  <2>2. q # r /\ step'[q] = step[q]
    BY <1>1, <2>1
  <2>3. owner[q] \in Sessions /\ owner[q] # owner[r]
    BY <1>2, <2>1, <2>2
  <2>4. QED
    BY <1>3, <2>1, <2>2, <2>3 DEF AbortReachesHarness
<1>7. CancelFlagFresh'
  BY <1>3 DEF CancelFlagFresh
<1>8. QED
  BY <1>4, <1>5, <1>6, <1>7 DEF Ownership

\* A step that moves no job and touches no runtime keeps the ownership, also
\* when it schedules a job, which is at no await yet, or forgets one.
LEMMA FrameKeeps ==
    ASSUME ChatInv, UNCHANGED <<step, activeTurns, activeCompacts, compactAbortRequested, deleting>>,
           \/ UNCHANGED <<owner, promise>>
           \/ \E r \in Jobs, s \in Sessions : Schedule(r, s)
           \/ \E r \in Jobs : Forget(r)
    PROVE  Ownership'
<1> USE DEF ChatInv, ChatTypeOK, ChainInv, ChainTypeOK
<1>1. /\ \A q \in Jobs : promise'[q] = "running" <=> promise[q] = "running"
      /\ \A q \in Jobs : step[q] # "idle" => owner'[q] = owner[q]
  BY DEF Schedule, Forget, DropEntry, StepMatchesPromise
<1>2. /\ StepMatchesPromise'
      /\ CancelFlagFresh'
  BY <1>1 DEF StepMatchesPromise, CancelFlagFresh
<1>3. RuntimeOwned'
  BY <1>1, NoneAssumption DEF RuntimeOwned, TurnSteps, CompactSteps
<1>4. AbortReachesHarness'
  <2>1. SUFFICES ASSUME NEW q \in Jobs, step[q] # "idle", deleting[owner'[q]] # "deleted"
                 PROVE  /\ step[q] \in {"turn", "streaming"} => activeTurns[owner'[q]] = q
                        /\ step[q] = "compact" => activeTurns[owner'[q]] = None /\ activeCompacts[owner'[q]] = q
    BY DEF AbortReachesHarness
  <2>2. owner'[q] = owner[q] /\ owner[q] \in Sessions
    BY <1>1, <2>1, AtWork
  <2>3. QED
    BY <2>1, <2>2, NoneAssumption DEF AbortReachesHarness
<1>5. QED
  BY <1>2, <1>3, <1>4 DEF Ownership

\* The HTTP handlers own no runtime and take none away.
LEMMA HandlerOwnership ==
    ASSUME ChatInv, NEW r \in Jobs, HandlerStep(r)
    PROVE  Ownership'
<1> USE DEF runtimeVars, storeVars, chainVars
<1>1. CASE enqueue(r) \/ enqueueCompact(r)
  <2>1. target[r] \in Sessions
    BY <1>1 DEF enqueue, enqueueCompact, Reply, ChatInv, RequestsHaveTargets
  <2>2. UNCHANGED <<owner, promise>> \/ \E s \in Sessions : Schedule(r, s)
    BY <1>1, <2>1 DEF enqueue, enqueueCompact
  <2>3. UNCHANGED <<step, activeTurns, activeCompacts, compactAbortRequested, deleting>>
    BY <1>1 DEF enqueue, enqueueCompact
  <2>4. QED
    BY <2>2, <2>3, FrameKeeps
<1>2. CASE ~(enqueue(r) \/ enqueueCompact(r))
  <2>1. UNCHANGED <<step, activeTurns, activeCompacts, compactAbortRequested, deleting, owner, promise>>
    BY <1>2 DEF HandlerStep, Receive, enqueueFails, handleSteerOrFollowUp, ReportSteerError
  <2>2. QED
    BY <2>1, FrameKeeps
<1>3. QED
  BY <1>1, <1>2

\* A job at an await before its harness holds no runtime.
LEMMA NoRuntimeYet ==
    ASSUME ChatInv, NEW r \in Jobs, step[r] \in {"auth", "open", "create", "ccreate"}
    PROVE  /\ owner[r] \in Sessions
           /\ activeTurns[owner[r]] = None
           /\ activeCompacts[owner[r]] = None
<1> USE DEF ChatInv, ChatTypeOK
<1>1. owner[r] \in Sessions /\ \A q \in Jobs : step[q] # "idle" /\ owner[q] = owner[r] => q = r
  BY AtWork
<1>2. activeTurns[owner[r]] = None
  BY <1>1, NoneAssumption DEF RuntimeOwned, TurnSteps
<1>3. activeCompacts[owner[r]] = None
  BY <1>1, NoneAssumption DEF RuntimeOwned, CompactSteps
<1>4. QED
  BY <1>1, <1>2, <1>3

\* A job that creates its runtime takes a place that no other job holds.
LEMMA SetupOwnership ==
    ASSUME ChatInv, NEW r \in Jobs, SetupStep(r)
    PROVE  Ownership'
<1> USE DEF runtimeVars, storeVars, chainVars
<1>1. CASE StartJob(r)
  <2> USE DEF ChatInv, ChatTypeOK, ChainInv, ChainTypeOK
  <2>1. /\ promise[r] = "waiting" /\ promise'[r] = "running" /\ step'[r] = "auth" /\ owner' = owner
        /\ \A q \in Jobs : q # r => promise'[q] = promise[q] /\ step'[q] = step[q]
        /\ UNCHANGED <<activeTurns, activeCompacts, compactAbortRequested, deleting>>
    BY <1>1 DEF StartJob, Run, GoTo
  <2>2. step[r] = "idle"
    BY <2>1 DEF StepMatchesPromise
  <2>3. StepMatchesPromise' /\ CancelFlagFresh'
    BY <2>1 DEF StepMatchesPromise, CancelFlagFresh
  <2>4. RuntimeOwned'
    <3>1. \A s \in Sessions : activeTurns[s] # r /\ activeCompacts[s] # r
      BY <2>2 DEF RuntimeOwned, TurnSteps, CompactSteps
    <3>2. QED
      BY <2>1, <3>1 DEF RuntimeOwned
  <2>5. AbortReachesHarness'
    BY <2>1 DEF AbortReachesHarness
  <2>6. QED
    BY <2>3, <2>4, <2>5 DEF Ownership
<1>2. CASE Paired(r) \/ OpenForTurn(r) \/ OpenForCompact(r)
  <2>1. step[r] \in {"auth", "open"}
    BY <1>2 DEF Paired, OpenForTurn, OpenForCompact, openPiSession
  <2>2. /\ \E next \in {"open", "create", "ccreate"} : GoTo(r, next)
        /\ UNCHANGED <<chainVars, activeTurns, activeCompacts, compactAbortRequested, deleting>>
    BY <1>2 DEF Paired, OpenForTurn, OpenForCompact, BeginCompact
  <2>3. activeTurns[owner[r]] = None /\ activeCompacts[owner[r]] = None
    BY <2>1, NoRuntimeYet
  <2>4. QED
    BY <2>1, <2>2, <2>3, MoveKeeps, NoneAssumption DEF Steps, TurnSteps, CompactSteps
<1>3. CASE \/ NotPaired(r) \/ SessionGone(r) \/ OpenFails(r) \/ CreateTurnFails(r)
           \/ CreateCompactFails(r) /\ IsCompactJob(r)
  <2>1. step[r] \in {"auth", "open", "create", "ccreate"}
    BY <1>3 DEF NotPaired, SessionGone, OpenFails, CreateTurnFails, CreateCompactFails
  <2>2. EndJob(r) /\ UNCHANGED <<activeTurns, activeCompacts, compactAbortRequested, deleting>>
    BY <1>3 DEF NotPaired, SessionGone, OpenFails, CreateTurnFails, CreateCompactFails, FailJob
  <2>3. activeTurns[owner[r]] # r /\ activeCompacts[owner[r]] # r
    BY <2>1, NoRuntimeYet, NoneAssumption
  <2>4. QED
    BY <2>1, <2>2, <2>3, EndKeeps
<1>4. CASE CreateCompactFails(r) /\ ~IsCompactJob(r)
  <2>1. step[r] = "ccreate" /\ GoTo(r, "finally")
        /\ UNCHANGED <<chainVars, activeTurns, activeCompacts, compactAbortRequested, deleting>>
    BY <1>4 DEF CreateCompactFails
  <2>2. activeTurns[owner[r]] = None /\ activeCompacts[owner[r]] = None
    BY <2>1, NoRuntimeYet
  <2>3. QED
    BY <2>1, <2>2, MoveKeeps, NoneAssumption DEF Steps, TurnSteps, CompactSteps
<1>5. CASE CreateTurn(r) \/ CreateCompact(r)
  <2> USE DEF ChatInv, ChatTypeOK, ChainInv, ChainTypeOK
  <2>1. step[r] \in {"create", "ccreate"}
    BY <1>5 DEF CreateTurn, CreateCompact
  <2>2. /\ owner[r] \in Sessions
        /\ activeTurns[owner[r]] = None /\ activeCompacts[owner[r]] = None
        /\ \A q \in Jobs : step[q] # "idle" /\ owner[q] = owner[r] => q = r
    BY <2>1, NoRuntimeYet, AtWork
  <2>3. /\ \A s \in Sessions : s # owner[r] => activeTurns'[s] = activeTurns[s] /\ activeCompacts'[s] = activeCompacts[s]
        /\ \/ step'[r] = "turn" /\ activeTurns'[owner[r]] = r /\ activeCompacts'[owner[r]] = None
           \/ step'[r] = "compact" /\ activeTurns'[owner[r]] = None /\ activeCompacts'[owner[r]] = r
        /\ \A q \in Jobs : q # r => step'[q] = step[q]
        /\ UNCHANGED <<owner, promise, compactAbortRequested, deleting>>
    BY <1>5, <2>2 DEF CreateTurn, CreateCompact, GoTo
  <2>4. StepMatchesPromise'
    BY <2>1, <2>3 DEF StepMatchesPromise
  <2>5. CancelFlagFresh'
    BY <2>2, <2>3 DEF CancelFlagFresh
  <2>6. RuntimeOwned'
    <3>1. \A s \in Sessions : s # owner[r] => activeTurns[s] # r /\ activeCompacts[s] # r
      BY NoneAssumption DEF RuntimeOwned
    <3>2. ASSUME NEW s \in Sessions, NEW q \in Jobs, q # r, activeTurns'[s] = q \/ activeCompacts'[s] = q
          PROVE  activeTurns'[s] = activeTurns[s] /\ activeCompacts'[s] = activeCompacts[s]
      BY <2>3, <3>2, NoneAssumption
    <3>3. ASSUME NEW s \in Sessions, activeTurns'[s] = r \/ activeCompacts'[s] = r
          PROVE  s = owner[r]
      BY <2>3, <3>1, <3>3
    <3>4. QED
      BY <2>2, <2>3, <3>2, <3>3, NoneAssumption DEF RuntimeOwned, TurnSteps, CompactSteps
  <2>7. AbortReachesHarness'
    <3>1. SUFFICES ASSUME NEW q \in Jobs, owner[q] # None, deleting[owner[q]] # "deleted",
                          step'[q] # "idle"
                   PROVE  /\ step'[q] \in {"turn", "streaming"} => activeTurns'[owner[q]] = q
                          /\ step'[q] = "compact" =>
                                activeTurns'[owner[q]] = None /\ activeCompacts'[owner[q]] = q
      BY <2>3 DEF AbortReachesHarness
    <3>2. CASE q = r
      BY <2>3, <3>2
    <3>3. CASE q # r
      <4>1. owner[q] \in Sessions /\ owner[q] # owner[r]
        BY <2>2, <2>3, <3>1, <3>3
      <4>2. QED
        BY <2>3, <3>1, <3>3, <4>1 DEF AbortReachesHarness
    <3>4. QED
      BY <3>2, <3>3
  <2>8. QED
    BY <2>4, <2>5, <2>6, <2>7 DEF Ownership
<1>6. QED
  BY <1>1, <1>2, <1>3, <1>4, <1>5 DEF SetupStep

\* The harness moves its job between awaits at which the runtime stays put.
LEMMA HarnessOwnership ==
    ASSUME ChatInv, NEW r \in Jobs, HarnessStep(r) \/ CompactFails(r)
    PROVE  Ownership'
<1> USE DEF runtimeVars, storeVars, chainVars
<1> DEFINE at == step[r]
<1>1. /\ at \in {"turn", "streaming", "compact", "ctouch"}
      /\ \E next \in {"streaming", "answered", "finally", "ctouch", "cfail"} :
            /\ GoTo(r, next)
            /\ at \in {"turn", "streaming"} => next \in {"streaming", "answered", "finally"}
            /\ at \in {"compact", "ctouch"} => next \in {"ctouch", "cfail"}
      /\ UNCHANGED <<activeTurns, activeCompacts, compactAbortRequested, deleting>>
      /\ UNCHANGED chainVars
  BY DEF HarnessStep, AgentStart, AgentEnd, PromptThrows, CompactDone, CompactFails
<1>2. owner[r] \in Sessions
  BY <1>1, AtWork DEF ChatInv
<1>3. /\ activeTurns[owner[r]] = r => at \in {"turn", "streaming"}
      /\ activeCompacts[owner[r]] = r => at \in {"compact", "ctouch"}
      /\ deleting[owner[r]] # "deleted" /\ at \in {"turn", "streaming"} => activeTurns[owner[r]] = r
  BY <1>1, <1>2, NoneAssumption DEF ChatInv, RuntimeOwned, AbortReachesHarness, TurnSteps, CompactSteps
<1>4. PICK next \in {"streaming", "answered", "finally", "ctouch", "cfail"} :
            /\ GoTo(r, next)
            /\ at \in {"turn", "streaming"} => next \in {"streaming", "answered", "finally"}
            /\ at \in {"compact", "ctouch"} => next \in {"ctouch", "cfail"}
  BY <1>1
<1>5. next \in Steps \ {"idle"}
  BY DEF Steps, TurnSteps, CompactSteps
<1>6. QED
  BY <1>1, <1>3, <1>4, <1>5, MoveKeeps DEF TurnSteps, CompactSteps

\* When a turn ends, the runtime it evicts is its own.
LEMMA CloseOwnership ==
    ASSUME ChatInv, NEW r \in Jobs, CloseStep(r)
    PROVE  Ownership'
<1> USE DEF runtimeVars, storeVars, chainVars
<1>1. CASE FinallyCallback(r)
  BY <1>1, FrameKeeps DEF FinallyCallback
<1>2. ASSUME step[r] # "idle"
      PROVE  /\ owner[r] \in Sessions
             /\ \A q \in Jobs : step[q] # "idle" /\ owner[q] = owner[r] => q = r
             /\ activeTurns[owner[r]] \in {None, r} /\ activeCompacts[owner[r]] \in {None, r}
             /\ activeTurns[owner[r]] = r => step[r] \in TurnSteps \cup {"touch", "finally"}
             /\ activeCompacts[owner[r]] = r => step[r] \in CompactSteps
  <2>1. owner[r] \in Sessions /\ \A q \in Jobs : step[q] # "idle" /\ owner[q] = owner[r] => q = r
    BY <1>2, AtWork DEF ChatInv
  <2>2. QED
    BY <2>1 DEF ChatInv, ChatTypeOK, RuntimeOwned, TurnSteps, CompactSteps
<1>3. CASE Answer(r) \/ TouchTurnFails(r)
  <2>1. /\ step[r] \in {"answered", "touch"}
        /\ \E next \in {"touch", "finally"} : GoTo(r, next)
        /\ UNCHANGED <<chainVars, activeTurns, activeCompacts, compactAbortRequested, deleting>>
    BY <1>3 DEF Answer, TouchTurnFails
  <2>2. activeCompacts[owner[r]] # r
    BY <1>2, <2>1 DEF CompactSteps
  <2>3. QED
    BY <2>1, <2>2, MoveKeeps DEF Steps, TurnSteps, CompactSteps
<1>4. CASE Overflow(r)
  <2> USE DEF ChatInv, ChatTypeOK, ChainInv, ChainTypeOK
  <2>1. /\ step[r] = "answered" /\ step'[r] = "ccreate"
        /\ \A q \in Jobs : q # r => step'[q] = step[q]
        /\ UNCHANGED <<owner, promise, deleting>>
    BY <1>4 DEF Overflow, BeginCompact, GoTo
  <2>2. activeCompacts[owner[r]] = None
    BY <1>2, <2>1 DEF CompactSteps
  <2>3. activeTurns' = [activeTurns EXCEPT ![owner[r]] = None]
        /\ activeCompacts' = activeCompacts /\ compactAbortRequested' = compactAbortRequested
    BY <1>2, <1>4, <2>1, <2>2 DEF Overflow
  <2>4. StepMatchesPromise' /\ CancelFlagFresh'
    BY <2>1, <2>3 DEF StepMatchesPromise, CancelFlagFresh
  <2>5. RuntimeOwned'
    BY <1>2, <2>1, <2>2, <2>3, NoneAssumption DEF RuntimeOwned
  <2>6. AbortReachesHarness'
    <3>1. SUFFICES ASSUME NEW q \in Jobs, owner[q] # None, deleting[owner[q]] # "deleted",
                          step'[q] \in {"turn", "streaming", "compact"}
                   PROVE  /\ step'[q] \in {"turn", "streaming"} => activeTurns'[owner[q]] = q
                          /\ step'[q] = "compact" =>
                                activeTurns'[owner[q]] = None /\ activeCompacts'[owner[q]] = q
      BY <2>1 DEF AbortReachesHarness
    <3>2. q # r /\ step'[q] = step[q]
      BY <2>1, <3>1
    <3>3. owner[q] \in Sessions /\ owner[q] # owner[r]
      BY <1>2, <2>1, <3>1, <3>2
    <3>4. QED
      BY <2>3, <3>1, <3>2, <3>3 DEF AbortReachesHarness
  <2>7. QED
    BY <2>4, <2>5, <2>6 DEF Ownership
<1>5. CASE TouchTurn(r) \/ FinishTurn(r)
  <2>1. step[r] \in {"touch", "finally"} /\ EvictOwnTurn(owner[r]) /\ EndJob(r) /\ deleting' = deleting
    BY <1>5 DEF TouchTurn, FinishTurn
  <2>2. activeCompacts[owner[r]] # r
    BY <1>2, <2>1 DEF CompactSteps
  <2>3. QED
    BY <2>1, <2>2, EndKeeps
<1>6. CASE step[r] = "ctouch" /\ CompactFails(r)
  BY <1>6, HarnessOwnership
<1>7. CASE FinishCompact(r) /\ IsCompactJob(r)
  <2>1. step[r] \in {"ctouch", "cfail"} /\ ClearCompact(owner[r]) /\ EndJob(r) /\ deleting' = deleting
    BY <1>7 DEF FinishCompact
  <2>2. activeTurns[owner[r]] # r
    BY <1>2, <2>1 DEF TurnSteps
  <2>3. QED
    BY <2>1, <2>2, EndKeeps
<1>8. CASE FinishCompact(r) /\ ~IsCompactJob(r)
  <2> USE DEF ChatInv, ChatTypeOK, ChainInv, ChainTypeOK
  <2>1. /\ step[r] \in {"ctouch", "cfail"} /\ step'[r] = "touch"
        /\ \A q \in Jobs : q # r => step'[q] = step[q]
        /\ ClearCompact(owner[r])
        /\ UNCHANGED <<owner, promise, deleting>>
    BY <1>8 DEF FinishCompact, GoTo
  <2>2. /\ activeTurns' = activeTurns
        /\ activeCompacts' = [activeCompacts EXCEPT ![owner[r]] = None]
        /\ compactAbortRequested' = compactAbortRequested \ {owner[r]}
    BY <2>1 DEF ClearCompact
  <2>3. StepMatchesPromise' /\ CancelFlagFresh'
    BY <2>1, <2>2 DEF StepMatchesPromise, CancelFlagFresh
  <2>4. RuntimeOwned'
    BY <1>2, <2>1, <2>2, NoneAssumption DEF RuntimeOwned
  <2>5. AbortReachesHarness'
    <3>1. SUFFICES ASSUME NEW q \in Jobs, owner[q] # None, deleting[owner[q]] # "deleted",
                          step'[q] \in {"turn", "streaming", "compact"}
                   PROVE  /\ step'[q] \in {"turn", "streaming"} => activeTurns'[owner[q]] = q
                          /\ step'[q] = "compact" =>
                                activeTurns'[owner[q]] = None /\ activeCompacts'[owner[q]] = q
      BY <2>1 DEF AbortReachesHarness
    <3>2. q # r /\ step'[q] = step[q]
      BY <2>1, <3>1
    <3>3. owner[q] \in Sessions /\ owner[q] # owner[r]
      BY <1>2, <2>1, <3>1, <3>2
    <3>4. QED
      BY <2>2, <3>1, <3>2, <3>3 DEF AbortReachesHarness
  <2>6. QED
    BY <2>3, <2>4, <2>5 DEF Ownership
<1>9. QED
  BY <1>1, <1>3, <1>4, <1>5, <1>6, <1>7, <1>8 DEF CloseStep

\* abort marks a session only while it has a runtime; a deletion may take the
\* runtime from a job, and from then on the session counts as deleted.
LEMMA SessionOwnership ==
    ASSUME ChatInv, NEW s \in Sessions, abortTurn(s) \/ DeleteStep(s)
    PROVE  Ownership'
<1> USE DEF runtimeVars, storeVars, chainVars, ChatInv, ChatTypeOK, ChainInv, ChainTypeOK
<1>1. /\ UNCHANGED <<owner, promise, step>>
      /\ \A t \in Sessions : /\ activeTurns'[t] \in {None, activeTurns[t]}
                             /\ activeCompacts'[t] \in {None, activeCompacts[t]}
      /\ \A t \in Sessions : deleting'[t] # "deleted" =>
            /\ deleting[t] # "deleted"
            /\ activeTurns'[t] = activeTurns[t]
            /\ activeCompacts'[t] = activeCompacts[t]
  <2>1. CASE abortTurn(s)
    BY <2>1 DEF abortTurn
  <2>2. CASE DeleteAccepted(s) \/ DeleteFile(s) \/ DeleteEntry(s) \/ DeleteFails(s)
    BY <2>2 DEF DeleteAccepted, DeleteFile, DeleteEntry, DeleteFails
  <2>3. CASE DeleteEvict(s)
    BY <2>3 DEF DeleteEvict, evictRuntime
  <2>4. QED
    BY <2>1, <2>2, <2>3 DEF DeleteStep
<1>2. StepMatchesPromise'
  BY <1>1 DEF StepMatchesPromise
<1>3. RuntimeOwned'
  BY <1>1, NoneAssumption DEF RuntimeOwned
<1>4. AbortReachesHarness'
  <2>1. SUFFICES ASSUME NEW q \in Jobs, owner[q] # None, deleting'[owner[q]] # "deleted"
                 PROVE  /\ step[q] \in {"turn", "streaming"} => activeTurns'[owner[q]] = q
                        /\ step[q] = "compact" =>
                              activeTurns'[owner[q]] = None /\ activeCompacts'[owner[q]] = q
    BY <1>1 DEF AbortReachesHarness
  <2>2. owner[q] \in Sessions
    BY <2>1
  <2>3. QED
    BY <1>1, <2>1, <2>2 DEF AbortReachesHarness
<1>5. CancelFlagFresh'
  BY DEF CancelFlagFresh, abortTurn, DeleteStep, DeleteAccepted, DeleteFile, DeleteEntry,
         DeleteFails, DeleteEvict, evictRuntime
<1>6. QED
  BY <1>2, <1>3, <1>4, <1>5 DEF Ownership
-----------------------------------------------------------------------------
(* The inductive invariant and what follows from it.                       *)

\* ChatInv holds initially.
LEMMA InitChatInv == Init => ChatInv
<1> SUFFICES ASSUME Init PROVE ChatInv
  OBVIOUS
<1>1. ChainInv
  BY InitChainInv DEF Init
<1>2. ChatTypeOK
  BY <1>1 DEF ChainInv, ChatTypeOK, Init, RequestState, Steps, DeleteState
<1>3. promise = [j \in Jobs |-> "none"] /\ owner = [j \in Jobs |-> None]
  BY DEF Init, ChainInit
<1>4. RequestsHaveTargets /\ StepMatchesPromise /\ RuntimeOwned /\ AbortReachesHarness /\ CancelFlagFresh
  BY <1>3, NoneAssumption
     DEF Init, RequestsHaveTargets, StepMatchesPromise, RuntimeOwned, AbortReachesHarness, CancelFlagFresh
<1>5. QED
  BY <1>1, <1>2, <1>4 DEF ChatInv

\* A request gets its target with its first state.
LEMMA TargetsKept == ChatInv /\ [Next]_vars => RequestsHaveTargets'
<1> SUFFICES ASSUME ChatInv, [Next]_vars PROVE RequestsHaveTargets'
  OBVIOUS
<1> USE DEF requestVars, ChatInv, ChatTypeOK, RequestsHaveTargets
<1>1. ASSUME NEW r \in Jobs, HandlerStep(r) PROVE RequestsHaveTargets'
  BY <1>1 DEF HandlerStep, Receive, enqueue, enqueueFails, enqueueCompact, handleSteerOrFollowUp,
              ReportSteerError, Reply
<1>2. ASSUME NEW r \in Jobs, SetupStep(r) PROVE RequestsHaveTargets'
  BY <1>2 DEF SetupStep, StartJob, NotPaired, Paired, SessionGone, OpenFails, OpenForTurn,
         OpenForCompact, BeginCompact, CreateTurn, CreateTurnFails, CreateCompact,
         CreateCompactFails, FailJob
<1>3. ASSUME NEW r \in Jobs, HarnessStep(r) \/ CloseStep(r) PROVE RequestsHaveTargets'
  BY <1>3 DEF HarnessStep, CloseStep, AgentStart, AgentEnd, PromptThrows, CompactDone,
         CompactFails, Answer, Overflow, BeginCompact, TouchTurn, TouchTurnFails,
         FinishTurn, FinishCompact, FinallyCallback
<1>4. CASE (\E s \in Sessions : abortTurn(s) \/ DeleteStep(s)) \/ UNCHANGED vars
  BY <1>4 DEF vars, abortTurn, DeleteStep, DeleteAccepted, DeleteFile, DeleteEntry, DeleteEvict,
              DeleteFails
<1>5. QED
  BY <1>1, <1>2, <1>3, <1>4 DEF Next

\* ChatInv is preserved by every step.
LEMMA NextChatInv == ChatInv /\ [Next]_vars => ChatInv'
<1> SUFFICES ASSUME ChatInv, [Next]_vars PROVE ChatInv'
  OBVIOUS
<1>1. ChainInv'
  BY StepIsChainStep, NextChainInv DEF ChatInv
<1>2. ChainTypeOK'
  BY <1>1 DEF ChainInv
<1>3. ChatTypeOK' /\ Ownership'
  <2>1. CASE UNCHANGED vars
    <3>1. ChatTypeOK'
      BY <1>2, <2>1 DEF vars, requestVars, runtimeVars, storeVars, shown, ChatInv, ChatTypeOK
    <3>2. UNCHANGED <<step, activeTurns, activeCompacts, compactAbortRequested, deleting, owner, promise>>
      BY <2>1 DEF vars, chainVars, runtimeVars, storeVars
    <3>3. QED
      BY <3>1, <3>2, FrameKeeps
  <2>2. ASSUME NEW r \in Jobs, HandlerStep(r) \/ SetupStep(r) \/ HarnessStep(r) \/ CloseStep(r)
        PROVE  ChatTypeOK' /\ Ownership'
    BY <1>2, <2>2, HandlerType, SetupType, CloseType, HandlerOwnership, SetupOwnership,
       HarnessOwnership, CloseOwnership
  <2>3. ASSUME NEW s \in Sessions, abortTurn(s) \/ DeleteStep(s)
        PROVE  ChatTypeOK' /\ Ownership'
    BY <1>2, <2>3, SessionType, SessionOwnership
  <2>4. QED
    BY <2>1, <2>2, <2>3 DEF Next
<1>4. QED
  BY <1>1, <1>3, TargetsKept DEF ChatInv, Ownership

\* The invariant of ChatService holds for any requests, sessions and faults.
THEOREM ChatInvariant == Spec => []ChatInv
BY InitChatInv, NextChatInv, PTL DEF Spec

\* ChatService drives the promise chain only through the chain's own steps:
\* whatever holds of SessionChains holds of the daemon.
THEOREM ChatUsesChain == Spec => ChainSpec
<1>1. Init => ChainInit
  BY DEF Init
<1>2. QED
  BY <1>1, ChatInvariant, StepIsChainStep, PTL DEF Spec, ChainSpec

\* The daemon executes the jobs of a session one at a time, in the order in
\* which the requests were scheduled, whatever fails or is deleted meanwhile.
THEOREM ChatImplementsExecutor == Spec => ImplementsSerialExecutor
BY ChatUsesChain, ChainRefinement, PTL

\* The types and the ownership of the runtimes exclude a second harness.
LEMMA OneRuntimeFromInv ==
    ChatInv => OneHarnessPerSession /\ OneRuntimePerSession /\ WorkMeansBusy
<1> SUFFICES ASSUME ChatInv PROVE OneHarnessPerSession /\ OneRuntimePerSession /\ WorkMeansBusy
  OBVIOUS
<1> USE DEF ChatInv
<1>1. OneHarnessPerSession
  BY AtWork DEF OneHarnessPerSession, AtHarness
<1>2. OneRuntimePerSession
  <2>1. SUFFICES ASSUME NEW s \in Sessions, activeTurns[s] # None, activeCompacts[s] # None
                 PROVE  FALSE
    BY DEF OneRuntimePerSession
  <2>2. activeTurns[s] \in Jobs /\ activeCompacts[s] \in Jobs
    BY <2>1 DEF ChatTypeOK
  <2>3. PICK q \in Jobs, r \in Jobs : activeTurns[s] = q /\ activeCompacts[s] = r
    BY <2>2
  <2>4. /\ owner[q] = s /\ step[q] \in TurnSteps \cup {"touch", "finally"}
        /\ owner[r] = s /\ step[r] \in CompactSteps
    BY <2>3 DEF RuntimeOwned
  <2>5. q = r
    BY <2>4, AtWork DEF TurnSteps, CompactSteps
  <2>6. QED
    BY <2>4, <2>5 DEF TurnSteps, CompactSteps
<1>3. WorkMeansBusy
  BY DEF WorkMeansBusy, isSessionBusy, ChainInv, NoEntryMeansIdle, HasSettled
<1>4. QED
  BY <1>1, <1>2, <1>3

\* Two harnesses never work for one session at the same time: no two turns,
\* no turn beside a compaction.
THEOREM ChatOneHarness == Spec => []OneHarnessPerSession
BY ChatInvariant, OneRuntimeFromInv, PTL

\* A session never holds a turn's runtime and a compaction's at once.
THEOREM ChatOneRuntime == Spec => []OneRuntimePerSession
BY ChatInvariant, OneRuntimeFromInv, PTL

\* A session with a queued or running job always answers "busy".
THEOREM ChatWorkMeansBusy == Spec => []WorkMeansBusy
BY ChatInvariant, OneRuntimeFromInv, PTL

\* abortTurn finds every working harness of a session that was not deleted.
THEOREM ChatAbortReaches == Spec => []AbortReachesHarness
<1>1. ChatInv => AbortReachesHarness
  BY DEF ChatInv
<1>2. QED
  BY <1>1, ChatInvariant, PTL

\* All four at once: one harness, one runtime, a stop button that finds it, no hidden work.
THEOREM ChatIsSafe == Spec => []ChatSafety
<1>1. ChatInv => ChatSafety
  BY OneRuntimeFromInv DEF ChatInv, ChatSafety
<1>2. QED
  BY <1>1, ChatInvariant, PTL
-----------------------------------------------------------------------------
(* What is shown and what counts as busy.                                  *)

\* No step changes the session of a job at work, or takes back a deletion.
LEMMA JobsKeepSessions ==
    ASSUME ChatInv, [Next]_vars
    PROVE  /\ \A q \in Jobs : step[q] # "idle" => owner'[q] = owner[q]
           /\ \A s \in Sessions : deleting[s] = "deleted" => deleting'[s] = "deleted"
<1>1. \A q \in Jobs : step[q] # "idle" => owner'[q] = owner[q]
  <2>1. [ChainNext]_chainVars
    BY StepIsChainStep
  <2>2. \A q \in Jobs : step[q] # "idle" => promise[q] = "running"
    BY DEF ChatInv, StepMatchesPromise
  <2> QED
    BY <2>1, <2>2
    DEF ChainNext, Schedule, Run, Settle, Forget, DropEntry, chainVars, ChatInv, ChainInv, ChainTypeOK
<1>2. \A s \in Sessions : deleting[s] = "deleted" => deleting'[s] = "deleted"
  <2>1. ASSUME NEW s \in Sessions, DeleteStep(s)
        PROVE  \A t \in Sessions : deleting[t] = "deleted" => deleting'[t] = "deleted"
    BY <2>1 DEF DeleteStep, DeleteAccepted, DeleteFile, DeleteEntry, DeleteEvict, DeleteFails,
                ChatInv, ChatTypeOK
  <2>2. ASSUME NEW r \in Jobs, HandlerStep(r) PROVE deleting' = deleting
    BY <2>2 DEF HandlerStep, Receive, enqueue, enqueueFails, enqueueCompact,
                handleSteerOrFollowUp, ReportSteerError, storeVars
  <2>3. ASSUME NEW r \in Jobs, SetupStep(r) PROVE deleting' = deleting
    BY <2>3 DEF SetupStep, StartJob, NotPaired, Paired, SessionGone, OpenFails, OpenForTurn,
         OpenForCompact, BeginCompact, CreateTurn, CreateTurnFails, CreateCompact,
         CreateCompactFails, FailJob, storeVars
  <2>4. ASSUME NEW r \in Jobs, HarnessStep(r) \/ CloseStep(r) PROVE deleting' = deleting
    BY <2>4 DEF HarnessStep, CloseStep, AgentStart, AgentEnd, PromptThrows, CompactDone,
         CompactFails, Answer, Overflow, BeginCompact, TouchTurn, TouchTurnFails,
         FinishTurn, FinishCompact, FinallyCallback, storeVars
  <2> QED
    BY <2>1, <2>2, <2>3, <2>4 DEF Next, abortTurn, vars, storeVars
<1> QED
  BY <1>1, <1>2

\* How a step of request r may change what the clients display of replies: it
\* turns one on only for a job that begins to stream, and a job that ends
\* streaming turns its own off.
ReplyMove(r) ==
    /\ \A q \in Jobs \ {r} : step'[q] = step[q]
    /\ \A s \in shownStreaming' :
          s \in shownStreaming \/ (s = owner[r] /\ step[r] # "idle" /\ step'[r] = "streaming")
    /\ step[r] = "streaming" /\ step'[r] # "streaming" =>
          owner[r] \notin shownStreaming' \/ deleting[owner[r]] = "deleted"

\* The same of the spinner.
SpinnerMove(r) ==
    /\ \A q \in Jobs \ {r} : step'[q] = step[q]
    /\ \A s \in shownCompacting' :
          \/ s \in shownCompacting
          \/ s = owner[r] /\ step[r] # "idle" /\ step'[r] \in {"ccreate", "compact"}
    /\ step[r] \in {"ccreate", "compact"} /\ step'[r] \notin {"ccreate", "compact"} =>
          owner[r] \notin shownCompacting'

\* And of the sessions that count as being compacted.
CompactingMove(r) ==
    /\ \A q \in Jobs \ {r} : step'[q] = step[q]
    /\ \A s \in compactingSessions' :
          \/ s \in compactingSessions
          \/ s = owner[r] /\ step[r] # "idle" /\ step'[r] \in CompactSteps \cup {"ccreate"}
    /\ step[r] \in CompactSteps \cup {"ccreate"} /\ step'[r] \notin CompactSteps \cup {"ccreate"} =>
          owner[r] \notin compactingSessions'

\* Every request's step moves the replies so.
LEMMA RepliesMove ==
    ASSUME ChatInv, NEW r \in Jobs, HandlerStep(r) \/ SetupStep(r) \/ HarnessStep(r) \/ CloseStep(r)
    PROVE  ReplyMove(r)
<1> USE DEF ReplyMove, ChatInv, ChatTypeOK, GoTo, EndJob, ShowRunning, ShowCompacting,
            publishError, publishCompactionEnd, shown
<1>1. CASE HandlerStep(r)
  BY <1>1 DEF HandlerStep, Receive, enqueue, enqueueFails, enqueueCompact, handleSteerOrFollowUp,
              ReportSteerError
<1>2. CASE SetupStep(r)
  <2>1. CASE StartJob(r) \/ Paired(r) \/ OpenForTurn(r) \/ CreateTurn(r) \/ CreateCompact(r)
    BY <2>1 DEF StartJob, Run, StepMatchesPromise, Paired, OpenForTurn, openPiSession,
                CreateTurn, CreateCompact
  <2>2. CASE NotPaired(r) \/ OpenFails(r) \/ CreateTurnFails(r)
    BY <2>2 DEF NotPaired, OpenFails, CreateTurnFails, FailJob
  <2>3. CASE SessionGone(r)
    BY <2>3 DEF SessionGone, FailJob
  <2>4. CASE OpenForCompact(r)
    BY <2>4 DEF OpenForCompact, openPiSession, BeginCompact
  <2>5. CASE CreateCompactFails(r)
    BY <2>5 DEF CreateCompactFails, FailJob
  <2> QED
    BY <1>2, <2>1, <2>2, <2>3, <2>4, <2>5 DEF SetupStep
<1>3. CASE AgentStart(r) \/ AgentEnd(r)
  <2>1. step[r] = "streaming" /\ deleting[owner[r]] # "deleted" => activeTurns[owner[r]] = r
    <3>1. step[r] = "streaming" => owner[r] \in Sessions
      BY AtWork
    <3> QED
      BY <3>1, NoneAssumption DEF AbortReachesHarness
  <2> QED
    BY <1>3, <2>1 DEF AgentStart, AgentEnd, ShowIfSubscribed
<1>4. CASE PromptThrows(r) \/ CompactDone(r) \/ CompactFails(r)
  BY <1>4 DEF PromptThrows, CompactDone, CompactFails
<1>5. CASE CloseStep(r) /\ ~CompactFails(r)
  BY <1>5 DEF CloseStep, Answer, Overflow, BeginCompact, TouchTurn, TouchTurnFails,
         FinishTurn, FinishCompact, FinallyCallback
<1> QED
  BY <1>1, <1>2, <1>3, <1>4, <1>5 DEF HarnessStep, CloseStep

\* ... and, as long as harnesses can be created, the spinner and what counts
\* as being compacted.
LEMMA CompactionsMove ==
    ASSUME ChatInv, "create" \notin Faults, NEW r \in Jobs,
           HandlerStep(r) \/ SetupStep(r) \/ HarnessStep(r) \/ CloseStep(r)
    PROVE  SpinnerMove(r) /\ CompactingMove(r)
<1> USE DEF SpinnerMove, CompactingMove, CompactSteps, ChatInv, ChatTypeOK, GoTo, EndJob,
            ShowRunning, ShowCompacting, publishError, publishCompactionEnd, shown, runtimeVars
<1>1. CASE HandlerStep(r)
  BY <1>1 DEF HandlerStep, Receive, enqueue, enqueueFails, enqueueCompact, handleSteerOrFollowUp,
              ReportSteerError
<1>2. CASE SetupStep(r)
  <2>1. CASE StartJob(r) \/ Paired(r) \/ OpenForTurn(r) \/ CreateTurn(r) \/ CreateCompact(r)
    BY <2>1 DEF StartJob, Run, StepMatchesPromise, Paired, OpenForTurn, openPiSession,
                CreateTurn, CreateCompact
  <2>2. CASE NotPaired(r) \/ OpenFails(r) \/ CreateTurnFails(r)
    BY <2>2 DEF NotPaired, OpenFails, CreateTurnFails, FailJob
  <2>3. CASE SessionGone(r)
    BY <2>3 DEF SessionGone, FailJob
  <2>4. CASE OpenForCompact(r)
    BY <2>4 DEF OpenForCompact, openPiSession, BeginCompact
  <2>5. CASE CreateCompactFails(r)
    BY <2>5 DEF CreateCompactFails, FailJob
  <2> QED
    BY <1>2, <2>1, <2>2, <2>3, <2>4, <2>5 DEF SetupStep
<1>3. CASE HarnessStep(r) \/ CompactFails(r)
  BY <1>3 DEF HarnessStep, AgentStart, AgentEnd, ShowIfSubscribed, PromptThrows, CompactDone,
              CompactFails
<1>4. CASE Overflow(r)
  BY <1>4 DEF Overflow, BeginCompact
<1>5. CASE Answer(r) \/ TouchTurn(r) \/ TouchTurnFails(r) \/ FinishTurn(r) \/ FinallyCallback(r)
  BY <1>5 DEF Answer, TouchTurn, TouchTurnFails, FinishTurn, FinallyCallback, EvictOwnTurn,
              evictRuntime
<1>6. CASE FinishCompact(r)
  BY <1>6 DEF FinishCompact, ClearCompact
<1> QED
  BY <1>1, <1>2, <1>3, <1>4, <1>5, <1>6 DEF CloseStep

\* abort and delete move no job, turn nothing on and only take back a mark.
LEMMA SessionStepsTurnNothingOn ==
    ASSUME NEW s \in Sessions, abortTurn(s) \/ DeleteStep(s)
    PROVE  UNCHANGED <<step, shown>> /\ compactingSessions' \subseteq compactingSessions
BY DEF abortTurn, DeleteStep, DeleteAccepted, DeleteFile, DeleteEntry, DeleteEvict, DeleteFails,
       evictRuntime, runtimeVars

\* A reply is displayed only while its turn streams, whatever fails.
LEMMA NextReply == ChatInv /\ ReplyShownIsReal /\ [Next]_vars => ReplyShownIsReal'
<1> SUFFICES ASSUME ChatInv, ReplyShownIsReal, [Next]_vars PROVE ReplyShownIsReal'
  OBVIOUS
<1>0. /\ \A q \in Jobs : step[q] # "idle" => owner'[q] = owner[q]
      /\ \A s \in Sessions : deleting[s] = "deleted" => deleting'[s] = "deleted"
      /\ shownStreaming \subseteq Sessions
  BY JobsKeepSessions DEF ChatInv, ChatTypeOK
<1>1. ASSUME NEW r \in Jobs, ReplyMove(r) PROVE ReplyShownIsReal'
  <2>0. step[r] # "idle" => owner[r] \in Sessions
    BY AtWork DEF ChatInv
  <2>1. SUFFICES ASSUME NEW s \in shownStreaming', deleting'[s] # "deleted"
                 PROVE  \E q \in Jobs : owner'[q] = s /\ step'[q] = "streaming"
    BY DEF ReplyShownIsReal
  <2>2. CASE s \in shownStreaming
    <3>1. PICK q \in Jobs : owner[q] = s /\ step[q] = "streaming"
      BY <1>0, <2>1, <2>2 DEF ReplyShownIsReal
    <3>2. step'[q] = "streaming"
      BY <1>0, <1>1, <2>1, <2>2, <3>1 DEF ReplyMove
    <3> QED
      BY <1>0, <3>1, <3>2
  <2>3. CASE s \notin shownStreaming
    BY <1>0, <1>1, <2>1, <2>3 DEF ReplyMove
  <2> QED
    BY <2>2, <2>3
<1>2. CASE UNCHANGED <<step, shown>>
  BY <1>0, <1>2 DEF ReplyShownIsReal, shown
<1> QED
  BY <1>1, <1>2, RepliesMove, SessionStepsTurnNothingOn DEF Next, vars

\* The spinner goes on and out with the jobs that compact, and a session counts
\* as being compacted as long as one of them has cleaning up to do.
LEMMA NextCompactions ==
    ASSUME "create" \notin Faults, ChatInv, SpinnerIsReal, CompactingIsReal, [Next]_vars
    PROVE  (SpinnerIsReal /\ CompactingIsReal)'
<1>0. /\ \A q \in Jobs : step[q] # "idle" => owner'[q] = owner[q]
      /\ \A s \in Sessions : deleting[s] = "deleted" => deleting'[s] = "deleted"
      /\ shownCompacting \subseteq Sessions
  BY JobsKeepSessions DEF ChatInv, ChatTypeOK
<1>1. ASSUME NEW r \in Jobs, SpinnerMove(r) PROVE SpinnerIsReal'
  <2>1. SUFFICES ASSUME NEW s \in shownCompacting', deleting'[s] # "deleted"
                 PROVE  \E q \in Jobs : owner'[q] = s /\ step'[q] \in {"ccreate", "compact"}
    BY DEF SpinnerIsReal
  <2>2. CASE s \in shownCompacting
    <3>1. PICK q \in Jobs : owner[q] = s /\ step[q] \in {"ccreate", "compact"}
      BY <1>0, <2>1, <2>2 DEF SpinnerIsReal
    <3>2. step'[q] \in {"ccreate", "compact"}
      BY <1>1, <2>1, <3>1 DEF SpinnerMove
    <3> QED
      BY <1>0, <3>1, <3>2
  <2>3. CASE s \notin shownCompacting
    BY <1>0, <1>1, <2>1, <2>3 DEF SpinnerMove
  <2> QED
    BY <2>2, <2>3
<1>2. ASSUME NEW r \in Jobs, CompactingMove(r) PROVE CompactingIsReal'
  <2>1. SUFFICES ASSUME NEW s \in compactingSessions'
                 PROVE  \E q \in Jobs : owner'[q] = s /\ step'[q] \in CompactSteps \cup {"ccreate"}
    BY DEF CompactingIsReal
  <2>2. CASE s \in compactingSessions
    <3>1. PICK q \in Jobs : owner[q] = s /\ step[q] \in CompactSteps \cup {"ccreate"}
      BY <2>2 DEF CompactingIsReal
    <3>2. step'[q] \in CompactSteps \cup {"ccreate"}
      BY <1>2, <2>1, <3>1 DEF CompactingMove
    <3> QED
      BY <1>0, <3>1, <3>2 DEF CompactSteps
  <2>3. CASE s \notin compactingSessions
    BY <1>0, <1>2, <2>1, <2>3 DEF CompactingMove
  <2> QED
    BY <2>2, <2>3
<1>3. CASE UNCHANGED <<step, shown>> /\ compactingSessions' \subseteq compactingSessions
  <2>1. SpinnerIsReal'
    BY <1>0, <1>3 DEF SpinnerIsReal, shown
  <2>2. CompactingIsReal'
    BY <1>0, <1>3 DEF CompactingIsReal, CompactSteps
  <2> QED
    BY <2>1, <2>2
<1> QED
  BY <1>1, <1>2, <1>3, CompactionsMove, SessionStepsTurnNothingOn DEF Next, vars, runtimeVars

\* The entry of the map is a job whose finally callback has not run.
EntryIsLive == \A s \in Sessions : sessionChains[s] # None => promise[sessionChains[s]] # "forgotten"

\* The callback that could leave a forgotten job in the map drops its entry.
LEMMA NextEntry == ChatInv /\ EntryIsLive /\ [Next]_vars => EntryIsLive'
<1> SUFFICES ASSUME ChatInv, EntryIsLive, [Next]_vars PROVE EntryIsLive'
  OBVIOUS
<1> USE DEF ChatInv, ChainInv, ChainTypeOK, EntryIsLive
<1>1. [ChainNext]_chainVars
  BY StepIsChainStep
<1>2. ASSUME NEW j \in Jobs, Forget(j) PROVE EntryIsLive'
  <2>1. \A s \in Sessions : sessionChains[s] = j => owner[j] = s
    BY NoneAssumption DEF TailIsLast, HistoryOK
  <2> QED
    BY <1>2, <2>1, NoneAssumption DEF Forget, DropEntry
<1>3. ASSUME NEW j \in Jobs, NEW s \in Sessions, Schedule(j, s) PROVE EntryIsLive'
  BY <1>3 DEF Schedule
<1>4. ASSUME NEW j \in Jobs, Run(j) \/ Settle(j) PROVE EntryIsLive'
  BY <1>4 DEF Run, Settle
<1> QED
  BY <1>1, <1>2, <1>3, <1>4 DEF ChainNext, chainVars

\* Whatever makes a session busy is a job of it.
LEMMA BusyFromInv == ChatInv /\ EntryIsLive /\ CompactingIsReal => BusyMeansWork
<1> SUFFICES ASSUME ChatInv, EntryIsLive, CompactingIsReal, NEW s \in Sessions, isSessionBusy(s)
             PROVE  HasWork(s)
  BY DEF BusyMeansWork
<1>1. ASSUME NEW r \in Jobs, owner[r] = s, step[r] # "idle" PROVE HasWork(s)
  BY <1>1 DEF HasWork, ChatInv, StepMatchesPromise
<1>2. CASE s \in compactingSessions
  BY <1>1, <1>2 DEF CompactingIsReal, CompactSteps
<1>3. CASE sessionChains[s] # None
  <2> USE DEF ChatInv, ChainInv, ChainTypeOK
  <2>1. PICK k \in 1..Len(accepted[s]) : accepted[s][k] = sessionChains[s]
    BY <1>3 DEF TailIsLast
  <2>2. sessionChains[s] \in Jobs /\ owner[sessionChains[s]] = s /\ promise[sessionChains[s]] # "none"
    BY <1>3, <2>1 DEF HistoryOK
  <2>3. promise[sessionChains[s]] \in {"waiting", "running", "settled"}
    BY <1>3, <2>2 DEF EntryIsLive, PromiseState
  <2> QED
    BY <2>2, <2>3 DEF HasWork
<1>4. CASE activeTurns[s] # None
  BY <1>1, <1>4 DEF ChatInv, ChatTypeOK, RuntimeOwned, TurnSteps
<1> QED
  BY <1>2, <1>3, <1>4 DEF isSessionBusy

\* A client never displays a reply that no turn is producing, whatever fails: agent_end or
\* an error reaches it from every path that ends a stream.
THEOREM ChatReplyIsReal == Spec => []ReplyShownIsReal
<1>1. Init => ReplyShownIsReal
  BY DEF Init, ReplyShownIsReal
<1> QED
  BY <1>1, NextReply, ChatInvariant, PTL DEF Spec

\* As long as a harness can be created, what is said of a session, to the busy test and on
\* the screen, is true of its jobs.  Without that premise it is false: runCompact adds the
\* session and starts the spinner before createHarnessWithEvents, and nothing takes them back.
THEOREM ChatStatusIsReal ==
    ASSUME "create" \notin Faults
    PROVE  Spec => []StatusIsReal
<1>1. Init => SpinnerIsReal /\ CompactingIsReal /\ EntryIsLive
  BY DEF Init, ChainInit, SpinnerIsReal, CompactingIsReal, EntryIsLive
<1>2. ChatInv /\ SpinnerIsReal /\ CompactingIsReal /\ [Next]_vars => (SpinnerIsReal /\ CompactingIsReal)'
  BY NextCompactions
<1>3. ChatInv /\ EntryIsLive /\ SpinnerIsReal /\ CompactingIsReal /\ ReplyShownIsReal => StatusIsReal
  BY BusyFromInv DEF StatusIsReal
<1> QED
  BY <1>1, <1>2, <1>3, NextEntry, ChatInvariant, ChatReplyIsReal, PTL DEF Spec

\* Only a compaction whose session is gone from the registry lets an error out.
LEMMA NextCrash == ChatInv /\ CrashNeedsDeletion /\ [Next]_vars => CrashNeedsDeletion'
<1> SUFFICES ASSUME ChatInv, CrashNeedsDeletion, [Next]_vars PROVE CrashNeedsDeletion'
  OBVIOUS
<1>1. ASSUME NEW r \in Jobs, SessionGone(r) PROVE CrashNeedsDeletion'
  <2>1. owner[r] \in Sessions \ inRegistry
    BY <1>1, AtWork DEF SessionGone, ChatInv
  <2> QED
    BY <1>1, <2>1 DEF CrashNeedsDeletion, SessionGone, FailJob, storeVars
<1>2. CASE crashed' = crashed /\ inRegistry' \subseteq inRegistry
  BY <1>2 DEF CrashNeedsDeletion
<1>3. ASSUME NEW r \in Jobs, HandlerStep(r) PROVE crashed' = crashed /\ inRegistry' = inRegistry
  BY <1>3 DEF HandlerStep, Receive, enqueue, enqueueFails, enqueueCompact,
              handleSteerOrFollowUp, ReportSteerError, storeVars
<1>4. ASSUME NEW r \in Jobs, SetupStep(r), ~SessionGone(r)
      PROVE  crashed' = crashed /\ inRegistry' = inRegistry
  BY <1>4 DEF SetupStep, StartJob, NotPaired, Paired, OpenFails, OpenForTurn,
         OpenForCompact, BeginCompact, CreateTurn, CreateTurnFails, CreateCompact,
         CreateCompactFails, FailJob, storeVars
<1>5. ASSUME NEW r \in Jobs, HarnessStep(r) \/ CloseStep(r)
      PROVE  crashed' = crashed /\ inRegistry' = inRegistry
  BY <1>5 DEF HarnessStep, CloseStep, AgentStart, AgentEnd, PromptThrows, CompactDone,
         CompactFails, Answer, Overflow, BeginCompact, TouchTurn, TouchTurnFails,
         FinishTurn, FinishCompact, FinallyCallback, storeVars
<1>6. ASSUME NEW s \in Sessions, abortTurn(s) \/ DeleteStep(s)
      PROVE  crashed' = crashed /\ inRegistry' \subseteq inRegistry
  BY <1>6 DEF abortTurn, DeleteStep, DeleteAccepted, DeleteFile, DeleteEntry, DeleteEvict,
              DeleteFails, storeVars
<1> QED
  BY <1>1, <1>2, <1>3, <1>4, <1>5, <1>6 DEF Next, vars, storeVars

\* An unhandled rejection ends the process only after a deletion overtook a compaction.
THEOREM ChatCrashNeedsDeletion == Spec => []CrashNeedsDeletion
<1>1. Init => CrashNeedsDeletion
  BY DEF Init, CrashNeedsDeletion
<1> QED
  BY <1>1, NextCrash, ChatInvariant, PTL DEF Spec
=============================================================================
