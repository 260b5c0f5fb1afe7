--------------------------- MODULE LlmProxy_proofs ---------------------------
(***************************************************************************)
(* Three proofs, for any number of providers, models and requests: that    *)
(* the stored strategy of a user who starts without a key names configured *)
(* providers only, that the session's sticky model has answered one of its *)
(* chat requests, and that every call attempts its candidates in order,    *)
(* each once, and gets the answer that its forwards justify.               *)
(***************************************************************************)
EXTENDS LlmProxy, WellFoundedInduction, FiniteSetTheorems, TLAPS

Fresh == InitialKeys = {{}}

Covered(s) == \A m \in ModelRefs(s) : ProviderOf[m] \in credentials \cup removed

\* A settings request that waits to store a strategy holds a validated one;
\* SaveSeed validates its own.
EditsCovered ==
    \A e \in Edits : edit[e].pc = "save" /\ edit[e].next # None => Covered(edit[e].next)

EditShape ==
    /\ DOMAIN edit = Edits
    /\ \A e \in Edits : DOMAIN edit[e] = {"pc", "provider", "next"}

PoolsInv == EditShape /\ EditsCovered /\ PoolsConfigured

\* The default strategy names no model.
LEMMA DefaultNamesNone == ModelRefs(DefaultStrategy) = {}
<1>1. \A t \in Tiers : ToSet(DefaultStrategy.pools[t]) = {}
    BY DEF DefaultStrategy, ToSet
<1>2. DefaultStrategy.chat \notin Models /\ DefaultStrategy.titleGeneration \notin Models
    BY ProxyAssumption DEF DefaultStrategy, FollowChat
<1> QED BY <1>1, <1>2 DEF ModelRefs

\* A validated strategy is covered.
LEMMA ValidIsCovered ==
    ASSUME NEW s, validateModelStrategyForUser(s, credentials)
    PROVE  Covered(s)
BY DEF validateModelStrategyForUser, Covered

\* Keys come into credentials and leave to removed, so that what was
\* covered stays covered.
LEMMA CoveredStays ==
    ASSUME credentials \cup removed \subseteq credentials' \cup removed',
           NEW s, \A m \in ModelRefs(s) : ProviderOf[m] \in credentials \cup removed
    PROVE  \A m \in ModelRefs(s) : ProviderOf[m] \in credentials' \cup removed'
OBVIOUS
-----------------------------------------------------------------------------
\* A step of a call, of the session, or of a key leaves every strategy
\* where it is, stored or held, and uncovers nothing.
LEMMA SettingsKept ==
    ASSUME PoolsInv, UNCHANGED <<strategy, edit>>,
           credentials \cup removed \subseteq credentials' \cup removed'
    PROVE  PoolsInv'
BY CoveredStays DEF PoolsInv, EditShape, EditsCovered, PoolsConfigured, Covered

\* A request that goes on to a step other than "save" changes no strategy.
LEMMA EditMoves ==
    ASSUME PoolsInv, NEW e \in Edits, NEW r, edit' = [edit EXCEPT ![e] = r],
           DOMAIN r = {"pc", "provider", "next"}, r.pc # "save",
           UNCHANGED strategy,
           credentials \cup removed \subseteq credentials' \cup removed'
    PROVE  PoolsInv'
<1>1. EditShape'
    BY DEF PoolsInv, EditShape
<1>2. EditsCovered'
    <2> SUFFICES ASSUME NEW d \in Edits, edit'[d].pc = "save", edit'[d].next # None
                 PROVE  Covered(edit[d].next)'
        BY DEF EditsCovered
    <2>1. d # e /\ edit'[d] = edit[d]
        BY DEF PoolsInv, EditShape
    <2> QED BY <2>1, CoveredStays DEF PoolsInv, EditsCovered, Covered
<1>3. PoolsConfigured'
    BY CoveredStays DEF PoolsInv, PoolsConfigured
<1> QED BY <1>1, <1>2, <1>3 DEF PoolsInv

\* A request that takes up a validated strategy to save it.
LEMMA EditHolds ==
    ASSUME PoolsInv, NEW e \in Edits, NEW s, Covered(s),
           edit' = [edit EXCEPT ![e] = [@ EXCEPT !.pc = "save", !.next = s]],
           UNCHANGED <<strategy, credentials, removed>>
    PROVE  PoolsInv'
<1>1. EditShape'
    BY DEF PoolsInv, EditShape
<1>2. EditsCovered'
    <2> SUFFICES ASSUME NEW d \in Edits, edit'[d].pc = "save", edit'[d].next # None
                 PROVE  Covered(edit[d].next)'
        BY DEF EditsCovered
    <2>1. CASE d = e
        <3>1. edit'[d].next = s
            BY <2>1 DEF PoolsInv, EditShape
        <3> QED BY <3>1 DEF Covered
    <2>2. CASE d # e
        <3>1. edit'[d] = edit[d]
            BY <2>2 DEF PoolsInv, EditShape
        <3> QED BY <3>1 DEF PoolsInv, EditsCovered, Covered
    <2> QED BY <2>1, <2>2
<1>3. PoolsConfigured'
    BY DEF PoolsInv, PoolsConfigured
<1> QED BY <1>1, <1>2, <1>3 DEF PoolsInv

\* A request that stores a covered strategy, and ends.
LEMMA EditStores ==
    ASSUME PoolsInv, NEW e \in Edits, NEW s, s # None => Covered(s),
           strategy' = s, EditStep(e, "done"), UNCHANGED <<credentials, removed>>
    PROVE  PoolsInv'
<1>1. EditShape'
    BY DEF PoolsInv, EditShape, EditStep
<1>2. EditsCovered'
    <2> SUFFICES ASSUME NEW d \in Edits, edit'[d].pc = "save", edit'[d].next # None
                 PROVE  Covered(edit[d].next)'
        BY DEF EditsCovered
    <2>1. edit'[e].pc = "done"
        BY DEF PoolsInv, EditShape, EditStep
    <2>2. d # e
        BY <2>1
    <2>3. edit'[d] = edit[d]
        BY <2>2 DEF PoolsInv, EditShape, EditStep
    <2> QED BY <2>3 DEF PoolsInv, EditsCovered, Covered
<1>3. PoolsConfigured'
    BY DEF PoolsConfigured, Covered
<1> QED BY <1>1, <1>2, <1>3 DEF PoolsInv
-----------------------------------------------------------------------------
\* Without a key no strategy is stored and no settings request is under way.
LEMMA InitPools == Fresh /\ Init => PoolsInv
<1> SUFFICES ASSUME Fresh, Init PROVE PoolsInv
    OBVIOUS
<1>1. strategy = None
    BY DEF Fresh, Init, SetUp
<1>2. \A e \in Edits : edit[e] = EditIdle
    BY DEF Init
<1>3. EditIdle.pc = "idle" /\ DOMAIN EditIdle = {"pc", "provider", "next"}
    BY DEF EditIdle
<1>4. DOMAIN edit = Edits
    BY DEF Init
<1> QED BY <1>1, <1>2, <1>3, <1>4 DEF PoolsInv, EditShape, EditsCovered, PoolsConfigured

\* Every step of a settings request keeps the pools: what it stores was validated
\* against keys that are still there or were deleted since.
LEMMA SettingsStepKeepsPools ==
    ASSUME PoolsInv, NEW e \in Edits,
           \/ \E p \in Providers : saveProviderApiKey(e, p) \/ deleteProviderApiKey(e, p)
           \/ \E s \in Strategies : updateModelStrategy(e, s)
           \/ getModelStrategy(e)
           \/ StoreKey(e) \/ seedModelStrategyPoolsForProvider(e) \/ SaveSeed(e) \/ SaveStrategy(e)
    PROVE  PoolsInv'
<1> DEFINE Shaped(r) == DOMAIN r = {"pc", "provider", "next"}
<1>0. Shaped(edit[e])
    BY DEF PoolsInv, EditShape
<1>1. ASSUME NEW p \in Providers, saveProviderApiKey(e, p) PROVE PoolsInv'
    <2> DEFINE r == [edit[e] EXCEPT !.pc = IF p \in credentials THEN "replaceKey" ELSE "storeKey",
                                    !.provider = p]
    <2>1. edit' = [edit EXCEPT ![e] = r]
        BY <1>1 DEF saveProviderApiKey
    <2>2. Shaped(r) /\ r.pc # "save"
        BY <1>0
    <2>3. UNCHANGED <<strategy, credentials, removed>>
        BY <1>1 DEF saveProviderApiKey
    <2> HIDE DEF r
    <2> QED BY <2>1, <2>2, <2>3, EditMoves
<1>2. ASSUME NEW p \in Providers, deleteProviderApiKey(e, p) PROVE PoolsInv'
    <2> DEFINE r == [edit[e] EXCEPT !.pc = "done"]
    <2>1. edit' = [edit EXCEPT ![e] = r]
        BY <1>2 DEF deleteProviderApiKey, EditStep
    <2>2. Shaped(r) /\ r.pc # "save"
        BY <1>0
    <2>3. /\ UNCHANGED strategy
          /\ credentials \cup removed \subseteq credentials' \cup removed'
        BY <1>2 DEF deleteProviderApiKey
    <2> HIDE DEF r
    <2> QED BY <2>1, <2>2, <2>3, EditMoves
<1>3. ASSUME NEW s \in Strategies, updateModelStrategy(e, s) PROVE PoolsInv'
    <2> DEFINE n == normalizeUpdateModelStrategy(s)
    <2>1. CASE validateModelStrategyForUser(n, credentials)
        <3>1. edit' = [edit EXCEPT ![e] = [@ EXCEPT !.pc = "save", !.next = n]]
            BY <1>3, <2>1 DEF updateModelStrategy
        <3>2. UNCHANGED <<strategy, credentials, removed>>
            BY <1>3 DEF updateModelStrategy
        <3> HIDE DEF n
        <3>3. Covered(n)
            BY <2>1, ValidIsCovered
        <3> QED BY <3>1, <3>2, <3>3, EditHolds
    <2>2. CASE ~validateModelStrategyForUser(n, credentials)
        <3> DEFINE r == [edit[e] EXCEPT !.pc = "failed"]
        <3>1. edit' = [edit EXCEPT ![e] = r]
            BY <1>3, <2>2 DEF updateModelStrategy
        <3>2. Shaped(r) /\ r.pc # "save"
            BY <1>0
        <3>3. UNCHANGED <<strategy, credentials, removed>>
            BY <1>3 DEF updateModelStrategy
        <3> HIDE DEF r
        <3> QED BY <3>1, <3>2, <3>3, EditMoves
    <2> QED BY <2>1, <2>2
<1>4. ASSUME getModelStrategy(e) PROVE PoolsInv'
    <2>1. edit' = [edit EXCEPT ![e] = [@ EXCEPT !.pc = "save", !.next = DefaultStrategy]]
        BY <1>4 DEF getModelStrategy
    <2>2. UNCHANGED <<strategy, credentials, removed>>
        BY <1>4 DEF getModelStrategy
    <2>3. Covered(DefaultStrategy)
        BY DefaultNamesNone DEF Covered
    <2> QED BY <2>1, <2>2, <2>3, EditHolds
<1>5. ASSUME StoreKey(e) PROVE PoolsInv'
    <2> DEFINE r == [edit[e] EXCEPT !.pc = IF edit[e].pc = "storeKey" THEN "seed" ELSE "done"]
    <2>1. edit' = [edit EXCEPT ![e] = r]
        BY <1>5 DEF StoreKey, EditStep
    <2>2. Shaped(r) /\ r.pc # "save"
        BY <1>0
    <2>3. /\ UNCHANGED strategy
          /\ credentials \cup removed \subseteq credentials' \cup removed'
        BY <1>5 DEF StoreKey
    <2> HIDE DEF r
    <2> QED BY <2>1, <2>2, <2>3, EditMoves
<1>6. ASSUME seedModelStrategyPoolsForProvider(e) PROVE PoolsInv'
    <2> DEFINE refs == SetToSeq({m \in Models : ProviderOf[m] = edit[e].provider})
               n == appendModelRefsToAllPools(migrateModelStrategyFromLegacy(strategy), refs)
               r == [edit[e] EXCEPT !.pc = IF refs = <<>> THEN "done" ELSE "saveSeed", !.next = n]
    <2>1. edit' = [edit EXCEPT ![e] = r]
        BY <1>6 DEF seedModelStrategyPoolsForProvider
    <2>2. UNCHANGED <<strategy, credentials, removed>>
        BY <1>6 DEF seedModelStrategyPoolsForProvider
    <2> HIDE DEF refs, n
    <2>3. Shaped(r) /\ r.pc # "save"
        BY <1>0
    <2> HIDE DEF r
    <2> QED BY <2>1, <2>2, <2>3, EditMoves
<1>7. ASSUME SaveSeed(e) PROVE PoolsInv'
    <2>1. CASE validateModelStrategyForUser(edit[e].next, credentials)
        <3>1. /\ strategy' = edit[e].next
              /\ EditStep(e, "done")
              /\ UNCHANGED <<credentials, removed>>
            BY <1>7, <2>1 DEF SaveSeed, persistModelStrategy
        <3>2. Covered(edit[e].next)
            BY <2>1, ValidIsCovered
        <3> QED BY <3>1, <3>2, EditStores
    <2>2. CASE ~validateModelStrategyForUser(edit[e].next, credentials)
        <3> DEFINE r == [edit[e] EXCEPT !.pc = "failed"]
        <3>1. edit' = [edit EXCEPT ![e] = r]
            BY <1>7, <2>2 DEF SaveSeed, EditStep
        <3>2. Shaped(r) /\ r.pc # "save"
            BY <1>0
        <3>3. UNCHANGED <<strategy, credentials, removed>>
            BY <1>7, <2>2 DEF SaveSeed
        <3> HIDE DEF r
        <3> QED BY <3>1, <3>2, <3>3, EditMoves
    <2> QED BY <2>1, <2>2
<1>8. ASSUME SaveStrategy(e) PROVE PoolsInv'
    <2>1. /\ edit[e].pc = "save"
          /\ strategy' = edit[e].next
          /\ EditStep(e, "done")
          /\ UNCHANGED <<credentials, removed>>
        BY <1>8 DEF SaveStrategy, persistModelStrategy
    <2>2. edit[e].next # None => Covered(edit[e].next)
        BY <2>1 DEF PoolsInv, EditsCovered
    <2> QED BY <2>1, <2>2, EditStores
<1> QED BY <1>1, <1>2, <1>3, <1>4, <1>5, <1>6, <1>7, <1>8

\* Of the steps of a call only the first read stores a strategy, the default.
LEMMA CallStepKeepsPools ==
    ASSUME PoolsInv, NEW c \in Calls,
           (\E task \in Tasks : Start(c, task)) \/ Proxy(c) \/ Upstream(c)
    PROVE  PoolsInv'
<1>1. CASE StoreDefault(c)
    <2>1. strategy' = DefaultStrategy /\ UNCHANGED <<edit, credentials, removed>>
        BY <1>1 DEF StoreDefault, persistModelStrategy
    <2>2. PoolsConfigured'
        BY <2>1, DefaultNamesNone DEF PoolsConfigured
    <2>3. EditShape' /\ EditsCovered'
        BY <2>1 DEF PoolsInv, EditShape, EditsCovered, Covered
    <2> QED BY <2>2, <2>3 DEF PoolsInv
<1>2. CASE ~StoreDefault(c)
    <2>1. UNCHANGED <<strategy, edit, credentials, removed>>
        BY <1>2 DEF Proxy, Upstream, Start, resolveCandidates, filterConfiguredCandidates,
                    Try, Forward, Deliver, Hold, settings
    <2> QED BY <2>1, SettingsKept
<1> QED BY <1>1, <1>2

\* So does every other step, which leaves strategy, requests and keys alone.
LEMMA NextPools == PoolsInv /\ [Next]_vars => PoolsInv'
<1> SUFFICES ASSUME PoolsInv, [Next]_vars PROVE PoolsInv'
    OBVIOUS
<1>1. CASE UNCHANGED vars
    <2>1. UNCHANGED <<strategy, edit, credentials, removed>>
        BY <1>1 DEF vars
    <2> QED BY <2>1, SettingsKept
<1>2. ASSUME NEW s \in Tiers \cup Models, updateModelSelection(s) PROVE PoolsInv'
    <2>1. UNCHANGED <<strategy, edit, credentials, removed>>
        BY <1>2 DEF updateModelSelection, settings
    <2> QED BY <2>1, SettingsKept
<1> QED BY <1>1, <1>2, SettingsStepKeepsPools, CallStepKeepsPools DEF Next

\* For a user who starts without a key, and in every order in which the
\* server handles settings requests and LLM requests at their awaits, the
\* stored strategy names models of configured providers only, except those
\* of a key that the user has deleted.
THEOREM PoolsStayConfigured ==
    ASSUME Fresh
    PROVE  Spec => []PoolsConfigured
<1>1. Init => PoolsInv
    BY InitPools
<1>2. PoolsInv /\ [Next]_vars => PoolsInv'
    BY NextPools
<1>3. PoolsInv => PoolsConfigured
    BY DEF PoolsInv
<1> QED BY <1>1, <1>2, <1>3, PTL DEF Spec
-----------------------------------------------------------------------------
(* The sticky model.                                                       *)

CallFields == {"pc", "task", "selection", "preferred", "candidates", "index", "attempted",
               "provider", "last", "answer", "usedFallback"}
Shaped(r) == DOMAIN r = CallFields /\ r.last \in {"none", "error", "response"}

\* An undelivered success of a chat request names a model that answered.
Justified(r) ==
    r.pc = "answered" /\ r.task = "chat" /\ r.answer = "ok" => r.candidates[r.index] \in writers

CallsJustified == DOMAIN call = Calls /\ \A c \in Calls : Shaped(call[c]) /\ Justified(call[c])

StickyInv == CallsJustified /\ StickyAnsweredChat

\* A call moves on, and the sticky model is kept or one that has answered.
LEMMA CallMoves ==
    ASSUME StickyInv, NEW c \in Calls, NEW r, call' = [call EXCEPT ![c] = r], Shaped(r),
           r.pc = "answered" /\ r.task = "chat" /\ r.answer = "ok"
               => r.candidates[r.index] \in writers',
           writers \subseteq writers',
           sticky' = sticky \/ sticky' \in writers
    PROVE  StickyInv'
<1>1. CallsJustified'
    <2>1. DOMAIN call' = Calls
        BY DEF StickyInv, CallsJustified
    <2>2. ASSUME NEW d \in Calls PROVE Shaped(call'[d]) /\ Justified(call[d])'
        <3>1. CASE d = c
            <4>1. call'[d] = r
                BY <3>1 DEF StickyInv, CallsJustified
            <4> QED BY <4>1 DEF Justified
        <3>2. CASE d # c
            <4>1. call'[d] = call[d]
                BY <3>2 DEF StickyInv, CallsJustified
            <4> QED BY <4>1 DEF Justified, StickyInv, CallsJustified
        <3> QED BY <3>1, <3>2
    <2> QED BY <2>1, <2>2 DEF CallsJustified, Shaped
<1>2. StickyAnsweredChat'
    BY DEF StickyInv, StickyAnsweredChat
<1> QED BY <1>1, <1>2 DEF StickyInv

\* The loop's next candidate or its end is no success.
LEMMA AdvanceFails ==
    ASSUME NEW r, Shaped(r)
    PROVE  Shaped(Advance(r)) /\ ~(Advance(r).pc = "answered" /\ Advance(r).answer = "ok")
<1>1. CASE r.index < Len(r.candidates)
    <2>1. Advance(r) = [r EXCEPT !.pc = "try", !.index = @ + 1]
        BY <1>1 DEF Advance
    <2> QED BY <2>1 DEF Shaped, CallFields
<1>2. CASE ~(r.index < Len(r.candidates))
    <2>1. Advance(r) = [r EXCEPT !.pc = "answered", !.answer = Failure(r.last)]
        BY <1>2 DEF Advance
    <2>2. Failure(r.last) # "ok"
        BY DEF Failure, Shaped
    <2> QED BY <2>1, <2>2 DEF Shaped, CallFields
<1> QED BY <1>1, <1>2

\* An outcome of the upstream: only a success is answered with the model that was tried.
LEMMA ForwardKeepsSticky ==
    ASSUME StickyInv, NEW c \in Calls, NEW outcome \in Outcomes, Forward(c, outcome)
    PROVE  StickyInv'
<1> DEFINE r == call[c]
           failed == [r EXCEPT !.last = IF outcome \in {"throwsRetryable", "throwsFatal"}
                                        THEN "error" ELSE "response"]
           ended == [failed EXCEPT !.pc = "answered", !.answer = Failure(failed.last)]
           ok == [r EXCEPT !.pc = "answered", !.answer = "ok", !.usedFallback = r.index > 1]
<1>1. Shaped(r)
    BY DEF StickyInv, CallsJustified
<1>2. Shaped(failed) /\ failed.last # "none"
    BY <1>1 DEF Shaped, CallFields
<1>3. Shaped(ended) /\ ended.answer # "ok"
    <2>1. failed.last \in {"error", "response"}
        BY <1>2 DEF Shaped
    <2>2. Failure(failed.last) # "ok"
        BY <2>1 DEF Failure
    <2>3. DOMAIN failed = CallFields
        BY <1>2 DEF Shaped
    <2> HIDE DEF failed
    <2> QED BY <2>1, <2>2, <2>3 DEF Shaped, CallFields
<1>4. Shaped(ok) /\ ok.candidates = r.candidates /\ ok.index = r.index /\ ok.task = r.task
    BY <1>1 DEF Shaped, CallFields
<1>5. writers \subseteq writers' /\ sticky' = sticky
    BY DEF Forward, Hold, session
<1>6. CASE outcome = "ok"
    <2>1. call' = [call EXCEPT ![c] = ok]
        BY <1>6 DEF Forward
    <2>2. r.task = "chat" => r.candidates[r.index] \in writers'
        BY <1>6 DEF Forward
    <2> HIDE DEF ok, r
    <2>3. ok.task = "chat" => ok.candidates[ok.index] \in writers'
        BY <1>4, <2>2
    <2> QED BY <1>4, <1>5, <2>1, <2>3, CallMoves
<1>7. CASE outcome # "ok"
    <2>1. \/ call' = [call EXCEPT ![c] = Advance(failed)]
          \/ call' = [call EXCEPT ![c] = ended]
        BY <1>7 DEF Forward
    <2>2. Shaped(Advance(failed)) /\ ~(Advance(failed).pc = "answered" /\ Advance(failed).answer = "ok")
        <3> HIDE DEF failed
        <3> QED BY <1>2, AdvanceFails
    <2> HIDE DEF failed, ended
    <2>3. CASE call' = [call EXCEPT ![c] = Advance(failed)]
        BY <1>5, <2>2, <2>3, CallMoves
    <2>4. CASE call' = [call EXCEPT ![c] = ended]
        BY <1>3, <1>5, <2>4, CallMoves
    <2> QED BY <2>1, <2>3, <2>4
<1> QED BY <1>6, <1>7

\* The step that delivers an answer makes the sticky model the one that
\* the answer names.
LEMMA DeliverKeepsSticky ==
    ASSUME StickyInv, NEW c \in Calls, Deliver(c)
    PROVE  StickyInv'
<1> DEFINE r == Delivered(call[c])
<1>1. call' = [call EXCEPT ![c] = r]
    BY DEF Deliver
<1>2. Shaped(r) /\ r.pc = "done"
    BY DEF Delivered, CallIdle, Shaped, CallFields
<1>3. writers' = writers
    BY DEF Deliver
<1>4. sticky' = sticky \/ sticky' \in writers
    BY DEF Deliver, StickyInv, CallsJustified, Justified
<1> HIDE DEF r
<1> QED BY <1>1, <1>2, <1>3, <1>4, CallMoves

\* Every step of an LLM request before its answer is delivered.
LEMMA CallStepKeepsSticky ==
    ASSUME StickyInv, NEW c \in Calls,
           (\E task \in Tasks : Start(c, task)) \/ Proxy(c) \/ Upstream(c)
    PROVE  StickyInv'
<1>0. Shaped(call[c])
    BY DEF StickyInv, CallsJustified
<1>1. ASSUME NEW task \in Tasks, Start(c, task) PROVE StickyInv'
    <2>1. PICK h \in Headers(c, task) :
            call' = [call EXCEPT ![c] = [@ EXCEPT !.pc = "resolve", !.task = task,
                                         !.selection = h.selection, !.preferred = h.preferred]]
        BY <1>1 DEF Start
    <2> DEFINE r == [call[c] EXCEPT !.pc = "resolve", !.task = task,
                                    !.selection = h.selection, !.preferred = h.preferred]
    <2>2. call' = [call EXCEPT ![c] = r]
        BY <2>1
    <2>3. Shaped(r) /\ r.pc = "resolve"
        BY <1>0 DEF Shaped, CallFields
    <2>4. UNCHANGED <<sticky, writers>>
        BY <1>1 DEF Start, session
    <2> HIDE DEF r
    <2> QED BY <2>2, <2>3, <2>4, CallMoves
<1>2. ASSUME StoreDefault(c) PROVE StickyInv'
    <2> DEFINE chosen == resolveTaskModelCandidates(call[c].task, DefaultStrategy, call[c].selection)
               r == [call[c] EXCEPT !.pc = "filter", !.candidates = chosen]
    <2>1. call' = [call EXCEPT ![c] = r]
        BY <1>2 DEF StoreDefault
    <2> HIDE DEF chosen
    <2>2. Shaped(r) /\ r.pc = "filter"
        BY <1>0 DEF Shaped, CallFields
    <2>3. UNCHANGED <<sticky, writers>>
        BY <1>2 DEF StoreDefault, session
    <2> HIDE DEF r
    <2> QED BY <2>1, <2>2, <2>3, CallMoves
<1>3. ASSUME resolveCandidates(c) PROVE StickyInv'
    <2> DEFINE chosen == resolveTaskModelCandidates(call[c].task, strategy, call[c].selection)
               r == IF strategy = None THEN [call[c] EXCEPT !.pc = "storeDefault"]
                    ELSE [call[c] EXCEPT !.pc = "filter", !.candidates = chosen]
    <2>1. call' = [call EXCEPT ![c] = r]
        BY <1>3 DEF resolveCandidates
    <2> HIDE DEF chosen
    <2>2. Shaped(r) /\ r.pc # "answered"
        BY <1>0 DEF Shaped, CallFields
    <2>3. UNCHANGED <<sticky, writers>>
        BY <1>3 DEF resolveCandidates, Hold, session
    <2> HIDE DEF r
    <2> QED BY <2>1, <2>2, <2>3, CallMoves
<1>4. ASSUME filterConfiguredCandidates(c) PROVE StickyInv'
    <2> DEFINE kept == filter(call[c].candidates, {m \in Models : ProviderOf[m] \in credentials})
               chosen == reorderCandidatesWithPreference(kept, call[c].preferred)
               r == IF kept = <<>>
                    THEN [call[c] EXCEPT !.pc = "answered", !.candidates = <<>>, !.answer = "pool_empty"]
                    ELSE [call[c] EXCEPT !.pc = "try", !.index = 1, !.candidates = chosen]
    <2>1. call' = [call EXCEPT ![c] = r]
        BY <1>4 DEF filterConfiguredCandidates
    <2> HIDE DEF kept, chosen
    <2>2. Shaped(r) /\ ~(r.pc = "answered" /\ r.answer = "ok")
        BY <1>0 DEF Shaped, CallFields
    <2>3. UNCHANGED <<sticky, writers>>
        BY <1>4 DEF filterConfiguredCandidates, Hold, session
    <2> HIDE DEF r
    <2> QED BY <2>1, <2>2, <2>3, CallMoves
<1>5. ASSUME Try(c) PROVE StickyInv'
    <2> DEFINE m == call[c].candidates[call[c].index]
               t == [call[c] EXCEPT !.attempted = Append(@, m), !.provider = resolve(ProviderOf[m])]
               r == IF t.provider = None THEN Advance(t) ELSE [t EXCEPT !.pc = "forward"]
    <2>1. call' = [call EXCEPT ![c] = r]
        BY <1>5 DEF Try
    <2>2. Shaped(t)
        BY <1>0 DEF Shaped, CallFields
    <2> HIDE DEF t
    <2>3. Shaped(r) /\ ~(r.pc = "answered" /\ r.answer = "ok")
        BY <2>2, AdvanceFails DEF Shaped, CallFields
    <2>4. UNCHANGED <<sticky, writers>>
        BY <1>5 DEF Try, Hold, session
    <2> HIDE DEF r
    <2> QED BY <2>1, <2>3, <2>4, CallMoves
<1> QED BY <1>1, <1>2, <1>3, <1>4, <1>5, DeliverKeepsSticky, ForwardKeepsSticky DEF Proxy, Upstream

\* No request has been made and no model is preferred.
LEMMA InitSticky == Init => StickyInv
<1> SUFFICES ASSUME Init PROVE StickyInv
    OBVIOUS
<1>1. Shaped(CallIdle) /\ CallIdle.pc = "idle"
    BY DEF CallIdle, Shaped, CallFields
<1>2. call = [c \in Calls |-> CallIdle] /\ sticky = None
    BY DEF Init
<1> QED BY <1>1, <1>2 DEF StickyInv, CallsJustified, Justified, StickyAnsweredChat

\* Every step of the proxy keeps the justification of what will become sticky.
LEMMA NextSticky == StickyInv /\ [Next]_vars => StickyInv'
<1> SUFFICES ASSUME StickyInv, [Next]_vars PROVE StickyInv'
    OBVIOUS
<1>1. ASSUME UNCHANGED <<call, writers>>, sticky' = sticky \/ sticky' = None PROVE StickyInv'
    BY <1>1 DEF StickyInv, CallsJustified, Justified, StickyAnsweredChat
<1>2. CASE UNCHANGED vars
    BY <1>1, <1>2 DEF vars
<1>3. ASSUME NEW e \in Edits,
             \/ \E p \in Providers : saveProviderApiKey(e, p) \/ deleteProviderApiKey(e, p)
             \/ \E s \in Strategies : updateModelStrategy(e, s)
             \/ getModelStrategy(e)
             \/ StoreKey(e) \/ seedModelStrategyPoolsForProvider(e) \/ SaveSeed(e) \/ SaveStrategy(e)
      PROVE  StickyInv'
    <2>1. UNCHANGED <<call, writers, sticky>>
        BY <1>3 DEF saveProviderApiKey, deleteProviderApiKey, updateModelStrategy,
              getModelStrategy,
                    StoreKey, seedModelStrategyPoolsForProvider, SaveSeed, SaveStrategy, session
    <2> QED BY <1>1, <2>1
<1>4. ASSUME NEW s \in Tiers \cup Models, updateModelSelection(s) PROVE StickyInv'
    BY <1>1, <1>4 DEF updateModelSelection
<1> QED BY <1>2, <1>3, <1>4, CallStepKeepsSticky DEF Next

\* The model that a session prefers for its next request is, at any time,
\* one that has answered a chat request of this session: neither a model
\* that only wrote a title nor one that failed and was replaced.
THEOREM StickyHasAnswered == Spec => []StickyAnsweredChat
<1>1. StickyInv => StickyAnsweredChat
    BY DEF StickyInv
<1> QED BY InitSticky, NextSticky, <1>1, PTL DEF Spec
-----------------------------------------------------------------------------
(* Attempts and answers.  The pools and the candidates are computed by     *)
(* recursion along a sequence, so that what they hold needs an induction:  *)
(* it rests on the well-foundedness of the natural numbers.                *)

\* A non-empty set of natural numbers has a least element.
LEMMA LeastOf ==
    ASSUME NEW R, IsWellFoundedOn(R, Nat), \A x, y \in Nat : x < y => <<x, y>> \in R,
           NEW S, S \subseteq Nat, S # {}
    PROVE  \E x \in S : \A y \in S : x <= y
<1>1. IsWellFoundedOn(R, Nat) =>
          (S \subseteq Nat => (S # {} => \E x \in S : \A y \in S : ~(<<y, x>> \in R)))
    BY ONLY WFMin, ZenonT(30)
<1>2. PICK x \in S : \A y \in S : ~(<<y, x>> \in R)
    BY <1>1
<1>3. ASSUME NEW y \in S PROVE x <= y
    <2>1. x \in Nat /\ y \in Nat /\ ~(y < x)
        BY <1>2
    <2> QED BY <2>1
<1> QED BY <1>3

\* The same of the order <.
LEMMA LeastNat ==
    ASSUME NEW S, S \subseteq Nat, S # {}
    PROVE  \E x \in S : \A y \in S : x <= y
<1>1. IsWellFoundedOn(OpToRel(<, Nat), Nat)
    BY NatLessThanWellFounded
<1>2. \A x, y \in Nat : x < y => <<x, y>> \in OpToRel(<, Nat)
    BY DEF OpToRel
<1> QED BY <1>1, <1>2, LeastOf, Zenon

\* Induction up to n, for a set of numbers.
LEMMA UpTo ==
    ASSUME NEW n \in Nat, NEW S, 0 \in S, \A i \in 1..n : i - 1 \in S => i \in S
    PROVE  0..n \subseteq S
<1> DEFINE Rest == {i \in 0..n : i \notin S}
<1> SUFFICES ASSUME Rest # {} PROVE FALSE
    OBVIOUS
<1>1. Rest \subseteq Nat
    OBVIOUS
<1>2. PICK x \in Rest : \A y \in Rest : x <= y
    <2> HIDE DEF Rest
    <2> QED BY <1>1, LeastNat
<1>3. x \in 1..n /\ x \notin S
    BY <1>2
<1>4. x - 1 \in 0..n /\ ~(x <= x - 1)
    BY <1>3
<1>5. x - 1 \in S
    BY <1>2, <1>4
<1> QED BY <1>3, <1>5

\* f[0] is the base, and every other value is a step from the one before.
Recurs(f, n, base, step) == f[0] = base /\ \A i \in 1..n : f[i] = step[<<f[i - 1], i>>]

\* Such a function exists on 0..n; the sequences below are its last values.
LEMMA Recursion ==
    ASSUME NEW n \in Nat, NEW V, NEW base \in V, NEW step \in [V \X (1..n) -> V]
    PROVE  \E f \in [0..n -> V] : Recurs(f, n, base, step)
<1> DEFINE Good(k) == \E f \in [0..k -> V] : Recurs(f, k, base, step)
           S == {k \in 0..n : Good(k)}
<1>1. 0 \in S
    <2> DEFINE f == [i \in 0..0 |-> base]
    <2>1. f \in [0..0 -> V] /\ f[0] = base
        OBVIOUS
    <2>2. \A i \in 1..0 : f[i] = step[<<f[i - 1], i>>]
        OBVIOUS
    <2> HIDE DEF f
    <2>3. Good(0)
        BY <2>1, <2>2 DEF Recurs
    <2> QED BY <2>3
<1>2. ASSUME NEW k \in 1..n, k - 1 \in S PROVE k \in S
    <2>1. PICK f \in [0..(k - 1) -> V] :
            f[0] = base /\ \A i \in 1..(k - 1) : f[i] = step[<<f[i - 1], i>>]
        BY <1>2 DEF Recurs
    <2>2. f[k - 1] \in V /\ <<f[k - 1], k>> \in V \X (1..n)
        BY <2>1
    <2>3. step[<<f[k - 1], k>>] \in V
        BY <2>2
    <2> DEFINE g == [i \in 0..k |-> IF i < k THEN f[i] ELSE step[<<f[k - 1], k>>]]
    <2>4. g \in [0..k -> V]
        BY <2>1, <2>3
    <2>5. g[0] = base
        BY <2>1
    <2>6. ASSUME NEW i \in 1..k PROVE g[i] = step[<<g[i - 1], i>>]
        <3>1. CASE i < k
            <4>1. i \in 1..(k - 1) /\ g[i] = f[i] /\ g[i - 1] = f[i - 1]
                BY <3>1
            <4> QED BY <2>1, <4>1
        <3>2. CASE i = k
            <4>1. g[i] = step[<<f[k - 1], k>>] /\ g[i - 1] = f[k - 1]
                BY <3>2
            <4> QED BY <3>2, <4>1
        <3> QED BY <3>1, <3>2
    <2> HIDE DEF g
    <2> QED BY <2>4, <2>5, <2>6 DEF Recurs
<1>3. 0..n \subseteq S
    <2> HIDE DEF S
    <2> QED BY <1>1, <1>2, UpTo
<1> QED BY <1>3
-----------------------------------------------------------------------------
Distinct == {s \in Seq(Models) : IsInjective(s)}

\* A sequence without the model, and the model.
LEMMA AppendDistinct ==
    ASSUME NEW s \in Distinct, NEW m \in Models, \A i \in 1..Len(s) : s[i] # m
    PROVE  Append(s, m) \in Distinct
<1>1. Append(s, m) \in Seq(Models)
    BY DEF Distinct
<1>2. ASSUME NEW i \in DOMAIN Append(s, m), NEW j \in DOMAIN Append(s, m), Append(s, m)[i] = Append(s, m)[j]
      PROVE  i = j
    BY <1>2 DEF Distinct, IsInjective
<1> QED BY <1>1, <1>2 DEF Distinct, IsInjective

\* Appending references keeps the models of a pool distinct.
LEMMA AppendUnique ==
    ASSUME NEW pool \in Distinct, NEW refs \in Seq(Models)
    PROVE  appendUniquePoolRefs(pool, refs) \in Distinct
<1> DEFINE N == Len(refs)
           add(s, i) == IF Contains(s, refs[i]) THEN s ELSE Append(s, refs[i])
           IsRun(f) == f = [n \in 0..N |-> IF n = 0 THEN pool
                              ELSE IF Contains(f[n - 1], refs[n]) THEN f[n - 1]
                              ELSE Append(f[n - 1], refs[n])]
           run == CHOOSE f : IsRun(f)
<1>0. N \in Nat
    OBVIOUS
<1>1. appendUniquePoolRefs(pool, refs) = run[N]
    BY DEF appendUniquePoolRefs
<1>2. \A s \in Distinct, i \in 1..N : add(s, i) \in Distinct
    BY AppendDistinct DEF Contains
<1>3. \E f : IsRun(f)
    <2> DEFINE step == [x \in Distinct \X (1..N) |-> add(x[1], x[2])]
    <2>0. pool \in Distinct
        OBVIOUS
    <2>1. step \in [Distinct \X (1..N) -> Distinct]
        BY <1>2
    <2> HIDE DEF step, N
    <2>2. PICK f \in [0..N -> Distinct] : Recurs(f, N, pool, step)
        BY <1>0, <2>0, <2>1, Recursion
    <2>3. ASSUME NEW i \in 1..N PROVE f[i] = add(f[i - 1], i)
        <3>1. f[i - 1] \in Distinct
            BY <1>0, <2>2
        <3>2. <<f[i - 1], i>> \in Distinct \X (1..N)
            BY <3>1
        <3> QED BY <2>2, <3>2 DEF Recurs, step
    <2>4. \A n \in 0..N : f[n] = IF n = 0 THEN pool ELSE add(f[n - 1], n)
        <3> HIDE DEF add
        <3> QED BY <1>0, <2>2, <2>3 DEF Recurs
    <2>5. f = [n \in 0..N |-> f[n]]
        BY <2>2
    <2>6. IsRun(f)
        BY <2>4, <2>5
    <2> QED BY <2>6
<1>4. IsRun(run)
    BY <1>3
<1> HIDE DEF run
<1>5. run[0] = pool /\ \A i \in 1..N : run[i] = add(run[i - 1], i)
    <2>1. 0 \in 0..N
        BY <1>0
    <2>2. run[0] = pool
        BY <1>4, <2>1
    <2>3. ASSUME NEW i \in 1..N PROVE run[i] = add(run[i - 1], i)
        <3>1. i \in 0..N /\ i # 0
            BY <1>0
        <3> QED BY <1>4, <3>1
    <2> QED BY <2>2, <2>3
<1> DEFINE S == {i \in 0..N : run[i] \in Distinct}
<1>6. 0 \in S
    BY <1>5
<1>7. \A i \in 1..N : i - 1 \in S => i \in S
    BY <1>2, <1>5
<1>8. 0..N \subseteq S
    <2> HIDE DEF S, N
    <2> QED BY <1>0, <1>6, <1>7, UpTo
<1> QED BY <1>0, <1>1, <1>8

\* What filter keeps: members of S, each once if the references were distinct.
LEMMA FilterKeeps ==
    ASSUME NEW refs \in Distinct, NEW S
    PROVE  /\ filter(refs, S) \in Distinct
           /\ \A i \in 1..Len(filter(refs, S)) :
                  filter(refs, S)[i] \in S /\ \E j \in 1..Len(refs) : filter(refs, S)[i] = refs[j]
<1> DEFINE N == Len(refs)
           add(s, i) == IF refs[i] \in S THEN Append(s, refs[i]) ELSE s
           IsRun(f) == f = [n \in 0..N |-> IF n = 0 THEN <<>>
                              ELSE IF refs[n] \in S THEN Append(f[n - 1], refs[n]) ELSE f[n - 1]]
           run == CHOOSE f : IsRun(f)
<1>0. N \in Nat /\ \A i \in 1..N : refs[i] \in Models
    BY DEF Distinct
<1>1. filter(refs, S) = run[N]
    BY DEF filter
<1>2. \A s \in Seq(Models), i \in 1..N : add(s, i) \in Seq(Models)
    BY <1>0
<1>3. \E f : IsRun(f)
    <2> DEFINE step == [x \in Seq(Models) \X (1..N) |-> add(x[1], x[2])]
    <2>0. <<>> \in Seq(Models)
        OBVIOUS
    <2>1. step \in [Seq(Models) \X (1..N) -> Seq(Models)]
        BY <1>2
    <2> HIDE DEF step, N
    <2>2. PICK f \in [0..N -> Seq(Models)] : Recurs(f, N, <<>>, step)
        BY <1>0, <2>0, <2>1, Recursion
    <2>3. ASSUME NEW i \in 1..N PROVE f[i] = add(f[i - 1], i)
        <3>1. f[i - 1] \in Seq(Models)
            BY <1>0, <2>2
        <3>2. <<f[i - 1], i>> \in Seq(Models) \X (1..N)
            BY <3>1
        <3> QED BY <2>2, <3>2 DEF Recurs, step
    <2>4. \A n \in 0..N : f[n] = IF n = 0 THEN <<>> ELSE add(f[n - 1], n)
        <3> HIDE DEF add
        <3> QED BY <1>0, <2>2, <2>3 DEF Recurs
    <2>5. f = [n \in 0..N |-> f[n]]
        BY <2>2
    <2>6. IsRun(f)
        BY <2>4, <2>5
    <2> QED BY <2>6
<1>4. IsRun(run)
    BY <1>3
<1> HIDE DEF run
<1>5. run[0] = <<>> /\ \A i \in 1..N : run[i] = add(run[i - 1], i)
    <2>1. 0 \in 0..N
        BY <1>0
    <2>2. run[0] = <<>>
        BY <1>4, <2>1
    <2>3. ASSUME NEW i \in 1..N PROVE run[i] = add(run[i - 1], i)
        <3>1. i \in 0..N /\ i # 0
            BY <1>0
        <3> QED BY <1>4, <3>1
    <2> QED BY <2>2, <2>3
<1> DEFINE Kept(s, n) ==
               /\ s \in Distinct
               /\ \A i \in 1..Len(s) : s[i] \in S /\ \E j \in 1..n : s[i] = refs[j]
           T == {n \in 0..N : Kept(run[n], n)}
<1>6. 0 \in T
    <2>1. <<>> \in Distinct /\ Len(<<>>) = 0
        BY DEF Distinct, IsInjective
    <2> QED BY <1>5, <2>1
<1>7. ASSUME NEW n \in 1..N, n - 1 \in T PROVE n \in T
    <2> DEFINE s == run[n - 1]
               m == refs[n]
    <2>1. Kept(s, n - 1) /\ run[n] = add(s, n)
        BY <1>5, <1>7
    <2> HIDE DEF s
    <2>2. CASE m \notin S
        <3>1. Kept(s, n)
            BY <2>1
        <3> QED BY <2>1, <2>2, <3>1
    <2>3. CASE m \in S
        <3>1. s \in Seq(Models) /\ m \in Models
            BY <1>0, <2>1 DEF Distinct
        <3>2. \A i \in 1..Len(s) : s[i] # m
            BY <2>1 DEF Distinct, IsInjective
        <3>3. Append(s, m) \in Distinct
            BY <2>1, <3>1, <3>2, AppendDistinct
        <3>4. \A i \in 1..Len(Append(s, m)) : 
                Append(s, m)[i] \in S /\ \E j \in 1..n : Append(s, m)[i] = refs[j]
            BY <2>1, <2>3, <3>1
        <3>5. run[n] = Append(s, m)
            BY <2>1, <2>3
        <3>6. Kept(run[n], n)
            BY <3>3, <3>4, <3>5
        <3> QED BY <3>6
    <2> QED BY <2>2, <2>3
<1>8. 0..N \subseteq T
    <2> HIDE DEF T, N
    <2> QED BY <1>0, <1>6, <1>7, UpTo
<1>9. Kept(run[N], N)
    BY <1>0, <1>8
<1> QED BY <1>1, <1>9
-----------------------------------------------------------------------------
\* Strategies in whose pools no model stands twice.
Stored == {s \in StrategySet : \A t \in Tiers : s.pools[t] \in Distinct}

\* The strategy nobody has changed yet.
LEMMA DefaultStored == DefaultStrategy \in Stored
<1>1. <<>> \in Distinct
    BY DEF Distinct, IsInjective
<1>2. DefaultStrategy \in StrategySet
    BY ProxyAssumption DEF DefaultStrategy, StrategySet, Selections
<1>3. \A t \in Tiers : DefaultStrategy.pools[t] = <<>>
    BY DEF DefaultStrategy
<1> QED BY <1>1, <1>2, <1>3 DEF Stored

\* A strategy from the settings page, normalised.
LEMMA NormalizeStored ==
    ASSUME NEW s \in StrategySet
    PROVE  normalizeUpdateModelStrategy(s) \in Stored
<1> DEFINE n == normalizeUpdateModelStrategy(s)
<1>1. <<>> \in Distinct
    BY DEF Distinct, IsInjective
<1>2. \A t \in Tiers : dedupeModelPoolRefs(s.pools[t]) \in Distinct
    BY <1>1, AppendUnique DEF dedupeModelPoolRefs, StrategySet
<1>3. n.pools = [t \in Tiers |-> dedupeModelPoolRefs(s.pools[t])]
    BY DEF normalizeUpdateModelStrategy, StrategySet
<1>4. n.pools \in [Tiers -> Seq(Models)]
    BY <1>2, <1>3 DEF Distinct
<1>5. n \in StrategySet
    BY <1>4, <1>3 DEF StrategySet, normalizeUpdateModelStrategy
<1> QED BY <1>2, <1>3, <1>5 DEF Stored

\* A strategy with the models of a new provider in its pools.
LEMMA SeedStored ==
    ASSUME NEW s \in Stored, NEW refs \in Seq(Models)
    PROVE  appendModelRefsToAllPools(s, refs) \in Stored
<1> DEFINE n == appendModelRefsToAllPools(s, refs)
<1>1. \A t \in Tiers : appendUniquePoolRefs(s.pools[t], refs) \in Distinct
    BY AppendUnique DEF Stored
<1>2. n.pools = [t \in Tiers |-> appendUniquePoolRefs(s.pools[t], refs)]
    BY DEF appendModelRefsToAllPools, Stored, StrategySet
<1>3. n.pools \in [Tiers -> Seq(Models)]
    BY <1>1, <1>2 DEF Distinct
<1>4. n \in StrategySet
    BY <1>2, <1>3 DEF StrategySet, Stored, appendModelRefsToAllPools
<1> QED BY <1>1, <1>2, <1>4 DEF Stored

\* The models of some providers, in a sequence.
LEMMA ModelsInSequence ==
    ASSUME NEW S \in SUBSET Models
    PROVE  SetToSeq(S) \in Seq(Models)
<1>1. IsFiniteSet(S)
    BY ProxyAssumption, FS_Subset
<1>2. Cardinality(S) \in Nat /\ ExistsBijection(1..Cardinality(S), S)
    BY <1>1, FS_CardinalityType
<1>3. \E f \in [1..Cardinality(S) -> S] : IsInjective(f)
    BY <1>2 DEF ExistsBijection, Bijection, Injection
<1>4. SetToSeq(S) \in [1..Cardinality(S) -> S]
    BY <1>3 DEF SetToSeq
<1> QED BY <1>2, <1>4

\* The provider of the first model of the chat's pool.
LEMMA LegacyDefault ==
    ASSUME NEW s \in Stored
    PROVE  deriveLegacyDefaultFromStrategy(s) \in Providers \cup {None}
<1> DEFINE refs == expandModelSelection(s.chat, s.pools)
<1>1. refs \in Seq(Models)
    BY DEF expandModelSelection, Stored, StrategySet, Selections
<1>2. refs # <<>> => Head(refs) \in Models
    BY <1>1
<1> HIDE DEF refs
<1>3. deriveLegacyDefaultFromStrategy(s) = IF refs = <<>> THEN None ELSE ProviderOf[Head(refs)]
    BY DEF deriveLegacyDefaultFromStrategy, refs
<1> QED BY <1>2, <1>3, ProxyAssumption

\* Candidates of a task: each model once.
LEMMA CandidatesDistinct ==
    ASSUME NEW s \in Stored, NEW task \in Tasks, NEW header \in Selections \cup {None}
    PROVE  resolveTaskModelCandidates(task, s, header) \in Distinct
<1>1. \A x \in Selections : expandModelSelection(x, s.pools) \in Distinct
    BY DEF expandModelSelection, Stored, Selections, Distinct, IsInjective
<1>2. s.chat \in Selections /\ s.titleGeneration \in Selections \cup {FollowChat}
    BY DEF Stored, StrategySet
<1> QED BY <1>1, <1>2 DEF resolveTaskModelCandidates

\* The preferred model goes to the front: no candidate is lost or doubled.
LEMMA ReorderDistinct ==
    ASSUME NEW cands \in Distinct, NEW preferred \in Models \cup {None}
    PROVE  /\ reorderCandidatesWithPreference(cands, preferred) \in Distinct
           /\ \A i \in 1..Len(reorderCandidatesWithPreference(cands, preferred)) :
                \E j \in 1..Len(cands) : reorderCandidatesWithPreference(cands, preferred)[i] = cands[j]
           /\ cands # <<>> => reorderCandidatesWithPreference(cands, preferred) # <<>>
<1> DEFINE others == Models \ {preferred}
           rest == filter(cands, others)
           all == <<preferred>> \o rest
<1>1. CASE ~Contains(cands, preferred)
    BY <1>1 DEF reorderCandidatesWithPreference
<1>2. CASE Contains(cands, preferred)
    <2>1. reorderCandidatesWithPreference(cands, preferred) = all
        BY <1>2 DEF reorderCandidatesWithPreference
    <2>2. /\ rest \in Distinct
          /\ \A i \in 1..Len(rest) :
                rest[i] \in others /\ \E j \in 1..Len(cands) : rest[i] = cands[j]
        <3> HIDE DEF others
        <3> QED BY FilterKeeps
    <2>3. PICK k \in 1..Len(cands) : cands[k] = preferred
        BY <1>2 DEF Contains
    <2>4. preferred \in Models
        BY <2>3 DEF Distinct
    <2> HIDE DEF rest
    <2>5. rest \in Seq(Models) /\ IsInjective(rest)
        BY <2>2 DEF Distinct
    <2>6. all \in Seq(Models) /\ Len(all) = Len(rest) + 1 /\ all[1] = preferred
        BY <2>4, <2>5
    <2>7. \A i \in 2..Len(all) : all[i] = rest[i - 1] /\ i - 1 \in 1..Len(rest)
        BY <2>4, <2>5, <2>6
    <2> HIDE DEF all
    <2>8. ASSUME NEW i \in 1..Len(all) PROVE \E j \in 1..Len(cands) : all[i] = cands[j]
        <3>1. CASE i = 1
            BY <2>3, <2>6, <3>1
        <3>2. CASE i # 1
            <4>1. i \in 2..Len(all)
                BY <2>5, <2>6, <3>2
            <4> QED BY <2>2, <2>7, <4>1
        <3> QED BY <3>1, <3>2
    <2>9. IsInjective(all)
        <3> SUFFICES ASSUME NEW i \in 1..Len(all), NEW j \in 1..Len(all), i < j, all[i] = all[j]
                     PROVE  FALSE
            BY <2>6 DEF IsInjective
        <3>1. j \in 2..Len(all)
            BY <2>6
        <3>2. all[j] = rest[j - 1] /\ j - 1 \in 1..Len(rest)
            BY <2>7, <3>1
        <3>3. CASE i = 1
            BY <2>2, <2>6, <3>2, <3>3
        <3>4. CASE i # 1
            <4>1. i \in 2..Len(all)
                BY <2>6, <3>4
            <4>2. all[i] = rest[i - 1] /\ i - 1 \in 1..Len(rest)
                BY <2>7, <4>1
            <4>3. rest[i - 1] = rest[j - 1] /\ i - 1 # j - 1
                BY <3>2, <4>2
            <4> QED BY <2>5, <3>2, <4>2, <4>3 DEF IsInjective
        <3> QED BY <3>3, <3>4
    <2>10. all # <<>>
        BY <2>6, <2>5
    <2> QED BY <2>1, <2>6, <2>8, <2>9, <2>10 DEF Distinct
<1> QED BY <1>1, <1>2
-----------------------------------------------------------------------------
TriedSet == [model : Models, provider : Providers, outcome : Outcomes]

\* Settings: what is stored, and what waits to be stored, has each model
\* once in a pool.
EditOK(r) ==
    /\ r.pc \in {"storeKey", "replaceKey", "seed"} => r.provider \in Providers
    /\ r.pc \in {"save", "saveSeed"} => r.next \in Stored

SettingsOK ==
    /\ strategy \in Stored \cup {None}
    /\ credentials \subseteq Providers /\ removed \subseteq Providers
    /\ defaultProvider \in Providers \cup {None}
    /\ edit \in [Edits -> EditSet]
    /\ \A e \in Edits : EditOK(edit[e])

SessionOK ==
    /\ broken \subseteq Providers
    /\ selection \in Selections \cup {None} /\ sticky \in Models \cup {None}
    /\ switches \in 0..MaxSwitches
    /\ writers \subseteq Models

Untried(r, t) ==
    /\ r.attempted = <<>> /\ r.index = 0 /\ r.last = "none"
    /\ r.answer = "none" /\ ~r.usedFallback
    /\ t = <<>>

\* What a loop remembers of a failed forward.
Note(outcome) == IF outcome \in {"throwsRetryable", "throwsFatal"} THEN "error" ELSE "response"

DistinctModels(t) == \A i, j \in 1..Len(t) : i # j => t[i].model # t[j].model

\* All forwards so far failed, in a way that allows the next, with models among the first n.
Failing(r, t, n) ==
    /\ r.answer = "none" /\ ~r.usedFallback
    /\ \A i \in 1..Len(t) :
        /\ isRetryableModelError(t[i].outcome)
        /\ \E k \in 1..n : t[i].model = r.candidates[k]
    /\ DistinctModels(t)
    /\ r.last = IF t = <<>> THEN "none" ELSE Note(t[Len(t)].outcome)

Running(r, keys) ==
    /\ r.candidates \in Distinct
    /\ r.index \in 1..Len(r.candidates)
    /\ \A i \in 1..Len(r.candidates) : ProviderOf[r.candidates[i]] \in keys

\* AnswerJustified, of a call and its forwards.
Sound(r, t, gone) ==
    /\ \A i \in 1..(Len(t) - 1) : isRetryableModelError(t[i].outcome)
    /\ r.answer = "ok" =>
         /\ t # <<>> /\ t[Len(t)].outcome = "ok" /\ t[Len(t)].model = r.candidates[r.index]
         /\ r.index \in 1..Len(r.candidates)
         /\ r.attempted = SubSeq(r.candidates, 1, r.index)
         /\ r.usedFallback = (t[Len(t)].model # r.candidates[1])
         /\ t[Len(t)].provider # ProviderOf[t[Len(t)].model] => ProviderOf[t[Len(t)].model] \in gone
    /\ r.answer # "ok" =>
         /\ ~r.usedFallback
         /\ r.attempted # r.candidates => t # <<>> /\ ~isRetryableModelError(t[Len(t)].outcome)
         /\ r.answer = IF t = <<>> THEN "pool_empty" ELSE
                IF Note(t[Len(t)].outcome) = "error" THEN "upstream_failed" ELSE "response"

CallOK(r, t, keys, gone) ==
    /\ r.pc \in {"idle", "resolve", "storeDefault", "done"} => r.candidates = <<>> /\ Untried(r, t)
    /\ r.pc = "filter" => r.candidates \in Distinct /\ Untried(r, t)
    /\ r.pc = "try" =>
         /\ Running(r, keys) /\ Failing(r, t, r.index - 1)
         /\ r.attempted = SubSeq(r.candidates, 1, r.index - 1)
    /\ r.pc = "forward" =>
         /\ Running(r, keys) /\ Failing(r, t, r.index - 1)
         /\ r.attempted = SubSeq(r.candidates, 1, r.index)
         /\ r.provider \in Providers
         /\ r.provider # ProviderOf[r.candidates[r.index]] => ProviderOf[r.candidates[r.index]] \in gone
    /\ r.pc = "answered" =>
         /\ r.candidates \in Distinct /\ IsPrefix(r.attempted, r.candidates)
         /\ DistinctModels(t) /\ Sound(r, t, gone)

CallsOK ==
    /\ call \in [Calls -> CallSet] /\ tried \in [Calls -> Seq(TriedSet)]
    /\ \A c \in Calls : CallOK(call[c], tried[c], credentials \cup removed, removed)

JustInv == SettingsOK /\ SessionOK /\ CallsOK
-----------------------------------------------------------------------------
\* No model stands twice in an empty pool, and a cut is a prefix.
LEMMA EmptyDistinct == <<>> \in Distinct
BY DEF Distinct, IsInjective

\* The first n candidates.
LEMMA CutIsPrefix ==
    ASSUME NEW s \in Seq(Models), NEW n \in 0..Len(s)
    PROVE  IsPrefix(SubSeq(s, 1, n), s)
<1>1. SubSeq(s, 1, n) \in Seq(Models) /\ Len(SubSeq(s, 1, n)) = n
    OBVIOUS
<1>2. SubSeq(SubSeq(s, 1, n), 1, n) = SubSeq(s, 1, n)
    <2> DEFINE p == SubSeq(s, 1, n)
               q == SubSeq(p, 1, n)
    <2>1. p \in Seq(Models) /\ Len(p) = n /\ \A i \in 1..n : p[i] = s[i]
        OBVIOUS
    <2>2. q \in Seq(Models) /\ Len(q) = n /\ \A i \in 1..n : q[i] = p[i]
        <3> HIDE DEF p
        <3> QED BY <2>1
    <2> HIDE DEF p, q
    <2>3. q = p
        BY <2>1, <2>2
    <2> QED BY <2>3 DEF p, q
<1> QED BY <1>1, <1>2 DEF IsPrefix

\* What is known of a call, whatever its step.
LEMMA CallInOrder ==
    ASSUME NEW r \in CallSet, NEW t \in Seq(TriedSet), NEW keys, NEW gone, CallOK(r, t, keys, gone)
    PROVE  /\ IsPrefix(r.attempted, r.candidates)
           /\ r.candidates \in Distinct
           /\ DistinctModels(t)
<1>0. r.pc \in {"idle", "resolve", "storeDefault", "filter", "try", "forward", "answered", "done"}
    BY DEF CallSet
<1>1. CASE r.pc \in {"idle", "resolve", "storeDefault", "done", "filter"}
    <2>1. r.attempted = <<>> /\ t = <<>> /\ r.candidates \in Distinct
        BY <1>1, EmptyDistinct DEF CallOK, Untried
    <2>2. SubSeq(r.candidates, 1, 0) = <<>>
        BY <2>1 DEF Distinct
    <2>3. IsPrefix(SubSeq(r.candidates, 1, 0), r.candidates)
        BY <2>1, CutIsPrefix DEF Distinct
    <2>4. DistinctModels(t)
        BY <2>1 DEF DistinctModels
    <2> QED BY <2>1, <2>2, <2>3, <2>4
<1>2. CASE r.pc \in {"try", "forward"}
    <2>1. /\ Running(r, keys) /\ Failing(r, t, r.index - 1)
          /\ \/ r.attempted = SubSeq(r.candidates, 1, r.index - 1)
             \/ r.attempted = SubSeq(r.candidates, 1, r.index)
        BY <1>2 DEF CallOK
    <2>2. /\ r.candidates \in Seq(Models)
          /\ r.index - 1 \in 0..Len(r.candidates) /\ r.index \in 0..Len(r.candidates)
        BY <2>1 DEF Running, Distinct
    <2>3. IsPrefix(r.attempted, r.candidates)
        BY <2>1, <2>2, CutIsPrefix
    <2> QED BY <2>1, <2>3 DEF Running, Failing
<1>3. CASE r.pc = "answered"
    BY <1>3 DEF CallOK
<1> QED BY <1>0, <1>1, <1>2, <1>3

\* The inductive invariant implies the one that the run checks.
LEMMA JustInvImplies == JustInv => ProxyInv
<1> SUFFICES ASSUME JustInv PROVE ProxyInv
    OBVIOUS
<1>1. TypeOK
    <2>1. strategy \in StrategySet \cup {None}
        BY DEF JustInv, SettingsOK, Stored
    <2> QED BY <2>1 DEF TypeOK, JustInv, SettingsOK, SessionOK, CallsOK, TriedSet
<1>2. AttemptsInOrder
    <2> SUFFICES ASSUME NEW c \in Calls
                 PROVE  /\ IsPrefix(call[c].attempted, call[c].candidates)
                        /\ IsInjective(call[c].candidates)
                        /\ \A i, j \in DOMAIN tried[c] : i # j => tried[c][i].model # tried[c][j].model
        BY DEF AttemptsInOrder
    <2>1. call[c] \in CallSet /\ tried[c] \in Seq(TriedSet)
          /\ CallOK(call[c], tried[c], credentials \cup removed, removed)
        BY DEF JustInv, CallsOK
    <2>2. /\ IsPrefix(call[c].attempted, call[c].candidates)
          /\ call[c].candidates \in Distinct
          /\ DistinctModels(tried[c])
        BY <2>1, CallInOrder
    <2>3. DOMAIN tried[c] = 1..Len(tried[c])
        BY <2>1
    <2> QED BY <2>2, <2>3 DEF Distinct, DistinctModels
<1>3. AnswerJustified
    <2> SUFFICES ASSUME NEW c \in Calls, call[c].pc = "answered"
                 PROVE  LET r == call[c]
                            t == tried[c]
                            kind(outcome) == IF outcome \in {"throwsRetryable", "throwsFatal"}
                                             THEN "upstream_failed" ELSE "response"
                        IN  /\ \A i \in 1..(Len(t) - 1) : isRetryableModelError(t[i].outcome)
                            /\ IF r.answer = "ok"
                               THEN /\ Last(t).outcome = "ok" /\ Last(t).model = r.candidates[r.index]
                                    /\ r.attempted = SubSeq(r.candidates, 1, r.index)
                                    /\ r.usedFallback = (Last(t).model # Head(r.candidates))
                                    /\ Last(t).provider # ProviderOf[Last(t).model]
                                           => ProviderOf[Last(t).model] \in removed
                               ELSE /\ ~r.usedFallback
                                    /\ r.attempted # r.candidates
                                           => t # <<>> /\ ~isRetryableModelError(Last(t).outcome)
                                    /\ r.answer = IF t = <<>> THEN "pool_empty" ELSE kind(Last(t).outcome)
        BY DEF AnswerJustified
    <2> DEFINE r == call[c]
               t == tried[c]
    <2>1. Sound(r, t, removed) /\ r.candidates \in Distinct
        BY DEF JustInv, CallsOK, CallOK
    <2>2. r.index \in 1..Len(r.candidates) => Head(r.candidates) = r.candidates[1]
        BY <2>1 DEF Distinct
    <2> HIDE DEF r, t
    <2>3. CASE r.answer = "ok"
        BY <2>1, <2>2, <2>3 DEF Sound, Last, r, t
    <2>4. CASE r.answer # "ok"
        BY <2>1, <2>4 DEF Sound, Last, Note, r, t
    <2> QED BY <2>3, <2>4
<1> QED BY <1>1, <1>2, <1>3 DEF ProxyInv
-----------------------------------------------------------------------------
\* A call before it is sent.
LEMMA IdleCall == CallIdle \in CallSet /\ \A keys, gone : CallOK(CallIdle, <<>>, keys, gone)
<1>1. CallIdle \in CallSet
    BY DEF CallIdle, CallSet, Tasks
<1>2. \A keys, gone : CallOK(CallIdle, <<>>, keys, gone)
    BY DEF CallIdle, CallOK, Untried
<1> QED BY <1>1, <1>2

\* Keys are saved, or deleted and then gone: what is known of a call stays true.
LEMMA KeysGrow ==
    ASSUME NEW r \in CallSet, NEW t, NEW keys, NEW keys2, NEW gone, NEW gone2,
           keys \subseteq keys2, gone \subseteq gone2, CallOK(r, t, keys, gone)
    PROVE  CallOK(r, t, keys2, gone2)
<1>1. Running(r, keys) => Running(r, keys2)
    BY DEF Running
<1>2. Sound(r, t, gone) => Sound(r, t, gone2)
    BY DEF Sound
<1> QED BY <1>1, <1>2 DEF CallOK

\* One call moves on.
LEMMA OneCall ==
    ASSUME CallsOK, NEW c \in Calls, NEW r \in CallSet, NEW t \in Seq(TriedSet),
           call' = [call EXCEPT ![c] = r], tried' = [tried EXCEPT ![c] = t],
           UNCHANGED <<credentials, removed>>,
           CallOK(r, t, credentials \cup removed, removed)
    PROVE  CallsOK'
<1>1. call' \in [Calls -> CallSet] /\ tried' \in [Calls -> Seq(TriedSet)]
    BY DEF CallsOK
<1>2. ASSUME NEW d \in Calls
      PROVE  CallOK(call'[d], tried'[d], credentials' \cup removed', removed')
    <2>1. CASE d = c
        BY <2>1 DEF CallsOK
    <2>2. CASE d # c
        BY <2>2 DEF CallsOK
    <2> QED BY <2>1, <2>2
<1> QED BY <1>1, <1>2 DEF CallsOK

\* The same of a call whose forwards stay.
LEMMA OneCallOnly ==
    ASSUME CallsOK, NEW c \in Calls, NEW r \in CallSet,
           call' = [call EXCEPT ![c] = r], UNCHANGED tried,
           UNCHANGED <<credentials, removed>>,
           CallOK(r, tried[c], credentials \cup removed, removed)
    PROVE  CallsOK'
<1>1. tried[c] \in Seq(TriedSet) /\ tried' = [tried EXCEPT ![c] = tried[c]]
    BY DEF CallsOK
<1> QED BY <1>1, OneCall

\* No call moves, and no key is forgotten.
LEMMA NoCall ==
    ASSUME CallsOK, UNCHANGED <<call, tried>>,
           credentials \cup removed \subseteq credentials' \cup removed', removed \subseteq removed'
    PROVE  CallsOK'
<1> SUFFICES ASSUME NEW c \in Calls
             PROVE  CallOK(call[c], tried[c], credentials' \cup removed', removed')
    BY DEF CallsOK
<1>1. call[c] \in CallSet /\ CallOK(call[c], tried[c], credentials \cup removed, removed)
    BY DEF CallsOK
<1> QED BY <1>1, KeysGrow

\* One settings request moves on.
LEMMA OneEdit ==
    ASSUME SettingsOK, NEW e \in Edits, NEW r \in EditSet, EditOK(r),
           edit' = [edit EXCEPT ![e] = r],
           strategy' \in Stored \cup {None},
           credentials' \subseteq Providers, removed' \subseteq Providers,
           defaultProvider' \in Providers \cup {None}
    PROVE  SettingsOK'
<1>1. edit' \in [Edits -> EditSet]
    BY DEF SettingsOK
<1>2. \A d \in Edits : EditOK(edit'[d])
    BY DEF SettingsOK
<1> QED BY <1>1, <1>2 DEF SettingsOK, EditOK, Stored

\* What persisting a strategy stores.
LEMMA PersistStores ==
    ASSUME NEW s \in Stored, persistModelStrategy(s), defaultProvider \in Providers \cup {None}
    PROVE  strategy' \in Stored /\ defaultProvider' \in Providers \cup {None}
BY LegacyDefault DEF persistModelStrategy
-----------------------------------------------------------------------------
\* The settings of a user who has saved the keys of some providers.
LEMMA InitJust == Init => JustInv
<1> SUFFICES ASSUME Init PROVE JustInv
    OBVIOUS
<1>1. PICK keys \in InitialKeys : SetUp(keys)
    BY DEF Init
<1> DEFINE S == {m \in Models : ProviderOf[m] \in keys}
           seeded == appendModelRefsToAllPools(DefaultStrategy, SetToSeq(S))
<1>2. seeded \in Stored
    <2>1. S \in SUBSET Models
        OBVIOUS
    <2> HIDE DEF S
    <2>2. SetToSeq(S) \in Seq(Models)
        BY <2>1, ModelsInSequence
    <2> QED BY <2>2, DefaultStored, SeedStored
<1>3. deriveLegacyDefaultFromStrategy(seeded) \in Providers \cup {None}
    <2> HIDE DEF seeded
    <2> QED BY <1>2, LegacyDefault
<1>4. /\ strategy \in Stored \cup {None}
      /\ credentials \subseteq Providers
      /\ defaultProvider \in Providers \cup {None}
    BY <1>1, <1>2, <1>3, ProxyAssumption DEF SetUp
<1>5. EditIdle \in EditSet /\ EditOK(EditIdle)
    BY DEF EditIdle, EditSet, EditOK
<1>6. SettingsOK
    BY <1>4, <1>5 DEF SettingsOK, Init
<1>7. SessionOK
    BY ProxyAssumption DEF SessionOK, Init
<1>8. CallsOK
    <2>1. call = [c \in Calls |-> CallIdle] /\ tried = [c \in Calls |-> <<>>]
        BY DEF Init
    <2>2. <<>> \in Seq(TriedSet)
        OBVIOUS
    <2> QED BY <2>1, <2>2, IdleCall DEF CallsOK
<1> QED BY <1>6, <1>7, <1>8 DEF JustInv

\* A step of a settings request stores only what EditOK says it holds.
LEMMA SettingsJust ==
    ASSUME JustInv, NEW e \in Edits,
           \/ \E p \in Providers : saveProviderApiKey(e, p) \/ deleteProviderApiKey(e, p)
           \/ \E s \in Strategies : updateModelStrategy(e, s)
           \/ getModelStrategy(e)
           \/ StoreKey(e) \/ seedModelStrategyPoolsForProvider(e) \/ SaveSeed(e) \/ SaveStrategy(e)
    PROVE  JustInv'
<1>0. /\ SettingsOK /\ SessionOK /\ CallsOK
      /\ edit[e] \in EditSet /\ EditOK(edit[e])
    BY DEF JustInv, SettingsOK
<1> DEFINE r == edit'[e]
           Moves == edit' = [edit EXCEPT ![e] = r] /\ r \in EditSet /\ EditOK(r)
           Kept == UNCHANGED <<session, call, tried, writers>>
\* The rest of a step whose request has moved.
<1>1. ASSUME Moves, Kept, strategy' \in Stored \cup {None}, credentials' \subseteq Providers,
             removed' \subseteq Providers, defaultProvider' \in Providers \cup {None},
             broken' \subseteq Providers,
             credentials \cup removed \subseteq credentials' \cup removed', removed \subseteq removed'
      PROVE  JustInv'
    <2>1. SettingsOK'
        <3> HIDE DEF r
        <3> QED BY <1>0, <1>1, OneEdit
    <2>2. SessionOK'
        BY <1>0, <1>1 DEF SessionOK, session
    <2>3. CallsOK'
        BY <1>0, <1>1, NoCall
    <2> QED BY <2>1, <2>2, <2>3 DEF JustInv
<1>2. ASSUME NEW p \in Providers, saveProviderApiKey(e, p) PROVE JustInv'
    <2>1. edit' = [edit EXCEPT ![e] = [@ EXCEPT
                !.pc = IF p \in credentials THEN "replaceKey" ELSE "storeKey", !.provider = p]]
        BY <1>2 DEF saveProviderApiKey
    <2>2. Moves
        BY <1>0, <2>1 DEF SettingsOK, EditSet, EditOK
    <2> HIDE DEF Moves
    <2> QED BY <1>0, <1>1, <1>2, <2>2 DEF saveProviderApiKey, SettingsOK, SessionOK
<1>3. ASSUME NEW p \in Providers, deleteProviderApiKey(e, p) PROVE JustInv'
    <2>1. edit' = [edit EXCEPT ![e].pc = "done"]
        BY <1>3 DEF deleteProviderApiKey, EditStep
    <2>2. Moves
        BY <1>0, <2>1 DEF SettingsOK, EditSet, EditOK
    <2> HIDE DEF Moves
    <2> QED BY <1>0, <1>1, <1>3, <2>2 DEF deleteProviderApiKey, SettingsOK, SessionOK
<1>4. ASSUME NEW s \in Strategies, updateModelStrategy(e, s) PROVE JustInv'
    <2> DEFINE n == normalizeUpdateModelStrategy(s)
    <2>1. n \in Stored
        BY NormalizeStored, ProxyAssumption
    <2>2. \/ edit' = [edit EXCEPT ![e] = [@ EXCEPT !.pc = "save", !.next = n]]
          \/ edit' = [edit EXCEPT ![e] = [@ EXCEPT !.pc = "failed"]]
        BY <1>4 DEF updateModelStrategy
    <2> HIDE DEF n
    <2>3. n \in StrategySet
        BY <2>1 DEF Stored
    <2>4. ASSUME edit' = [edit EXCEPT ![e] = [@ EXCEPT !.pc = "save", !.next = n]] PROVE Moves
        BY <1>0, <2>1, <2>3, <2>4 DEF SettingsOK, EditSet, EditOK
    <2>5. ASSUME edit' = [edit EXCEPT ![e] = [@ EXCEPT !.pc = "failed"]] PROVE Moves
        BY <1>0, <2>5 DEF SettingsOK, EditSet, EditOK
    <2>6. Moves
        BY <2>2, <2>4, <2>5
    <2> HIDE DEF Moves
    <2> QED BY <1>0, <1>1, <1>4, <2>6 DEF updateModelStrategy, SettingsOK, SessionOK
<1>5. ASSUME getModelStrategy(e) PROVE JustInv'
    <2>1. edit' = [edit EXCEPT ![e] = [@ EXCEPT !.pc = "save", !.next = DefaultStrategy]]
        BY <1>5 DEF getModelStrategy
    <2>2. DefaultStrategy \in StrategySet
        BY DefaultStored DEF Stored
    <2>3. Moves
        BY <1>0, <2>1, <2>2, DefaultStored DEF SettingsOK, EditSet, EditOK
    <2> HIDE DEF Moves
    <2> QED BY <1>0, <1>1, <1>5, <2>3 DEF getModelStrategy, SettingsOK, SessionOK
<1>6. ASSUME StoreKey(e) PROVE JustInv'
    <2>1. edit' = [edit EXCEPT ![e].pc = IF edit[e].pc = "storeKey" THEN "seed" ELSE "done"]
        BY <1>6 DEF StoreKey, EditStep
    <2>2. edit[e].provider \in Providers
        BY <1>0, <1>6 DEF StoreKey, EditOK
    <2>3. Moves
        BY <1>0, <2>1, <2>2 DEF SettingsOK, EditSet, EditOK
    <2> HIDE DEF Moves
    <2> QED BY <1>0, <1>1, <1>6, <2>2, <2>3 DEF StoreKey, SettingsOK, SessionOK
<1>7. ASSUME seedModelStrategyPoolsForProvider(e) PROVE JustInv'
    <2> DEFINE S == {m \in Models : ProviderOf[m] = edit[e].provider}
               refs == SetToSeq(S)
               n == appendModelRefsToAllPools(migrateModelStrategyFromLegacy(strategy), refs)
    <2>1. edit' = [edit EXCEPT ![e] =
                [@ EXCEPT !.pc = IF refs = <<>> THEN "done" ELSE "saveSeed", !.next = n]]
        BY <1>7 DEF seedModelStrategyPoolsForProvider
    <2>2. S \in SUBSET Models
        OBVIOUS
    <2> HIDE DEF S
    <2>3. refs \in Seq(Models)
        BY <2>2, ModelsInSequence
    <2> HIDE DEF refs
    <2>4. migrateModelStrategyFromLegacy(strategy) \in Stored
        BY <1>0, DefaultStored DEF migrateModelStrategyFromLegacy, SettingsOK
    <2>5. n \in Stored
        BY <2>3, <2>4, SeedStored
    <2> HIDE DEF n
    <2>6. n \in StrategySet
        BY <2>5 DEF Stored
    <2>7. Moves
        BY <1>0, <2>1, <2>5, <2>6 DEF SettingsOK, EditSet, EditOK
    <2> HIDE DEF Moves
    <2> QED BY <1>0, <1>1, <1>7, <2>7 DEF seedModelStrategyPoolsForProvider, SettingsOK, SessionOK
<1>8. ASSUME SaveSeed(e) PROVE JustInv'
    <2>1. edit[e].next \in Stored
        BY <1>0, <1>8 DEF SaveSeed, EditOK
    <2>2. \E pc \in {"done", "failed"} : edit' = [edit EXCEPT ![e].pc = pc]
        BY <1>8 DEF SaveSeed, EditStep
    <2>3. strategy' \in Stored \cup {None} /\ defaultProvider' \in Providers \cup {None}
        <3>1. \/ persistModelStrategy(edit[e].next)
              \/ UNCHANGED <<strategy, defaultProvider>>
            BY <1>8 DEF SaveSeed
        <3> QED BY <1>0, <2>1, <3>1, PersistStores DEF SettingsOK
    <2>4. Moves
        BY <1>0, <2>2 DEF SettingsOK, EditSet, EditOK
    <2> HIDE DEF Moves
    <2> QED BY <1>0, <1>1, <1>8, <2>3, <2>4 DEF SaveSeed, SettingsOK, SessionOK
<1>9. ASSUME SaveStrategy(e) PROVE JustInv'
    <2>1. edit[e].next \in Stored
        BY <1>0, <1>9 DEF SaveStrategy, EditOK
    <2>2. edit' = [edit EXCEPT ![e].pc = "done"]
        BY <1>9 DEF SaveStrategy, EditStep
    <2>3. strategy' \in Stored \cup {None} /\ defaultProvider' \in Providers \cup {None}
        BY <1>0, <1>9, <2>1, PersistStores DEF SaveStrategy, SettingsOK
    <2>4. Moves
        BY <1>0, <2>2 DEF SettingsOK, EditSet, EditOK
    <2> HIDE DEF Moves
    <2> QED BY <1>0, <1>1, <1>9, <2>3, <2>4 DEF SaveStrategy, SettingsOK, SessionOK
<1> QED BY <1>2, <1>3, <1>4, <1>5, <1>6, <1>7, <1>8, <1>9
-----------------------------------------------------------------------------
\* A call's step, with the settings left alone, keeps what is not the call.
LEMMA CallFrame ==
    ASSUME JustInv, UNCHANGED <<settings, session>>, broken' \subseteq Providers, writers' \subseteq Models,
           CallsOK'
    PROVE  JustInv'
<1>1. SettingsOK'
    BY DEF JustInv, SettingsOK, settings, EditOK, Stored
<1>2. SessionOK'
    BY DEF JustInv, SessionOK, session
<1> QED BY <1>1, <1>2 DEF JustInv

\* The loop's way on, from a call all of whose first r.index candidates
\* have been attempted.
LEMMA AdvanceJust ==
    ASSUME NEW r \in CallSet, NEW t \in Seq(TriedSet), NEW keys, NEW gone,
           r.pc \in {"try", "forward"},
           Running(r, keys), Failing(r, t, r.index),
           r.attempted = SubSeq(r.candidates, 1, r.index)
    PROVE  Advance(r) \in CallSet /\ CallOK(Advance(r), t, keys, gone)
<1>0. r.candidates \in Seq(Models) /\ r.index \in 1..Len(r.candidates) /\ Len(r.candidates) \in Nat
    BY DEF Running, Distinct
<1>1. CASE r.index < Len(r.candidates)
    <2> DEFINE q == [r EXCEPT !.pc = "try", !.index = r.index + 1]
    <2>1. Advance(r) = q
        BY <1>1 DEF Advance
    <2>2. /\ q \in CallSet /\ q.pc = "try" /\ q.index = r.index + 1 /\ q.candidates = r.candidates
          /\ q.attempted = r.attempted /\ q.answer = r.answer /\ q.usedFallback = r.usedFallback
          /\ q.last = r.last
        <3> DEFINE n == r.index + 1
        <3>1. n \in Nat
            BY <1>0
        <3> HIDE DEF n
        <3>2. [r EXCEPT !.pc = "try", !.index = n] \in CallSet
            BY <3>1 DEF CallSet
        <3>3. q = [r EXCEPT !.pc = "try", !.index = n]
            BY DEF n
        <3>4. q.pc = "try" /\ q.index = n /\ q.candidates = r.candidates
            BY <3>3 DEF CallSet
        <3>5. /\ q.attempted = r.attempted /\ q.answer = r.answer /\ q.usedFallback = r.usedFallback
              /\ q.last = r.last
            BY <3>3 DEF CallSet
        <3> QED BY <3>2, <3>3, <3>4, <3>5 DEF n
    <2> HIDE DEF q
    <2>3. q.index - 1 = r.index /\ q.index \in 1..Len(q.candidates)
        BY <1>0, <1>1, <2>2
    <2>4. Running(q, keys)
        BY <2>2, <2>3 DEF Running
    <2>5. Failing(q, t, q.index - 1)
        BY <2>2, <2>3 DEF Failing
    <2>6. q.attempted = SubSeq(q.candidates, 1, q.index - 1)
        BY <2>2, <2>3
    <2> QED BY <2>1, <2>2, <2>4, <2>5, <2>6 DEF CallOK
<1>2. CASE ~(r.index < Len(r.candidates))
    <2> DEFINE q == [r EXCEPT !.pc = "answered", !.answer = Failure(r.last)]
    <2>1. Advance(r) = q
        BY <1>2 DEF Advance
    <2>2. r.last \in {"none", "error", "response"}
        BY DEF CallSet
    <2>3. Failure(r.last) \in {"pool_empty", "response", "upstream_failed"}
        BY <2>2 DEF Failure
    <2>4. /\ q \in CallSet /\ q.pc = "answered" /\ q.candidates = r.candidates
          /\ q.attempted = r.attempted /\ q.answer = Failure(r.last) /\ q.usedFallback = r.usedFallback
        BY <2>3 DEF CallSet
    <2> HIDE DEF q
    <2>5. r.index = Len(r.candidates)
        BY <1>0, <1>2
    <2>6. SubSeq(r.candidates, 1, Len(r.candidates)) = r.candidates
        BY <1>0
    <2>7. q.attempted = q.candidates
        BY <2>4, <2>5, <2>6
    <2>8. IsPrefix(q.attempted, q.candidates)
        BY <2>7 DEF IsPrefix
    <2>9. Sound(q, t, gone)
        <3>1. ~q.usedFallback /\ q.answer # "ok"
            BY <2>3, <2>4 DEF Failing
        <3>2. \A i \in 1..(Len(t) - 1) : isRetryableModelError(t[i].outcome)
            BY DEF Failing
        <3>3. q.answer = IF t = <<>> THEN "pool_empty" ELSE
                 IF Note(t[Len(t)].outcome) = "error" THEN "upstream_failed" ELSE "response"
            BY <2>4 DEF Failing, Failure, Note
        <3> QED BY <2>7, <3>1, <3>2, <3>3 DEF Sound
    <2>10. q.candidates \in Distinct /\ DistinctModels(t)
        BY <2>4 DEF Running, Failing
    <2> QED BY <2>1, <2>4, <2>8, <2>9, <2>10 DEF CallOK
<1> QED BY <1>1, <1>2

\* A request is sent.
LEMMA StartJust ==
    ASSUME JustInv, NEW c \in Calls, NEW task \in Tasks, Start(c, task)
    PROVE  JustInv'
<1>1. PICK h \in Headers(c, task) :
        call' = [call EXCEPT ![c] = [@ EXCEPT !.pc = "resolve", !.task = task,
                                              !.selection = h.selection, !.preferred = h.preferred]]
    BY DEF Start
<1> DEFINE r == [call[c] EXCEPT !.pc = "resolve", !.task = task,
                                !.selection = h.selection, !.preferred = h.preferred]
<1>2. h.selection \in Selections \cup {None} /\ h.preferred \in Models \cup {None}
    <2>1. CASE h = [selection |-> selection, preferred |-> IF task = "chat" THEN sticky ELSE None]
        BY <2>1 DEF JustInv, SessionOK
    <2>2. ASSUME NEW d \in Calls, h = [selection |-> call[d].selection, preferred |-> call[d].preferred]
          PROVE  h.selection \in Selections \cup {None} /\ h.preferred \in Models \cup {None}
        BY <2>2 DEF JustInv, CallsOK, CallSet
    <2> QED BY <2>1, <2>2 DEF Headers
<1>3. /\ call[c] \in CallSet /\ CallOK(call[c], tried[c], credentials \cup removed, removed) 
      /\ call[c].pc = "idle"
    BY DEF JustInv, CallsOK, Start
<1>4. r \in CallSet
    BY <1>2, <1>3 DEF CallSet
<1>5. CallOK(r, tried[c], credentials \cup removed, removed)
    <2>1. /\ r.pc = "resolve" /\ r.candidates = call[c].candidates /\ r.attempted = call[c].attempted
          /\ r.index = call[c].index /\ r.last = call[c].last /\ r.answer = call[c].answer
          /\ r.usedFallback = call[c].usedFallback
        BY <1>3 DEF CallSet
    <2>2. call[c].candidates = <<>> /\ Untried(call[c], tried[c])
        BY <1>3 DEF CallOK
    <2> HIDE DEF r
    <2> QED BY <2>1, <2>2 DEF CallOK, Untried
<1>6. call' = [call EXCEPT ![c] = r]
    BY <1>1
<1> HIDE DEF r
<1>7. CallsOK'
    BY <1>4, <1>5, <1>6, OneCallOnly DEF Start, settings, JustInv
<1> QED BY <1>7, CallFrame DEF Start, JustInv, SessionOK

\* Candidates are resolved, or the first strategy has to be stored before.
LEMMA ResolveJust ==
    ASSUME JustInv, NEW c \in Calls, resolveCandidates(c)
    PROVE  JustInv'
<1> DEFINE chosen == resolveTaskModelCandidates(call[c].task, strategy, call[c].selection)
           r == IF strategy = None THEN [call[c] EXCEPT !.pc = "storeDefault"]
                ELSE [call[c] EXCEPT !.pc = "filter", !.candidates = chosen]
<1>1. call' = [call EXCEPT ![c] = r]
    BY DEF resolveCandidates
<1>2. /\ call[c] \in CallSet /\ CallOK(call[c], tried[c], credentials \cup removed, removed)
      /\ call[c].pc = "resolve"
    BY DEF JustInv, CallsOK, resolveCandidates
<1>3. call[c].candidates = <<>> /\ Untried(call[c], tried[c])
    BY <1>2 DEF CallOK
<1>4. strategy # None => chosen \in Distinct
    <2>1. strategy # None => strategy \in Stored
        BY DEF JustInv, SettingsOK
    <2>2. call[c].task \in Tasks /\ call[c].selection \in Selections \cup {None}
        BY <1>2 DEF CallSet
    <2> QED BY <2>1, <2>2, CandidatesDistinct
<1> HIDE DEF chosen
<1>5. strategy # None => chosen \in Seq(Models)
    BY <1>4 DEF Distinct
<1>6. r \in CallSet
    BY <1>2, <1>5 DEF CallSet
<1>7. CallOK(r, tried[c], credentials \cup removed, removed)
    <2>1. /\ r.attempted = call[c].attempted /\ r.index = call[c].index /\ r.last = call[c].last
          /\ r.answer = call[c].answer /\ r.usedFallback = call[c].usedFallback
        BY <1>2 DEF CallSet
    <2>2. \/ r.pc = "storeDefault" /\ r.candidates = <<>>
          \/ r.pc = "filter" /\ r.candidates \in Distinct
        BY <1>2, <1>3, <1>4 DEF CallSet
    <2> HIDE DEF r
    <2>3. Untried(r, tried[c])
        BY <1>3, <2>1 DEF Untried
    <2> QED BY <2>2, <2>3 DEF CallOK
<1> HIDE DEF r
<1>8. CallsOK'
    BY <1>1, <1>6, <1>7, OneCallOnly DEF resolveCandidates, Hold, settings, JustInv
<1> QED BY <1>8, CallFrame DEF resolveCandidates, Hold, JustInv, SessionOK

\* The first strategy is stored by the request that needs it.
LEMMA StoreDefaultJust ==
    ASSUME JustInv, NEW c \in Calls, StoreDefault(c)
    PROVE  JustInv'
<1> DEFINE chosen == resolveTaskModelCandidates(call[c].task, DefaultStrategy, call[c].selection)
           r == [call[c] EXCEPT !.pc = "filter", !.candidates = chosen]
<1>1. call' = [call EXCEPT ![c] = r]
    BY DEF StoreDefault
<1>2. /\ call[c] \in CallSet /\ CallOK(call[c], tried[c], credentials \cup removed, removed)
      /\ call[c].pc = "storeDefault"
    BY DEF JustInv, CallsOK, StoreDefault
<1>3. Untried(call[c], tried[c])
    BY <1>2 DEF CallOK
<1>4. chosen \in Distinct
    BY <1>2, DefaultStored, CandidatesDistinct DEF CallSet
<1> HIDE DEF chosen
<1>5. r \in CallSet
    BY <1>2, <1>4 DEF CallSet, Distinct
<1>6. CallOK(r, tried[c], credentials \cup removed, removed)
    <2>1. /\ r.attempted = call[c].attempted /\ r.index = call[c].index /\ r.last = call[c].last
          /\ r.answer = call[c].answer /\ r.usedFallback = call[c].usedFallback
          /\ r.pc = "filter" /\ r.candidates = chosen
        BY <1>2 DEF CallSet
    <2> HIDE DEF r
    <2>2. Untried(r, tried[c])
        BY <1>3, <2>1 DEF Untried
    <2> QED BY <1>4, <2>1, <2>2 DEF CallOK
<1> HIDE DEF r
<1>7. CallsOK'
    BY <1>1, <1>5, <1>6, OneCallOnly DEF StoreDefault, JustInv
<1>8. strategy' \in Stored /\ defaultProvider' \in Providers \cup {None}
    BY DefaultStored, PersistStores DEF StoreDefault, JustInv, SettingsOK
<1>9. SettingsOK' /\ SessionOK'
    BY <1>8 DEF StoreDefault, JustInv, SettingsOK, SessionOK, session, Stored, EditOK
<1> QED BY <1>7, <1>9 DEF JustInv

\* What is left of the candidates when providers without a key are taken out.
LEMMA FilterJust ==
    ASSUME JustInv, NEW c \in Calls, filterConfiguredCandidates(c)
    PROVE  JustInv'
<1> DEFINE configured == {m \in Models : ProviderOf[m] \in credentials}
           kept == filter(call[c].candidates, configured)
           chosen == reorderCandidatesWithPreference(kept, call[c].preferred)
           r == IF kept = <<>>
                THEN [call[c] EXCEPT !.pc = "answered", !.candidates = <<>>, !.answer = "pool_empty"]
                ELSE [call[c] EXCEPT !.pc = "try", !.index = 1, !.candidates = chosen]
<1>1. call' = [call EXCEPT ![c] = r]
    BY DEF filterConfiguredCandidates
<1>2. /\ call[c] \in CallSet /\ CallOK(call[c], tried[c], credentials \cup removed, removed)
      /\ call[c].pc = "filter"
    BY DEF JustInv, CallsOK, filterConfiguredCandidates
<1>3. call[c].candidates \in Distinct /\ Untried(call[c], tried[c])
    BY <1>2 DEF CallOK
<1>4. /\ kept \in Distinct
      /\ \A i \in 1..Len(kept) : kept[i] \in configured
    <2> HIDE DEF configured
    <2> QED BY <1>3, FilterKeeps
<1>5. \A m \in configured : ProviderOf[m] \in credentials
    OBVIOUS
<1> HIDE DEF configured, kept
<1>6. /\ chosen \in Distinct
      /\ \A i \in 1..Len(chosen) : \E j \in 1..Len(kept) : chosen[i] = kept[j]
      /\ kept # <<>> => chosen # <<>>
    BY <1>2, <1>4, ReorderDistinct DEF CallSet
<1> HIDE DEF chosen
<1>7. chosen \in Seq(Models) /\ (kept # <<>> => Len(chosen) \in Nat /\ Len(chosen) > 0)
    BY <1>6 DEF Distinct
<1>8. r \in CallSet
    <2>1. CASE kept = <<>>
        <3>1. <<>> \in Seq(Models)
            OBVIOUS
        <3>2. [call[c] EXCEPT !.pc = "answered", !.candidates = <<>>, !.answer = "pool_empty"] \in CallSet
            BY <1>2, <3>1 DEF CallSet
        <3> QED BY <2>1, <3>2
    <2>2. CASE kept # <<>>
        <3>1. [call[c] EXCEPT !.pc = "try", !.index = 1, !.candidates = chosen] \in CallSet
            BY <1>2, <1>7 DEF CallSet
        <3> QED BY <2>2, <3>1
    <2> QED BY <2>1, <2>2
<1>9. r.attempted = <<>> /\ r.last = "none" /\ ~r.usedFallback /\ tried[c] = <<>>
    BY <1>2, <1>3 DEF CallSet, Untried
<1>10. DistinctModels(tried[c])
    BY <1>9 DEF DistinctModels
<1>11. CASE kept = <<>>
    <2>1. r.pc = "answered" /\ r.candidates = <<>> /\ r.answer = "pool_empty"
        BY <1>2, <1>11 DEF CallSet
    <2> HIDE DEF r
    <2>2. IsPrefix(r.attempted, r.candidates)
        BY <1>9, <2>1 DEF IsPrefix
    <2>3. Sound(r, tried[c], removed)
        BY <1>9, <2>1 DEF Sound
    <2>4. CallOK(r, tried[c], credentials \cup removed, removed)
        BY <1>10, <2>1, <2>2, <2>3, EmptyDistinct DEF CallOK
    <2>5. CallsOK'
        BY <1>1, <1>8, <2>4, OneCallOnly DEF filterConfiguredCandidates, Hold, settings,
              JustInv
    <2> QED BY <2>5, CallFrame DEF filterConfiguredCandidates, Hold, JustInv, SessionOK
<1>12. CASE kept # <<>>
    <2>1. r.pc = "try" /\ r.candidates = chosen /\ r.answer = "none" /\ r.index = 1
        BY <1>2, <1>3, <1>12 DEF CallSet, Untried
    <2> HIDE DEF r
    <2>2. Running(r, credentials \cup removed)
        <3>1. r.index \in 1..Len(r.candidates)
            BY <1>7, <1>12, <2>1
        <3>2. \A i \in 1..Len(r.candidates) : ProviderOf[r.candidates[i]] \in credentials
            BY <1>4, <1>5, <1>6, <2>1
        <3> QED BY <1>6, <2>1, <3>1, <3>2 DEF Running
    <2>3. Failing(r, tried[c], r.index - 1)
        BY <1>9, <1>10, <2>1 DEF Failing
    <2>4. r.attempted = SubSeq(r.candidates, 1, r.index - 1)
        BY <1>7, <1>9, <2>1
    <2>5. CallOK(r, tried[c], credentials \cup removed, removed)
        BY <2>1, <2>2, <2>3, <2>4 DEF CallOK
    <2>6. CallsOK'
        BY <1>1, <1>8, <2>5, OneCallOnly DEF filterConfiguredCandidates, Hold, settings,
              JustInv
    <2> QED BY <2>6, CallFrame DEF filterConfiguredCandidates, Hold, JustInv, SessionOK
<1> QED BY <1>11, <1>12

\* A cut of a sequence, and its next element.
LEMMA CutAppend ==
    ASSUME NEW s \in Seq(Models), NEW n \in 1..Len(s)
    PROVE  Append(SubSeq(s, 1, n - 1), s[n]) = SubSeq(s, 1, n)
<1> DEFINE p == SubSeq(s, 1, n - 1)
           q == SubSeq(s, 1, n)
<1>1. p \in Seq(Models) /\ Len(p) = n - 1 /\ \A i \in 1..(n - 1) : p[i] = s[i]
    OBVIOUS
<1>2. q \in Seq(Models) /\ Len(q) = n /\ \A i \in 1..n : q[i] = s[i]
    OBVIOUS
<1>3. s[n] \in Models
    OBVIOUS
<1> HIDE DEF p, q
<1>4. /\ Append(p, s[n]) \in Seq(Models) /\ Len(Append(p, s[n])) = n
      /\ \A i \in 1..n : Append(p, s[n])[i] = IF i < n THEN p[i] ELSE s[n]
    BY <1>1, <1>3
<1>5. Append(p, s[n]) = q
    BY <1>1, <1>2, <1>4
<1> QED BY <1>5 DEF p, q

\* The provider of the next candidate is looked up.
LEMMA TryJust ==
    ASSUME JustInv, NEW c \in Calls, Try(c)
    PROVE  JustInv'
<1> DEFINE o == call[c]
           m == o.candidates[o.index]
           p == resolve(ProviderOf[m])
           r == [o EXCEPT !.attempted = Append(@, m), !.provider = p]
           q == [r EXCEPT !.pc = "forward"]
           keys == credentials \cup removed
<1>1. \/ p = None /\ call' = [call EXCEPT ![c] = Advance(r)]
      \/ p # None /\ call' = [call EXCEPT ![c] = q]
    <2>1. o \in CallSet
        BY DEF JustInv, CallsOK
    <2>2. r.provider = p
        BY <2>1 DEF CallSet
    <2>3. call' = [call EXCEPT ![c] = IF r.provider = None THEN Advance(r) ELSE q]
        BY DEF Try
    <2> QED BY <2>2, <2>3
<1>2. o \in CallSet /\ CallOK(o, tried[c], keys, removed) /\ o.pc = "try"
    BY DEF JustInv, CallsOK, Try
<1>3. tried[c] \in Seq(TriedSet) /\ CallsOK /\ UNCHANGED <<tried, credentials, removed>>
    BY DEF JustInv, CallsOK, Try, Hold, settings
<1>4. /\ Running(o, keys) /\ Failing(o, tried[c], o.index - 1)
      /\ o.attempted = SubSeq(o.candidates, 1, o.index - 1)
    BY <1>2 DEF CallOK
<1>5. /\ o.candidates \in Seq(Models) /\ o.index \in 1..Len(o.candidates)
      /\ m \in Models /\ ProviderOf[m] \in keys
    BY <1>4 DEF Running, Distinct
<1>6. p \in Providers \cup {None} /\ (p # None => p \in Providers)
      /\ (p # ProviderOf[m] => ProviderOf[m] \in removed)
    BY <1>5 DEF resolve, JustInv, SettingsOK
<1> HIDE DEF m, p
<1>7. /\ r \in CallSet /\ r.pc = "try" /\ r.index = o.index /\ r.candidates = o.candidates
      /\ r.attempted = Append(o.attempted, m) /\ r.answer = o.answer /\ r.last = o.last
      /\ r.usedFallback = o.usedFallback /\ r.provider = p
    <2> DEFINE a == Append(o.attempted, m)
    <2>1. a \in Seq(Models)
        BY <1>2, <1>5 DEF CallSet
    <2> HIDE DEF a
    <2>2. r = [o EXCEPT !.attempted = a, !.provider = p]
        BY <1>2 DEF CallSet, a
    <2> HIDE DEF r
    <2>3. r \in CallSet
        BY <1>2, <1>6, <2>1, <2>2 DEF CallSet
    <2>4. r.pc = o.pc /\ r.index = o.index /\ r.candidates = o.candidates /\ r.attempted = a
        BY <1>2, <2>2 DEF CallSet
    <2>5. r.answer = o.answer /\ r.last = o.last /\ r.usedFallback = o.usedFallback /\ r.provider = p
        BY <1>2, <2>2 DEF CallSet
    <2> QED BY <1>2, <2>3, <2>4, <2>5 DEF a
<1>8. r.attempted = SubSeq(r.candidates, 1, r.index)
    BY <1>4, <1>5, <1>7, CutAppend DEF m
<1> HIDE DEF o
<1>9. q \in CallSet /\ q = [r EXCEPT !.pc = "forward"]
    BY <1>7 DEF CallSet
<1>10. /\ q.pc = "forward" /\ q.index = r.index /\ q.candidates = r.candidates
       /\ q.attempted = r.attempted /\ q.answer = r.answer /\ q.last = r.last
       /\ q.usedFallback = r.usedFallback /\ q.provider = r.provider
    <2> HIDE DEF r
    <2> QED BY <1>7 DEF CallSet
<1> HIDE DEF r, q
<1>11. Running(r, keys) /\ Running(q, keys)
    BY <1>4, <1>7, <1>10 DEF Running
<1>12. Failing(r, tried[c], r.index - 1) /\ Failing(q, tried[c], q.index - 1)
    BY <1>4, <1>7, <1>10 DEF Failing
<1>13. CASE p = None
    <2>1. Failing(r, tried[c], r.index)
        <3>1. 1..(r.index - 1) \subseteq 1..r.index
            BY <1>5, <1>7
        <3> QED BY <1>12, <3>1 DEF Failing
    <2>2. Advance(r) \in CallSet /\ CallOK(Advance(r), tried[c], keys, removed)
        BY <1>3, <1>7, <1>8, <1>11, <2>1, AdvanceJust
    <2>3. call' = [call EXCEPT ![c] = Advance(r)]
        BY <1>1, <1>13
    <2>4. CallsOK'
        BY <1>3, <2>2, <2>3, OneCallOnly
    <2> QED BY <2>4, CallFrame DEF Try, Hold, JustInv, SessionOK
<1>14. CASE p # None
    <2>1. call' = [call EXCEPT ![c] = q]
        BY <1>1, <1>14
    <2>2. q.provider \in Providers
        BY <1>6, <1>7, <1>10, <1>14
    <2>3. q.provider # ProviderOf[q.candidates[q.index]] => ProviderOf[q.candidates[q.index]] \in removed
        BY <1>6, <1>7, <1>10 DEF m
    <2>4. q.attempted = SubSeq(q.candidates, 1, q.index)
        BY <1>8, <1>10
    <2>5. CallOK(q, tried[c], keys, removed)
        BY <1>10, <1>11, <1>12, <2>2, <2>3, <2>4 DEF CallOK
    <2>6. CallsOK'
        BY <1>3, <1>9, <2>1, <2>5, OneCallOnly
    <2> QED BY <2>6, CallFrame DEF Try, Hold, JustInv, SessionOK
<1> QED BY <1>13, <1>14

\* One more forward.
LEMMA OneMore ==
    ASSUME NEW t \in Seq(TriedSet), NEW x \in TriedSet
    PROVE  /\ Append(t, x) \in Seq(TriedSet) /\ Append(t, x) # <<>>
           /\ Len(Append(t, x)) = Len(t) + 1
           /\ \A i \in 1..Len(t) : Append(t, x)[i] = t[i]
           /\ Append(t, x)[Len(Append(t, x))] = x
OBVIOUS

\* An upstream answers.
LEMMA ForwardJust ==
    ASSUME JustInv, NEW c \in Calls, NEW outcome \in Outcomes, Forward(c, outcome)
    PROVE  JustInv'
<1> DEFINE r == call[c]
           t == tried[c]
           m == r.candidates[r.index]
           x == [model |-> m, provider |-> r.provider, outcome |-> outcome]
           u == Append(t, x)
           ok == [r EXCEPT !.pc = "answered", !.answer = "ok", !.usedFallback = r.index > 1]
           failed == [r EXCEPT !.last = Note(outcome)]
           ended == [failed EXCEPT !.pc = "answered", !.answer = Failure(failed.last)]
           keys == credentials \cup removed
           hasMore == r.index < Len(r.candidates)
<1>1. /\ r \in CallSet /\ CallOK(r, t, keys, removed) /\ r.pc = "forward" /\ t \in Seq(TriedSet)
      /\ CallsOK /\ UNCHANGED <<settings, session, credentials, removed>>
      /\ tried' = [tried EXCEPT ![c] = u]
    BY DEF JustInv, CallsOK, Forward, Hold, settings
<1>2. /\ Running(r, keys) /\ Failing(r, t, r.index - 1)
      /\ r.attempted = SubSeq(r.candidates, 1, r.index)
      /\ r.provider \in Providers
      /\ r.provider # ProviderOf[m] => ProviderOf[m] \in removed
    BY <1>1 DEF CallOK
<1>3. /\ r.candidates \in Seq(Models) /\ r.index \in 1..Len(r.candidates) /\ m \in Models
      /\ IsInjective(r.candidates) /\ Len(r.candidates) \in Nat
    BY <1>2 DEF Running, Distinct
<1>4. /\ x \in TriedSet /\ x.model = m /\ x.provider = r.provider /\ x.outcome = outcome
    BY <1>2, <1>3 DEF TriedSet
<1>5. \/ outcome = "ok" /\ call' = [call EXCEPT ![c] = ok]
      \/ outcome # "ok" /\ hasMore /\ isRetryableModelError(outcome)
         /\ call' = [call EXCEPT ![c] = Advance(failed)]
      \/ outcome # "ok" /\ ~(hasMore /\ isRetryableModelError(outcome)) /\ call' = [call EXCEPT ![c] = ended]
    <2>1. CASE outcome = "ok"
        BY <2>1 DEF Forward
    <2>2. CASE outcome # "ok" /\ hasMore /\ isRetryableModelError(outcome)
        BY <2>2 DEF Forward, Note
    <2>3. CASE outcome # "ok" /\ ~(hasMore /\ isRetryableModelError(outcome))
        BY <2>3 DEF Forward, Note
    <2> QED BY <2>1, <2>2, <2>3
<1>6. broken' \subseteq Providers /\ writers' \subseteq Models
    BY <1>2, <1>3 DEF Forward, JustInv, SessionOK
<1> HIDE DEF x, u
<1>7. /\ u \in Seq(TriedSet) /\ u # <<>> /\ Len(u) = Len(t) + 1 /\ Len(t) \in Nat
      /\ \A i \in 1..Len(t) : u[i] = t[i]
      /\ u[Len(u)] = x
    BY <1>1, <1>4, OneMore DEF u
\* The model had not been tried.
<1>8. \A i \in 1..Len(t) : t[i].model # m
    <2> SUFFICES ASSUME NEW i \in 1..Len(t), t[i].model = m PROVE FALSE
        OBVIOUS
    <2>1. PICK k \in 1..(r.index - 1) : t[i].model = r.candidates[k]
        BY <1>2 DEF Failing
    <2>2. k \in DOMAIN r.candidates /\ r.index \in DOMAIN r.candidates /\ k # r.index
        BY <1>3
    <2> QED BY <1>3, <2>1, <2>2 DEF IsInjective
<1>9. DistinctModels(u)
    <2> SUFFICES ASSUME NEW i \in 1..Len(u), NEW j \in 1..Len(u), i < j
                 PROVE  u[i].model # u[j].model
        BY <1>7 DEF DistinctModels
    <2>1. i \in 1..Len(t)
        BY <1>7
    <2>2. CASE j = Len(u)
        BY <1>4, <1>7, <1>8, <2>1, <2>2
    <2>3. CASE j # Len(u)
        <3>1. j \in 1..Len(t)
            BY <1>7, <2>3
        <3> QED BY <1>2, <1>7, <2>1, <3>1 DEF Failing, DistinctModels
    <2> QED BY <2>2, <2>3
<1>10. \A i \in 1..(Len(u) - 1) : isRetryableModelError(u[i].outcome)
    <2>1. Len(u) - 1 = Len(t)
        BY <1>7
    <2> QED BY <1>2, <1>7, <2>1 DEF Failing
<1>11. IsPrefix(r.attempted, r.candidates)
    BY <1>2, <1>3, CutIsPrefix
<1>12. CASE outcome = "ok" /\ call' = [call EXCEPT ![c] = ok]
    <2>1. ok \in CallSet
        <3> DEFINE later == r.index > 1
        <3>1. later \in BOOLEAN
            BY <1>3
        <3> HIDE DEF later
        <3>2. [r EXCEPT !.pc = "answered", !.answer = "ok", !.usedFallback = later] \in CallSet
            BY <1>1, <3>1 DEF CallSet
        <3> QED BY <3>2 DEF later
    <2>2. /\ ok.pc = "answered" /\ ok.answer = "ok" /\ ok.candidates = r.candidates
          /\ ok.index = r.index /\ ok.attempted = r.attempted
        BY <1>1 DEF CallSet
    <2>3. ok.usedFallback = (r.index > 1)
        BY <1>1 DEF CallSet
    <2> HIDE DEF ok, r
    <2>4. (r.index > 1) = (m # r.candidates[1])
        <3>1. CASE r.index = 1
            BY <3>1
        <3>2. CASE r.index # 1
            <4>1. r.index > 1 /\ 1 \in DOMAIN r.candidates /\ r.index \in DOMAIN r.candidates
                BY <1>3, <3>2
            <4> QED BY <1>3, <3>2, <4>1 DEF IsInjective
        <3> QED BY <3>1, <3>2
    <2>5. Sound(ok, u, removed)
        <3>1. u[Len(u)].outcome = "ok" /\ u[Len(u)].model = m /\ u[Len(u)].provider = r.provider
            BY <1>4, <1>7, <1>12
        <3>2. ok.usedFallback = (u[Len(u)].model # ok.candidates[1])
            BY <2>2, <2>3, <2>4, <3>1
        <3> QED BY <1>2, <1>3, <1>7, <1>10, <2>2, <3>1, <3>2 DEF Sound
    <2>6. CallOK(ok, u, keys, removed)
        BY <1>2, <1>9, <1>11, <2>2, <2>5 DEF CallOK, Running
    <2>7. CallsOK'
        BY <1>1, <1>7, <1>12, <2>1, <2>6, OneCall
    <2> QED BY <1>1, <1>6, <2>7, CallFrame
<1>13. ASSUME outcome # "ok"
       PROVE  /\ failed \in CallSet /\ failed.pc = "forward" /\ failed.candidates = r.candidates
              /\ failed.index = r.index /\ failed.attempted = r.attempted /\ failed.answer = r.answer
              /\ failed.usedFallback = r.usedFallback /\ failed.last = Note(outcome)
    <2>1. Note(outcome) \in {"error", "response"}
        BY DEF Note
    <2> QED BY <1>1, <2>1 DEF CallSet
<1>14. CASE outcome # "ok" /\ hasMore /\ isRetryableModelError(outcome)
             /\ call' = [call EXCEPT ![c] = Advance(failed)]
    <2>1. Running(failed, keys)
        BY <1>2, <1>13, <1>14 DEF Running
    <2> HIDE DEF failed, r
    <2>2. Failing(failed, u, failed.index)
        <3>1. failed.answer = "none" /\ ~failed.usedFallback /\ failed.last = Note(u[Len(u)].outcome)
            BY <1>2, <1>4, <1>7, <1>13, <1>14 DEF Failing
        <3>2. ASSUME NEW i \in 1..Len(u)
              PROVE  /\ isRetryableModelError(u[i].outcome)
                     /\ \E k \in 1..failed.index : u[i].model = failed.candidates[k]
            <4>1. CASE i = Len(u)
                BY <1>3, <1>4, <1>7, <1>13, <1>14, <4>1
            <4>2. CASE i # Len(u)
                <5>1. i \in 1..Len(t) /\ u[i] = t[i]
                    BY <1>7, <4>2
                <5>2. PICK k \in 1..(r.index - 1) : t[i].model = r.candidates[k]
                    BY <1>2, <5>1 DEF Failing
                <5>3. k \in 1..failed.index
                    BY <1>3, <1>13, <1>14
                <5> QED BY <1>2, <1>13, <1>14, <5>1, <5>2, <5>3 DEF Failing
            <4> QED BY <4>1, <4>2
        <3> QED BY <1>7, <1>9, <3>1, <3>2 DEF Failing
    <2>3. Advance(failed) \in CallSet /\ CallOK(Advance(failed), u, keys, removed)
        <3>1. failed.attempted = SubSeq(failed.candidates, 1, failed.index)
            BY <1>2, <1>13, <1>14
        <3>2. failed \in CallSet /\ failed.pc \in {"try", "forward"} /\ u \in Seq(TriedSet)
            BY <1>7, <1>13, <1>14
        <3> HIDE DEF keys, u
        <3> QED BY <2>1, <2>2, <3>1, <3>2, AdvanceJust
    <2>4. CallsOK'
        BY <1>1, <1>7, <1>14, <2>3, OneCall
    <2> QED BY <1>1, <1>6, <2>4, CallFrame
<1>15. CASE outcome # "ok" /\ ~(hasMore /\ isRetryableModelError(outcome))
             /\ call' = [call EXCEPT ![c] = ended]
    <2> HIDE DEF failed
    <2>0. failed.last \in {"error", "response"}
        BY <1>13, <1>15 DEF Note
    <2>1. Failure(failed.last) \in {"upstream_failed", "response"}
          /\ (Failure(failed.last) = IF Note(outcome) = "error" THEN "upstream_failed" ELSE "response")
        BY <2>0, <1>13, <1>15 DEF Failure
    <2>2. ended \in CallSet
        BY <1>13, <1>15, <2>1 DEF CallSet
    <2>3. /\ ended.pc = "answered" /\ ended.candidates = failed.candidates
          /\ ended.attempted = failed.attempted /\ ended.answer = Failure(failed.last)
          /\ ended.usedFallback = failed.usedFallback
        BY <1>13, <1>15 DEF CallSet
    <2> HIDE DEF ended, r
    <2>4. Sound(ended, u, removed)
        <3>1. ended.answer # "ok" /\ ~ended.usedFallback
            BY <1>2, <1>13, <1>15, <2>1, <2>3 DEF Failing
        <3>2. ended.attempted # ended.candidates => ~isRetryableModelError(u[Len(u)].outcome)
            <4> SUFFICES ASSUME isRetryableModelError(outcome) PROVE ended.attempted = ended.candidates
                BY <1>4, <1>7
            <4>1. r.index = Len(r.candidates)
                BY <1>3, <1>15
            <4>2. SubSeq(r.candidates, 1, Len(r.candidates)) = r.candidates
                BY <1>3
            <4> QED BY <1>2, <1>13, <1>15, <2>3, <4>1, <4>2
        <3>3. ended.answer = IF Note(u[Len(u)].outcome) = "error" THEN "upstream_failed" ELSE "response"
            BY <1>4, <1>7, <2>1, <2>3
        <3> QED BY <1>7, <1>10, <3>1, <3>2, <3>3 DEF Sound
    <2>5. IsPrefix(ended.attempted, ended.candidates) /\ ended.candidates \in Distinct
        BY <1>2, <1>11, <1>13, <1>15, <2>3 DEF Running
    <2>6. CallOK(ended, u, keys, removed)
        BY <1>9, <2>3, <2>4, <2>5 DEF CallOK
    <2>7. CallsOK'
        BY <1>1, <1>7, <1>15, <2>2, <2>6, OneCall
    <2> QED BY <1>1, <1>6, <2>7, CallFrame
<1> QED BY <1>5, <1>12, <1>14, <1>15

\* The answer reaches the session.
LEMMA DeliverJust ==
    ASSUME JustInv, NEW c \in Calls, Deliver(c)
    PROVE  JustInv'
<1> DEFINE r == Delivered(call[c])
<1>1. call' = [call EXCEPT ![c] = r] /\ tried' = [tried EXCEPT ![c] = <<>>]
    BY DEF Deliver
<1>2. /\ call[c] \in CallSet /\ CallOK(call[c], tried[c], credentials \cup removed, removed) 
      /\ call[c].pc = "answered"
    BY DEF JustInv, CallsOK, Deliver
<1>3. r \in CallSet
    BY <1>2, IdleCall DEF Delivered, CallSet
<1>4. CallOK(r, <<>>, credentials \cup removed, removed)
    <2>1. /\ r.pc = "done" /\ r.candidates = <<>> /\ r.attempted = <<>> /\ r.index = 0
          /\ r.last = "none" /\ r.answer = "none" /\ ~r.usedFallback
        BY DEF Delivered, CallIdle
    <2> HIDE DEF r
    <2> QED BY <2>1 DEF CallOK, Untried
<1> HIDE DEF r
<1>5. <<>> \in Seq(TriedSet)
    OBVIOUS
<1>6. CallsOK'
    BY <1>1, <1>3, <1>4, <1>5, OneCall DEF Deliver, settings, JustInv
<1>7. sticky' \in Models \cup {None}
    <2>1. call[c].answer = "ok" => call[c].candidates[call[c].index] \in Models
        BY <1>2 DEF CallOK, Sound, Distinct
    <2> QED BY <2>1 DEF Deliver, JustInv, SessionOK
<1>8. SessionOK'
    BY <1>7 DEF Deliver, JustInv, SessionOK
<1>9. SettingsOK'
    BY DEF Deliver, settings, JustInv, SettingsOK, EditOK, Stored
<1> QED BY <1>6, <1>8, <1>9 DEF JustInv

\* Every step, whoever takes it.
LEMMA NextJust == JustInv /\ [Next]_vars => JustInv'
<1> SUFFICES ASSUME JustInv, [Next]_vars PROVE JustInv'
    OBVIOUS
<1>1. CASE UNCHANGED vars
    <2>1. CallsOK'
        BY <1>1, NoCall DEF vars, JustInv
    <2> QED BY <1>1, <2>1, CallFrame DEF vars, settings, session, JustInv, SessionOK
<1>2. ASSUME NEW s \in Tiers \cup Models, updateModelSelection(s) PROVE JustInv'
    <2>1. CallsOK'
        BY <1>2, NoCall DEF updateModelSelection, settings, JustInv
    <2>2. SessionOK'
        BY <1>2, ProxyAssumption DEF updateModelSelection, JustInv, SessionOK, Selections
    <2>3. SettingsOK'
        BY <1>2 DEF updateModelSelection, settings, JustInv, SettingsOK, EditOK, Stored
    <2> QED BY <2>1, <2>2, <2>3 DEF JustInv
<1>3. ASSUME NEW c \in Calls, (\E task \in Tasks : Start(c, task)) \/ Proxy(c) \/ Upstream(c)
      PROVE  JustInv'
    BY <1>3, StartJust, ResolveJust, StoreDefaultJust, FilterJust, TryJust, DeliverJust,
          ForwardJust
       DEF Proxy, Upstream
<1> QED BY <1>1, <1>2, <1>3, SettingsJust DEF Next

\* In every state, each call has attempted the first of its candidates in
\* order, each model at most once, and its answer, once there is one, is the
\* one that its forwards justify.
THEOREM ProxyIsJust == Spec => []ProxyInv
<1> QED BY InitJust, NextJust, JustInvImplies, PTL DEF Spec
=============================================================================
