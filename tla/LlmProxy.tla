------------------------------ MODULE LlmProxy ------------------------------
(***************************************************************************)
(* How an LLM request of a session finds a model: the user's model         *)
(* strategy and credentials on the server (settings-service.ts), the       *)
(* proxy that tries the candidates of a selection one after the other      *)
(* (model-resolution-service.ts, llm-proxy-orchestrator.ts), and the       *)
(* session's selection and its sticky model on the CLI (session-store.ts,  *)
(* muse-proxy-context.ts, llm-auth.ts).                                    *)
(*                                                                         *)
(* A selection is a tier or a model.  Texts, bodies, context windows and   *)
(* provider definitions other than the key are left out; every model is in *)
(* the catalogue and every provider has a base URL.                        *)
(***************************************************************************)
EXTENDS Integers, Sequences, FiniteSets, SequencesExt

CONSTANTS Providers, Models,
          ProviderOf,   \* the provider in each modelRef
          Tiers, DefaultTier,
          Strategies,   \* what the user may save as model strategy
          InitialKeys,  \* the sets of providers that may have a key at first
          Calls,        \* LLM requests of one session, numbered as sent
          Edits,        \* settings requests of its user
          MaxSwitches,  \* changes of the session's selection
          None

FollowChat == "follow_chat"
Selections == Tiers \cup Models
StrategySet == [pools : [Tiers -> Seq(Models)], chat : Selections,
                titleGeneration : Selections \cup {FollowChat}]

ASSUME ProxyAssumption ==
    /\ ProviderOf \in [Models -> Providers]
    /\ IsFiniteSet(Models)
    /\ Strategies \subseteq StrategySet
    /\ DefaultTier \in Tiers
    /\ InitialKeys \subseteq SUBSET Providers
    /\ Calls \subseteq Nat
    /\ Tiers \cap Models = {}
    /\ MaxSwitches \in Nat
    /\ None \notin Providers \cup Models \cup Tiers
    /\ FollowChat \notin Models

VARIABLES
    strategy,         \* the stored strategy, None before the first
    credentials,      \* providers with an API key
    defaultProvider,  \* column of user_settings
    broken,           \* authFailureMessages: providers shown as broken
    edit,             \* the settings request of each e \in Edits
    selection,        \* the session's modelSelection
    sticky,           \* the session's lastResolvedModelRef
    switches,         \* changes of the selection so far
    call,             \* the LLM request of each c \in Calls
    tried,            \* history: the forwards of each call until it is delivered
    writers,          \* history: models that have answered a chat request
    removed           \* history: providers whose key has been deleted

settings == <<strategy, credentials, defaultProvider, edit, removed>>
session  == <<selection, sticky, switches>>
vars == <<strategy, credentials, defaultProvider, broken, edit, selection, sticky,
          switches, call, tried, writers, removed>>

Tasks == {"chat", "titleGeneration"}

\* What an upstream may answer: success; a failure after which the next
\* model is tried, with or without a refusal of the key; one after which
\* it is not; and the same two of a fetch that throws.
Outcomes == {"ok", "retryable", "refused", "fatal", "throwsRetryable", "throwsFatal"}
isRetryableModelError(outcome) == outcome \in {"retryable", "refused", "throwsRetryable"}
-----------------------------------------------------------------------------
(* Strategies.                                                             *)

appendUniquePoolRefs(pool, refs) ==
    LET after[n \in 0..Len(refs)] ==
            IF n = 0 THEN pool
            ELSE IF Contains(after[n - 1], refs[n]) THEN after[n - 1]
            ELSE Append(after[n - 1], refs[n])
    IN  after[Len(refs)]
dedupeModelPoolRefs(refs) == appendUniquePoolRefs(<<>>, refs)

normalizeUpdateModelStrategy(s) ==
    [s EXCEPT !.pools = [t \in Tiers |-> dedupeModelPoolRefs(s.pools[t])]]
appendModelRefsToAllPools(s, refs) ==
    [s EXCEPT !.pools = [t \in Tiers |-> appendUniquePoolRefs(s.pools[t], refs)]]

expandModelSelection(s, pools) == IF s \in Models THEN <<s>> ELSE pools[s]

\* DEFAULT_MODEL_STRATEGY
DefaultStrategy ==
    [pools |-> [t \in Tiers |-> <<>>], chat |-> DefaultTier, titleGeneration |-> FollowChat]
migrateModelStrategyFromLegacy(stored) == IF stored = None THEN DefaultStrategy ELSE stored

ModelRefs(s) ==
    UNION {ToSet(s.pools[t]) : t \in Tiers} \cup ({s.chat, s.titleGeneration} \cap Models)

\* Faulty validateModelStrategyForUser: the routing is not looked at.
ValidatePools(s, configured) ==
    \A t \in Tiers : \A m \in ToSet(s.pools[t]) : ProviderOf[m] \in configured

validateModelStrategyForUser(s, configured) ==
    \A m \in ModelRefs(s) : ProviderOf[m] \in configured

deriveLegacyDefaultFromStrategy(s) ==
    LET refs == expandModelSelection(s.chat, s.pools)
    IN  IF refs = <<>> THEN None ELSE ProviderOf[Head(refs)]

persistModelStrategy(s) ==
    /\ strategy' = s
    /\ defaultProvider' = IF deriveLegacyDefaultFromStrategy(s) = None
                          THEN defaultProvider ELSE deriveLegacyDefaultFromStrategy(s)

\* Candidates of a task, for the selection in the request's header.
resolveTaskModelCandidates(task, s, header) ==
    LET chatSelection == IF header # None THEN header ELSE s.chat
        taskSelection == IF task = "chat" \/ s.titleGeneration = FollowChat
                         THEN chatSelection ELSE s.titleGeneration
    IN  expandModelSelection(taskSelection, s.pools)

\* Array.filter, by membership in a set.
filter(refs, S) ==
    LET kept[n \in 0..Len(refs)] ==
            IF n = 0 THEN <<>>
            ELSE IF refs[n] \in S THEN Append(kept[n - 1], refs[n]) ELSE kept[n - 1]
    IN  kept[Len(refs)]

reorderCandidatesWithPreference(candidates, preferred) ==
    IF Contains(candidates, preferred)
    THEN <<preferred>> \o filter(candidates, Models \ {preferred})
    ELSE candidates

\* ProviderResolver.resolve: the provider asked for, or else the default.
resolve(provider) ==
    IF provider \in credentials THEN provider
    ELSE IF defaultProvider \in credentials THEN defaultProvider ELSE None
-----------------------------------------------------------------------------
(* Requests to the settings service, from one await to the next.           *)

EditIdle == [pc |-> "idle", provider |-> None, next |-> None]
EditStep(e, pc) == edit' = [edit EXCEPT ![e].pc = pc]

saveProviderApiKey(e, p) ==
    /\ edit[e].pc = "idle"
    /\ edit' = [edit EXCEPT ![e] =
            [@ EXCEPT !.pc = IF p \in credentials THEN "replaceKey" ELSE "storeKey", !.provider = p]]
    /\ UNCHANGED <<strategy, credentials, defaultProvider, broken, session, call, tried, writers, removed>>

StoreKey(e) ==
    /\ edit[e].pc \in {"storeKey", "replaceKey"}
    /\ credentials' = credentials \cup {edit[e].provider}
    /\ broken' = broken \ {edit[e].provider}
    /\ EditStep(e, IF edit[e].pc = "storeKey" THEN "seed" ELSE "done")
    /\ UNCHANGED <<strategy, defaultProvider, session, call, tried, writers, removed>>

\* The models of a provider whose key is new go into every pool.
seedModelStrategyPoolsForProvider(e) ==
    /\ edit[e].pc = "seed"
    /\ LET refs == SetToSeq({m \in Models : ProviderOf[m] = edit[e].provider})
       IN  edit' = [edit EXCEPT ![e] =
                [@ EXCEPT !.pc = IF refs = <<>> THEN "done" ELSE "saveSeed",
                          !.next = appendModelRefsToAllPools(migrateModelStrategyFromLegacy(strategy), refs)]]
    /\ UNCHANGED <<strategy, credentials, defaultProvider, broken, session, call, tried, writers, removed>>

SaveSeed(e) ==
    /\ edit[e].pc = "saveSeed"
    /\ IF validateModelStrategyForUser(edit[e].next, credentials)
       THEN persistModelStrategy(edit[e].next) /\ EditStep(e, "done")
       ELSE EditStep(e, "failed") /\ UNCHANGED <<strategy, defaultProvider>>
    /\ UNCHANGED <<credentials, broken, session, call, tried, writers, removed>>

deleteProviderApiKey(e, p) ==
    /\ edit[e].pc = "idle"
    /\ credentials' = credentials \ {p}
    /\ broken' = broken \ {p}
    /\ removed' = removed \cup {p}
    /\ EditStep(e, "done")
    /\ UNCHANGED <<strategy, defaultProvider, session, call, tried, writers>>

updateModelStrategy(e, s) ==
    /\ edit[e].pc = "idle"
    /\ edit' = [edit EXCEPT ![e] =
            IF validateModelStrategyForUser(normalizeUpdateModelStrategy(s), credentials)
            THEN [@ EXCEPT !.pc = "save", !.next = normalizeUpdateModelStrategy(s)]
            ELSE [@ EXCEPT !.pc = "failed"]]
    /\ UNCHANGED <<strategy, credentials, defaultProvider, broken, session, call, tried, writers, removed>>

\* getModelStrategy of the settings page: the first read also stores.
getModelStrategy(e) ==
    /\ edit[e].pc = "idle"
    /\ strategy = None
    /\ edit' = [edit EXCEPT ![e] = [@ EXCEPT !.pc = "save", !.next = DefaultStrategy]]
    /\ UNCHANGED <<strategy, credentials, defaultProvider, broken, session, call, tried, writers, removed>>

SaveStrategy(e) ==
    /\ edit[e].pc = "save"
    /\ persistModelStrategy(edit[e].next)
    /\ EditStep(e, "done")
    /\ UNCHANGED <<credentials, broken, session, call, tried, writers, removed>>
-----------------------------------------------------------------------------
(* An LLM request, from the session through the proxy and back.            *)

CallIdle == [pc |-> "idle", task |-> "chat", selection |-> None, preferred |-> None,
             candidates |-> <<>>, index |-> 0, attempted |-> <<>>, provider |-> None,
             last |-> "none", answer |-> "none", usedFallback |-> FALSE]

Delivered(r) == [CallIdle EXCEPT !.pc = "done", !.task = r.task,
                                 !.selection = r.selection, !.preferred = r.preferred]

Hold == UNCHANGED <<settings, session>>

\* What the session's requests may carry: its selection and sticky model of
\* now or, for a later request of the same turn, those of its first, which
\* createHarnessWithEvents has fixed.
Headers(c, task) ==
    LET earlier == {d \in Calls : d < c /\ task = "chat" /\ call[d].task = "chat"}
        latest == {d \in earlier : \A b \in earlier : b <= d}
    IN  {[selection |-> selection, preferred |-> IF task = "chat" THEN sticky ELSE None]}
        \cup {[selection |-> call[d].selection, preferred |-> call[d].preferred] : d \in latest}

\* A session sends the requests of its turns one after the other, and those
\* for titles at any time.
Start(c, task) ==
    /\ call[c].pc = "idle"
    /\ \A d \in Calls :
        /\ d < c => call[d].pc # "idle"
        /\ task = "chat" /\ call[d].task = "chat" => call[d].pc \in {"idle", "done"}
    /\ \E h \in Headers(c, task) :
        call' = [call EXCEPT ![c] = [@ EXCEPT !.pc = "resolve", !.task = task,
                                              !.selection = h.selection, !.preferred = h.preferred]]
    /\ UNCHANGED <<settings, session, broken, tried, writers>>

\* getModelStrategy finds no strategy and stores the default.
StoreDefault(c) ==
    /\ call[c].pc = "storeDefault"
    /\ persistModelStrategy(DefaultStrategy)
    /\ call' = [call EXCEPT ![c] =
            [@ EXCEPT !.pc = "filter",
                      !.candidates = resolveTaskModelCandidates(call[c].task, DefaultStrategy, call[c].selection)]]
    /\ UNCHANGED <<credentials, edit, removed, broken, session, tried, writers>>

resolveCandidates(c) ==
    /\ call[c].pc = "resolve"
    /\ call' = [call EXCEPT ![c] =
            IF strategy = None THEN [@ EXCEPT !.pc = "storeDefault"]
            ELSE [@ EXCEPT !.pc = "filter",
                           !.candidates = resolveTaskModelCandidates(call[c].task, strategy, call[c].selection)]]
    /\ Hold /\ UNCHANGED <<broken, tried, writers>>

filterConfiguredCandidates(c) ==
    /\ call[c].pc = "filter"
    /\ LET kept == filter(call[c].candidates, {m \in Models : ProviderOf[m] \in credentials})
       IN  call' = [call EXCEPT ![c] =
                IF kept = <<>> THEN [@ EXCEPT !.pc = "answered", !.candidates = <<>>, !.answer = "pool_empty"]
                ELSE [@ EXCEPT !.pc = "try", !.index = 1,
                               !.candidates = reorderCandidatesWithPreference(kept, call[c].preferred)]]
    /\ Hold /\ UNCHANGED <<broken, tried, writers>>

\* The answer when the loop ends without success.
Failure(last) ==
    CASE last = "none" -> "pool_empty" [] last = "error" -> "upstream_failed" [] last = "response" -> "response"

\* The loop goes on to the next candidate, or ends.
Advance(r) ==
    IF r.index < Len(r.candidates)
    THEN [r EXCEPT !.pc = "try", !.index = @ + 1]
    ELSE [r EXCEPT !.pc = "answered", !.answer = Failure(r.last)]

\* Faulty Try: without a provider the loop goes round with the same index.
TrySkips(c) ==
    /\ call[c].pc = "try"
    /\ LET m == call[c].candidates[call[c].index]
           r == [call[c] EXCEPT !.attempted = Append(@, m), !.provider = resolve(ProviderOf[m])]
       IN  call' = [call EXCEPT ![c] = IF r.provider = None THEN @
                                       ELSE [r EXCEPT !.pc = "forward"]]
    /\ Hold /\ UNCHANGED <<broken, tried, writers>>

Try(c) ==
    /\ call[c].pc = "try"
    /\ LET m == call[c].candidates[call[c].index]
           r == [call[c] EXCEPT !.attempted = Append(@, m), !.provider = resolve(ProviderOf[m])]
       IN  call' = [call EXCEPT ![c] = IF r.provider = None THEN Advance(r)
                                       ELSE [r EXCEPT !.pc = "forward"]]
    /\ Hold /\ UNCHANGED <<broken, tried, writers>>

\* Faulty Forward: every failure leads to the next candidate.
ForwardRetriesAll(c, outcome) ==
    /\ call[c].pc = "forward"
    /\ call' = [call EXCEPT ![c] =
            IF outcome = "ok"
            THEN [@ EXCEPT !.pc = "answered", !.answer = "ok", !.usedFallback = call[c].index > 1]
            ELSE Advance([@ EXCEPT !.last = "response"])]
    /\ tried' = [tried EXCEPT ![c] =
            Append(@, [model |-> call[c].candidates[call[c].index], provider |-> call[c].provider,
                       outcome |-> outcome])]
    /\ Hold /\ UNCHANGED <<broken, writers>>

Forward(c, outcome) ==
    LET r == call[c]
        hasMore == r.index < Len(r.candidates)
        failed == [r EXCEPT !.last = IF outcome \in {"throwsRetryable", "throwsFatal"}
                                     THEN "error" ELSE "response"]
    IN  /\ r.pc = "forward"
        /\ call' = [call EXCEPT ![c] =
                CASE outcome = "ok" ->
                        [r EXCEPT !.pc = "answered", !.answer = "ok", !.usedFallback = r.index > 1]
                  [] outcome # "ok" /\ hasMore /\ isRetryableModelError(outcome) -> Advance(failed)
                  [] OTHER -> [failed EXCEPT !.pc = "answered", !.answer = Failure(failed.last)]]
        /\ broken' = IF outcome = "refused" /\ hasMore THEN broken \cup {r.provider} ELSE broken
        /\ tried' = [tried EXCEPT ![c] =
                Append(@, [model |-> r.candidates[r.index], provider |-> r.provider, outcome |-> outcome])]
        /\ writers' = IF outcome = "ok" /\ r.task = "chat"
                      THEN writers \cup {r.candidates[r.index]} ELSE writers
        /\ Hold

\* Faulty Deliver: titles change the session's model, too.
DeliverAny(c) ==
    /\ call[c].pc = "answered"
    /\ call' = [call EXCEPT ![c] = Delivered(@)]
    /\ tried' = [tried EXCEPT ![c] = <<>>]
    /\ sticky' = IF call[c].answer = "ok" THEN call[c].candidates[call[c].index] ELSE sticky
    /\ UNCHANGED <<settings, selection, switches, broken, writers>>

\* publishModelResolvedFromHeaders, when the answer reaches the CLI.
Deliver(c) ==
    /\ call[c].pc = "answered"
    /\ call' = [call EXCEPT ![c] = Delivered(@)]
    /\ tried' = [tried EXCEPT ![c] = <<>>]
    /\ sticky' = IF call[c].answer = "ok" /\ call[c].task = "chat"
                 THEN call[c].candidates[call[c].index] ELSE sticky
    /\ UNCHANGED <<settings, selection, switches, broken, writers>>

\* The session's selection changes; the sticky model is forgotten.
updateModelSelection(s) ==
    /\ switches < MaxSwitches
    /\ switches' = switches + 1
    /\ selection' = s
    /\ sticky' = None
    /\ UNCHANGED <<settings, broken, call, tried, writers>>
-----------------------------------------------------------------------------
\* The settings after the keys of a set of providers have been saved.
SetUp(keys) ==
    LET seeded == appendModelRefsToAllPools(DefaultStrategy, SetToSeq({m \in Models : ProviderOf[m] \in keys}))
    IN  /\ credentials = keys
        /\ strategy = IF keys = {} THEN None ELSE seeded
        /\ defaultProvider = deriveLegacyDefaultFromStrategy(seeded)

Init ==
    /\ \E keys \in InitialKeys : SetUp(keys)
    /\ broken = {}
    /\ edit = [e \in Edits |-> EditIdle]
    /\ selection = None /\ sticky = None /\ switches = 0
    /\ call = [c \in Calls |-> CallIdle]
    /\ tried = [c \in Calls |-> <<>>]
    /\ writers = {}
    /\ removed = {}

\* The server's own steps.
Proxy(c) ==
    \/ resolveCandidates(c)
    \/ StoreDefault(c)
    \/ filterConfiguredCandidates(c)
    \/ Try(c)
    \/ Deliver(c)
Upstream(c) == \E outcome \in Outcomes : Forward(c, outcome)

Next ==
    \/ \E e \in Edits :
        \/ \E p \in Providers : saveProviderApiKey(e, p) \/ deleteProviderApiKey(e, p)
        \/ \E s \in Strategies : updateModelStrategy(e, s)
        \/ getModelStrategy(e)
        \/ StoreKey(e) \/ seedModelStrategyPoolsForProvider(e) \/ SaveSeed(e) \/ SaveStrategy(e)
    \/ \E c \in Calls :
        \/ \E task \in Tasks : Start(c, task)
        \/ Proxy(c)
        \/ Upstream(c)
    \/ \E s \in Tiers \cup Models : updateModelSelection(s)

Fairness == \A c \in Calls : WF_vars(Proxy(c)) /\ WF_vars(Upstream(c))
Spec == Init /\ [][Next]_vars
FairSpec == Spec /\ Fairness
-----------------------------------------------------------------------------
(* Properties.                                                             *)

EditSet == [pc : {"idle", "replaceKey", "storeKey", "seed", "saveSeed", "save", "done", "failed"},
            provider : Providers \cup {None}, next : StrategySet \cup {None}]
CallSet == [pc : {"idle", "resolve", "storeDefault", "filter", "try", "forward", "answered", "done"},
            task : Tasks, selection : Selections \cup {None}, preferred : Models \cup {None},
            candidates : Seq(Models), index : Nat, attempted : Seq(Models),
            provider : Providers \cup {None}, last : {"none", "response", "error"},
            answer : {"none", "ok", "pool_empty", "response", "upstream_failed"},
            usedFallback : BOOLEAN]

TypeOK ==
    /\ strategy \in StrategySet \cup {None}
    /\ credentials \subseteq Providers /\ broken \subseteq Providers /\ removed \subseteq Providers
    /\ defaultProvider \in Providers \cup {None}
    /\ edit \in [Edits -> EditSet]
    /\ selection \in Selections \cup {None} /\ sticky \in Models \cup {None}
    /\ switches \in 0..MaxSwitches
    /\ call \in [Calls -> CallSet]
    /\ writers \subseteq Models
    /\ tried \in [Calls -> Seq([model : Models, provider : Providers, outcome : Outcomes])]

\* What a call has attempted is, in order, the first of its candidates, and
\* no model is a candidate twice, whatever the pools hold and the session
\* prefers: each model gets one chance (llm-proxy-orchestrator.ts,
\* model-strategy.ts).
AttemptsInOrder ==
    \A c \in Calls :
        /\ IsPrefix(call[c].attempted, call[c].candidates)
        /\ IsInjective(call[c].candidates)
        /\ \A i, j \in DOMAIN tried[c] : i # j => tried[c][i].model # tried[c][j].model

\* The session prefers only a model that has answered one of its chat
\* requests, never one that wrote a title or was tried in vain
\* (session-store.ts, updateLastResolvedModel).
StickyAnsweredChat == sticky # None => sticky \in writers

\* The answer of a call is the one its forwards justify: a success names
\* the model that answered, after every earlier candidate failed in a way
\* that the next one may cure, and says whether that was the first; a
\* failure means that the last forward failed for good or that there was
\* no candidate left (llm-proxy-orchestrator.ts, handleWithResolution).
AnswerJustified ==
    \A c \in Calls :
        LET r == call[c]
            t == tried[c]
            kind(outcome) == IF outcome \in {"throwsRetryable", "throwsFatal"} THEN "upstream_failed" ELSE "response"
        IN  r.pc = "answered" =>
                /\ \A i \in 1..(Len(t) - 1) : isRetryableModelError(t[i].outcome)
                /\ IF r.answer = "ok"
                   THEN /\ Last(t).outcome = "ok" /\ Last(t).model = r.candidates[r.index]
                        /\ r.attempted = SubSeq(r.candidates, 1, r.index)
                        /\ r.usedFallback = (Last(t).model # Head(r.candidates))
                        /\ Last(t).provider # ProviderOf[Last(t).model]
                               => ProviderOf[Last(t).model] \in removed
                   ELSE /\ ~r.usedFallback
                        /\ r.attempted # r.candidates => t # <<>> /\ ~isRetryableModelError(Last(t).outcome)
                        /\ r.answer = IF t = <<>> THEN "pool_empty" ELSE kind(Last(t).outcome)

\* The order of the attempts, and the answer they lead to.
ProxyInv == TypeOK /\ AttemptsInOrder /\ AnswerJustified

\* Every model of the stored strategy, in a pool or in the routing, is of
\* a provider with a key, unless the user deleted that key, in whatever
\* order requests are handled (model-strategy-io.ts, validateModelStrategyForUser).
PoolsConfigured ==
    strategy # None => \A m \in ModelRefs(strategy) : ProviderOf[m] \in credentials \cup removed

\* A request once sent is answered, whatever becomes of the keys and the
\* strategy in the meantime, if the upstreams answer.
CallsAnswered == \A c \in Calls : call[c].pc = "resolve" ~> call[c].pc = "done"
=============================================================================
