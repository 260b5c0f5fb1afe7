---------------------------- MODULE ModelSettings ----------------------------
(***************************************************************************)
(* The models page of the settings (models-settings-page.tsx and the form  *)
(* below it) and the model strategy that the server keeps of a user        *)
(* (settings-service.ts): the pools of the tiers and the selection of each *)
(* task.                                                                   *)
(*                                                                         *)
(* The page sends the whole strategy with every save: 600 ms after the     *)
(* last change of a pool, at once after a change of the routing, and when  *)
(* it is left before the 600 ms are over.  Saves and reads of the server   *)
(* are processed in any order.  The rivals of the page are the seeding of  *)
(* the pools when a provider is configured, reads of the strategy that     *)
(* find none and store the default one, and the route of older clients.    *)
(***************************************************************************)
EXTENDS Naturals, Sequences, FiniteSets, SequencesExt

CONSTANTS Models,       \* the models of all providers
          Tiers, DefaultTier,
          TaskFields,   \* TaskRoutingField
          Budgets,      \* bounds: edits, visits of the page and mishaps (a new token, a provider
                        \* configured or deleted, a request that fails), one record for each case
          FollowChat, None

\* ModelStrategy: a pool of each tier, into which no model is put twice, and the selection of each task
Pools == {q \in Seq(Models) : IsInjective(q)}
ModelStrategy == [pools : [Tiers -> Pools], routing : [TaskFields -> Tiers \cup Models \cup {FollowChat}]]

\* What the constants must satisfy
ModelSettingsAssumption ==
  /\ IsFiniteSet(Models) /\ DefaultTier \in Tiers /\ "chat" \in TaskFields
  /\ Tiers \cap Models = {} /\ {FollowChat, None} \cap (Tiers \cup Models) = {} /\ None \notin ModelStrategy

VARIABLES
  strategy,  \* server: the stored strategy, None before the first
  catalog,   \* server: the models of the configured providers
  seed,      \* server: what a seeding has read and the model it adds, or None
  reader,    \* another read of the strategy has found none
  mounted, options, draft,    \* the page; response.options, draft
  timer,     \* poolsSaveTimerRef: "none", "armed", or "spent" (cleared, the id still there)
  pendingPoolsSave,           \* pendingPoolsSaveRef
  load,      \* the GET of the current load effect
  puts,      \* the saves under way, in the order in which they were sent
  expelled,  \* a token refresh with a used refresh token is under way
  budget,    \* what is left of the bounds
  past       \* see the properties

server == <<strategy, catalog, seed, reader>>
page == <<mounted, options, draft, timer, pendingPoolsSave, load, expelled>>
vars == <<server, page, puts, budget, past>>

DEFAULT_MODEL_STRATEGY ==
  [pools |-> [t \in Tiers |-> <<>>],
   routing |-> [f \in TaskFields |-> IF f = "chat" THEN DefaultTier ELSE FollowChat]]

addPoolItem(items, m) == IF Contains(items, m) THEN items ELSE Append(items, m)
appendModelRefsToAllPools(s, m) == [s EXCEPT !.pools = [t \in Tiers |-> addPoolItem(@[t], m)]]

\* migrateModelStrategyFromLegacy, for a user without legacy settings
Stored == IF strategy = None THEN DEFAULT_MODEL_STRATEGY ELSE strategy

modelRefs(s) == UNION {ToSet(s.pools[t]) : t \in Tiers} \cup ({s.routing[f] : f \in TaskFields} \cap Models)

NoLoad == [step |-> "none", value |-> None, options |-> {}, crossed |-> FALSE]

\* The providers that were configured have put their models into every pool.
Init ==
  /\ \E c \in SUBSET Models :
       /\ catalog = c
       /\ strategy = IF c = {} THEN None
                     ELSE [DEFAULT_MODEL_STRATEGY EXCEPT !.pools = [t \in Tiers |-> SetToSeq(c)]]
  /\ seed = None /\ reader = FALSE
  /\ mounted = FALSE /\ options = {} /\ draft = None
  /\ timer = "none" /\ pendingPoolsSave = None
  /\ load = NoLoad /\ puts = <<>> /\ expelled = FALSE
  /\ budget \in Budgets
  /\ past = [wish |-> Stored, issued |-> 0, applied |-> 0, crossed |-> FALSE, rival |-> FALSE]

Spend(what) == budget[what] > 0 /\ budget' = [budget EXCEPT ![what] = @ - 1]

-----------------------------------------------------------------------------
(* The saves and the edits of the page. *)

Shown == mounted /\ draft # None /\ options # {}

\* past with one more save; puts with the save of s
Issued(p) == [p EXCEPT !.issued = @ + 1]
WithPut(s) == Append(puts, [no |-> past.issued + 1, value |-> s])

\* An edit that happens after the load was read makes its answer old.
Overtaken == load' = [load EXCEPT !.crossed = load.step = "answered"]

\* movePoolItem, removePoolItem, togglePoolItem
movePoolItem(items, from, to) == InsertAt(RemoveAt(items, from), to, items[from])
PoolChanges(items) ==
  {movePoolItem(items, i, j) : i, j \in DOMAIN items} \cup {RemoveAt(items, i) : i \in DOMAIN items}
    \cup {addPoolItem(items, m) : m \in options}

\* A drag, a removal or a click in the picker; schedulePoolsSave.
handlePoolsChange(t, pool) ==
  /\ Shown /\ Spend("edits") /\ pool # draft.pools[t]
  /\ draft' = [draft EXCEPT !.pools[t] = pool]
  /\ timer' = "armed" /\ pendingPoolsSave' = draft'
  /\ past' = [past EXCEPT !.wish.pools[t] = pool]
  /\ Overtaken
  /\ UNCHANGED <<server, mounted, options, puts, expelled>>

\* decodeModelSelection, decodeTaskModelSelection: what they do not return null for
Decodable(f) == Tiers \cup options \cup (IF f = "chat" THEN {} ELSE {FollowChat})

\* Faulty handleTaskRoutingChange: without cancelPendingPoolsSave.
RoutingKeepsTimer(f, v) ==
  /\ Shown /\ Spend("edits") /\ v \in Decodable(f)
  /\ draft' = [draft EXCEPT !.routing[f] = v]
  /\ puts' = WithPut(draft') /\ past' = Issued([past EXCEPT !.wish.routing[f] = v])
  /\ Overtaken
  /\ UNCHANGED <<server, mounted, options, timer, pendingPoolsSave, expelled>>

\* cancelPendingPoolsSave; persistStrategy of everything.
handleTaskRoutingChange(f, v) ==
  /\ Shown /\ Spend("edits") /\ v \in Decodable(f)
  /\ timer' = "none" /\ pendingPoolsSave' = None
  /\ draft' = [draft EXCEPT !.routing[f] = v]
  /\ puts' = WithPut(draft') /\ past' = Issued([past EXCEPT !.wish.routing[f] = v])
  /\ Overtaken
  /\ UNCHANGED <<server, mounted, options, expelled>>

\* The 600 ms are over.
TimerFires ==
  /\ timer = "armed" /\ timer' = "none" /\ pendingPoolsSave' = None
  /\ IF pendingPoolsSave = None THEN UNCHANGED <<puts, past>>
     ELSE puts' = WithPut(pendingPoolsSave) /\ past' = Issued(past)
  /\ UNCHANGED <<server, mounted, options, draft, load, expelled, budget>>

-----------------------------------------------------------------------------
(* The load and the cleanups of the page. *)

\* The page is opened; what the user means from now on is what is stored, unless saves
\* of an earlier visit are still under way.
Open ==
  /\ ~mounted /\ Spend("visits")
  /\ mounted' = TRUE /\ load' = [NoLoad EXCEPT !.step = "sent"]
  /\ past' = IF puts # <<>> THEN past
             ELSE [past EXCEPT !.wish = Stored, !.applied = past.issued, !.crossed = FALSE,
                               !.rival = seed # None \/ reader]
  /\ UNCHANGED <<server, options, draft, timer, pendingPoolsSave, puts, expelled>>

\* The cleanup on unmount: the last draft is saved if a timer was ever left behind.
Unmounted ==
  /\ mounted' = FALSE /\ options' = {} /\ draft' = None /\ load' = NoLoad
  /\ timer' = "none" /\ pendingPoolsSave' = None /\ expelled' = FALSE
  /\ IF timer = "none" THEN UNCHANGED <<puts, past>>
     ELSE puts' = WithPut(draft) /\ past' = Issued(past)

Leave == mounted /\ ~expelled /\ Unmounted /\ UNCHANGED <<server, budget>>

\* The access token was refreshed, by a save of the page or by another part of the client:
\* getValidAccessToken is a new function, and the effects that depend on it run again.
\* The cleanup asks the old function for a token, which refreshes with the used one.
TokenRefreshed ==
  /\ mounted /\ ~expelled /\ Spend("mishaps")
  /\ load' = [NoLoad EXCEPT !.step = "sent"]
  /\ pendingPoolsSave' = None
  /\ IF timer = "none" THEN UNCHANGED <<timer, expelled, past>>
     ELSE timer' = "spent" /\ expelled' = TRUE /\ past' = Issued(past)
  /\ UNCHANGED <<server, mounted, options, draft, puts>>

\* The server refuses the used refresh token: logout, and the login page.
LoggedOut == expelled /\ Unmounted /\ UNCHANGED <<server, budget>>

\* fetchModelStrategy failed; the screen stays.
LoadFails ==
  /\ load.step = "sent" /\ Spend("mishaps") /\ load' = NoLoad
  /\ UNCHANGED <<server, mounted, options, draft, timer, pendingPoolsSave, puts, expelled, past>>

\* applyResponse
LoadAnswered ==
  /\ load.step = "answered"
  /\ draft' = load.value /\ options' = load.options /\ load' = NoLoad
  /\ past' = [past EXCEPT !.crossed = @ \/ load.crossed]
  /\ UNCHANGED <<server, mounted, timer, pendingPoolsSave, puts, expelled, budget>>

-----------------------------------------------------------------------------
(* The server. *)

\* getModelStrategy: the options, then the row; what is answered if there is a row
ReadForPage ==
  /\ load.step = "sent"
  /\ load' = [step |-> IF strategy = None THEN "storing" ELSE "answered", value |-> Stored,
              options |-> catalog, crossed |-> timer = "armed" \/ past.applied # past.issued]
  /\ UNCHANGED <<server, mounted, options, draft, timer, pendingPoolsSave, puts, expelled, budget, past>>

\* It stores the default over what was stored meanwhile.
StoresDefault ==
  /\ strategy' = DEFAULT_MODEL_STRATEGY
  /\ past' = [past EXCEPT !.rival = @ \/ strategy # None]

StoreForPage ==
  /\ load.step = "storing" /\ load' = [load EXCEPT !.step = "answered"]
  /\ StoresDefault
  /\ UNCHANGED <<catalog, seed, reader, mounted, options, draft, timer, pendingPoolsSave, puts, expelled, budget>>

\* The chat page of another tab reads the strategy too.
ReadForChat ==
  /\ ~reader /\ strategy = None /\ reader' = TRUE
  /\ UNCHANGED <<strategy, catalog, seed, page, puts, budget, past>>

StoreForChat ==
  /\ reader /\ reader' = FALSE
  /\ StoresDefault
  /\ UNCHANGED <<catalog, seed, page, puts, budget>>

\* updateModelStrategy: a strategy with a model of a provider that is not configured is
\* refused.
Put(i) ==
  /\ modelRefs(puts[i].value) \subseteq catalog
  /\ strategy' = puts[i].value /\ puts' = RemoveAt(puts, i)
  /\ past' = [past EXCEPT !.applied = puts[i].no]
  /\ UNCHANGED <<catalog, seed, reader, page, budget>>

PutRefused(i) ==
  /\ ~modelRefs(puts[i].value) \subseteq catalog
  /\ puts' = RemoveAt(puts, i)
  /\ UNCHANGED <<server, page, budget, past>>

PutLost(i) ==
  /\ Spend("mishaps") /\ puts' = RemoveAt(puts, i)
  /\ UNCHANGED <<server, page, past>>

\* A provider is configured in another tab: seedModelStrategyPoolsForProvider reads the
\* strategy and stores it with the models of the provider.
SeedReads(m) ==
  /\ seed = None /\ m \notin catalog /\ Spend("mishaps")
  /\ catalog' = catalog \cup {m} /\ seed' = [value |-> Stored, base |-> strategy, model |-> m]
  /\ past' = [past EXCEPT !.rival = @ \/ mounted \/ puts # <<>>]
  /\ UNCHANGED <<strategy, reader, page, puts>>

Seeded == appendModelRefsToAllPools(seed.value, seed.model)

SeedStores ==
  /\ seed # None /\ seed' = None
  /\ modelRefs(Seeded) \subseteq catalog
  /\ strategy' = Seeded
  /\ past' = [past EXCEPT !.rival = @ \/ strategy # seed.base,
                          !.wish = appendModelRefsToAllPools(@, seed.model)]
  /\ UNCHANGED <<catalog, reader, page, puts, budget>>

\* The strategy still has models of a provider that is not configured any more.
SeedRefused ==
  /\ seed # None /\ seed' = None
  /\ ~modelRefs(Seeded) \subseteq catalog
  /\ UNCHANGED <<strategy, catalog, reader, page, puts, budget, past>>

\* updateModelsConfig, which the route of older clients calls: the default model becomes a
\* strategy of its own, in place of the one that is stored.
updateModelsConfig(m) ==
  /\ m \in catalog /\ Spend("mishaps")
  /\ strategy' = [DEFAULT_MODEL_STRATEGY EXCEPT !.pools[DefaultTier] = <<m>>, !.routing["chat"] = m]
  /\ past' = [past EXCEPT !.rival = TRUE]
  /\ UNCHANGED <<catalog, seed, reader, page, puts>>

\* The key of a provider is deleted: its models stay in the pools.
ProviderDeleted(m) ==
  /\ m \in catalog /\ seed = None /\ Spend("mishaps")
  /\ catalog' = catalog \ {m}
  /\ UNCHANGED <<strategy, seed, reader, page, puts, past>>

Page ==
  \/ Shown /\ \/ \E t \in Tiers : \E pool \in PoolChanges(draft.pools[t]) : handlePoolsChange(t, pool)
              \/ \E f \in TaskFields : \E v \in Decodable(f) : handleTaskRoutingChange(f, v)
  \/ TimerFires \/ Open \/ Leave \/ TokenRefreshed \/ LoggedOut \/ LoadFails \/ LoadAnswered

Server ==
  \/ ReadForPage \/ StoreForPage \/ ReadForChat \/ StoreForChat
  \/ \E i \in DOMAIN puts : Put(i) \/ PutRefused(i) \/ PutLost(i)
  \/ SeedStores \/ SeedRefused \/ \E m \in Models : SeedReads(m) \/ updateModelsConfig(m) \/ ProviderDeleted(m)

Next == Page \/ Server
Spec == Init /\ [][Next]_vars

-----------------------------------------------------------------------------
TypeOK ==
  /\ timer \in {"none", "armed", "spent"} /\ load.step \in {"none", "sent", "storing", "answered"}
  /\ mounted \in BOOLEAN /\ expelled \in BOOLEAN /\ reader \in BOOLEAN
  /\ catalog \subseteq Models /\ options \subseteq Models
  /\ {Stored, past.wish} \cup ({draft} \ {None}) \subseteq ModelStrategy

\* past.wish is the strategy that the user means: what was stored when the page was opened,
\* with every edit since.  past.crossed: a read of the page answered with a strategy that
\* the page was about to change; past.rival: another strategy was stored beside it.
Undisturbed == ~past.crossed /\ ~past.rival

\* The screen shows every edit; a save that waits carries all of them.
ScreenKeepsEdits ==
  Undisturbed /\ mounted /\ draft # None =>
    draft = past.wish /\ (timer = "armed" => pendingPoolsSave = draft)

\* When no save waits or is under way, and the save that was sent last was also processed
\* last, the server has every edit, whichever way the page was left.
EditsReachServer ==
  Undisturbed /\ timer # "armed" /\ puts = <<>> /\ past.applied = past.issued =>
    Stored = past.wish

\* The models page loses no edit, of a pool or of the routing, except to a read or a
\* rival that crosses it, or when its last save fails or is overtaken.
ModelSettingsInv == TypeOK /\ ScreenKeepsEdits /\ EditsReachServer
=============================================================================
