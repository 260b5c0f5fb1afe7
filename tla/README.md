# A TLA+ development of muse-ai

muse-ai is a local AI agent with a web front end. A **CLI daemon** (packages/cli, packages/core)
runs on the user's machine, keeps the sessions, runs the agent loop and its tools and answers
HTTP and SSE. A **web client** (packages/web) talks to the daemon directly. A **server**
(packages/server) keeps accounts, paired devices, provider credentials and model pools, and
proxies the daemon's LLM calls. Paths below are relative to `packages/`.

Everything runs on Node.js, so code between two awaits is atomic and the concurrency is the
interleaving of handlers, promise callbacks and streams **at their awaits**. Tests of such code
drive one order of events; the models here drive all of them.

## 1. Inventory

| Component (source) | State | Operations | Interacts with |
|---|---|---|---|
| Chat service (cli/src/daemon/chat-service.ts, server.ts) | `sessionChains`, `activeTurns`, `activeCompacts`, `compactingSessions`, `compactAbortRequested` | chat, steer / follow_up, compact, abort, delete; the turn and the compaction | session store, event hub, pi's harness, title service |
| Session event hub (cli/src/daemon/event-hub.ts) | `subscribers`: session → Map, `pendingEvents` | subscribe, unsubscribe, replay, publish | chat service, title service, proxy interceptor; SSE clients |
| File mutation queue (cli/src/tools/file-mutation-queue.ts, write.ts, edit.ts) | `fileMutationQueues`, `registrationQueue` | register, wait, release; write, edit | file system, bash tool |
| Tools (bash.ts, output-accumulator.ts, edit-diff.ts, grep.ts, find.ts, read.ts, ls.ts) | one call: process, pipes, timers, abort; a rolling buffer and a temporary file | spawn, collect, truncate, kill, settle; match and replace; page | the harness, the user's machine |
| Session store and registry (core/src/session-store.ts, session-registry.ts) | `entries`, `registryLoaded`; registry.json, a JSONL file per session | load, create, fork, delete, in-place updates, save | every HTTP handler, chat service, title service |
| Session tree (core/src/session-tree.ts, session-tree-utils.ts) | none: functions over a session's entries and its leaf | turn tree, branch, messages, navigation target | session store, web |
| Titles, model selection, metadata (session-title-service.ts, session-settings-service.ts, muse-proxy-context.ts) | `name`, `nameSource`, `modelSelection`, `lastResolvedModelRef` of an entry | title after a turn, rename, patch settings, sticky model from a response | session store, hub, server |
| Usage (core session-context-usage.ts, session-token-usage.ts; use-chat-session.ts) | none in the daemon; counters of the page | count a file; add a turn_end to loaded settings | session tree, web |
| LLM inspect (cli/src/llm-inspect, use-session-llm-inspect.ts) | one request and response per session, a dirty flag, two files; the panel's ETag | capture, flush, load, clear; poll | proxy interceptor, chat service |
| Model strategy and LLM proxy (core model-strategy.ts; server settings-service.ts, llm-proxy-orchestrator.ts, model-resolution-service.ts) | pools and routing, provider keys, provider health | save or delete a key, save the strategy; expand, filter, reorder by preference, try in turn | providers, daemon, settings pages |
| Market installer (cli/src/market) and agent registry (core/src/agent-registry.ts) | asset directories, installed.json, agents | install, update, uninstall, sync of the basic kit; list, resolve, create an agent | server market, chat service, market page |
| Devices (server device-service.ts; cli heartbeat.ts, device-event-hub.ts, pair.ts) | pairing codes and online keys with a TTL, device rows; config.json | pair, start, heartbeat, stop, go offline; device events | web |
| Accounts (server auth-service.ts, web use-auth.tsx) | refresh tokens, login in localStorage | login, refresh, logout | web, in several tabs |
| Web chat (use-chat-session.ts, chat-reducer.ts, cli-client.ts, sse-reconnect.ts, chat-model-picker.tsx) | messages, flags, settings, connection | connect, send, stop, compact, apply event, reconnect, refresh, select a model | daemon |
| Web pages (providers-settings-page.tsx, models-settings-page.tsx, device status, session list, use-chat-auto-scroll.ts) | drafts, timers, what was loaded; scroll marks | load, edit, save; open and close by themselves; follow the end | server, daemon |

What makes each of them correct, and what is hard about it:

- **Chat service.** One harness per session at any time; jobs in the order of acceptance; the stop
  button and the busy test always see the work there is, and nothing else; accepted work ends and
  its end is shown. Hard: no queue exists (a map holds the last promise only), finally callbacks
  run after the next job may have begun, an overflowing turn compacts inside its own job, every
  await can throw, and a deletion interleaves with all of it.
- **Event hub.** No duplicate, no lost event, publication order, a bounded buffer. Hard: a publish
  iterates over a Map *object* across awaits while clients come and go.
- **File queue and tools.** Callbacks on one file exclude each other and no edit is lost; a call
  returns when it is stopped or its process ends, with the process's outcome; what is cut off is
  announced. Hard: the key of a path depends on whether the file exists; exit, pipe ends, timers and
  abort come in any order; an edit is searched in one text and applied to another.
- **Session store and tree.** A session that was created stays listed, across restarts too, and
  listed sessions open; what the screen shows is what the next prompt continues. Hard: an unshared
  lazy load, overlapping saves, an exit between truncation and write; every operation appends to a
  file under the leaf that it has read before.
- **Metadata, usage, picker.** A manual name is never overwritten; every answer is counted once; the
  picker shows the model that is tried next. Hard: events, loads and answers to saves cross.
- **LLM proxy and settings.** A request is answered by the first of its candidates that can, or by the
  failure that ended the search; the strategy names configured providers; the settings pages lose
  no edit. Hard: keys, pools and selection change at every await of a request; a save is several
  requests, and every answer replaces what the page has.
- **Installer and registry.** What is registered is there; agents find persona and skills of one
  version. Hard: no lock, many small files, a process that is killed.
- **Devices and accounts.** A code pairs one device; a device whose daemon ended goes offline; nobody
  is logged out without a reason. Hard: several processes write one config.json, refresh tokens
  rotate among tabs, the last heartbeat races the first.
- **Web chat.** One subscription; a message reaches the session it was written for; when all is quiet
  the screen equals what the daemon stored; the scrolling follows those who want it to. Hard: late
  answers of the session before, buffered and replayed events, scroll events that do not say who
  scrolled.

Every place where the code is exposed is listed, with its line and the properties that cover it,
under `hazards` in PROJECT.json.

## 2. Modules

| Module | Models | Uses |
|---|---|---|
| `SerialExecutor` | abstract: what a per-key job queue promises, without a mechanism | |
| `SessionChains` | a map of tail promises and `previous.then(job)`; refines `SerialExecutor` | `SerialExecutor` |
| `ChatService` | chat-service.ts and the HTTP handlers of server.ts that call it | EXTENDS `SessionChains` |
| `FileMutationQueue` | file-mutation-queue.ts, write.ts, edit.ts | INSTANCE `SessionChains` with paths for sessions |
| `BashTool`, `OutputAccumulator` | bash.ts with shell-utils.ts; output-accumulator.ts with truncate.ts | |
| `EditTool` | edit.ts inside its queue, edit-diff.ts | |
| `SearchTools`, `ReadTools` | grep.ts, find.ts; read.ts, ls.ts, truncate.ts | |
| `SessionEventHub` | event-hub.ts | |
| `SessionRegistry` | session-store.ts, session-registry.ts | |
| `SessionTree` | session-tree.ts, session-tree-utils.ts, navigation and level changes beside a turn | |
| `SessionTitles` | session-title-service.ts and renames | |
| `SessionUsage` | session-context-usage.ts, session-token-usage.ts, the durations of session-tree.ts, and the page's counting | |
| `AssistantReply` | chat-reducer.ts and assistant-message-helpers.ts against session-tree.ts's `mapBranchMessages` | |
| `LlmInspect` | llm-inspect-buffer.ts, llm-inspect-store.ts and the panel's polling | |
| `ModelPicker` | the selection of a session, the model that answered last, and what the page shows of them | |
| `LlmProxy` | settings-service.ts (keys, strategy), model-resolution-service.ts, llm-proxy-orchestrator.ts, provider-resolver.ts | |
| `ProviderSettings`, `ModelSettings` | the providers page and the models page with the server's side of each | |
| `SettingsPages` | the two pages side by side, and what both keep | instances of both |
| `MarketInstaller` | market-installer.ts, install-musepack-assets.ts, basic-kit-sync.ts and the market page | |
| `AgentRegistry` | agent-registry.ts, read file by file beside one operation of the installer | |
| `Accounts` | auth-service.ts, use-auth.tsx | |
| `DeviceDirectory` | device-service.ts, pair.ts, config.json, heartbeat.ts, devices-page.tsx | |
| `DeviceLink` | device-event-hub.ts, subscribeDeviceEvents, the status panel, use-session-list.ts | |
| `SessionFiles` | the registry, the names, the captured calls and the picker side by side, and what the page shows of them | EXTENDS `SessionRegistry`, instances of `SessionTitles`, `LlmInspect`, `ModelPicker` |
| `WebChat` | use-chat-session.ts with the stream of cli-client.ts, against what a client sees of a daemon | |
| `AutoScroll` | use-chat-auto-scroll.ts, smooth-scroll.ts | |
| `X_proofs` | theorems and proofs about X; `Identity_proofs` about `Accounts`, `DeviceDirectory` and `DeviceLink`, `Daemon_proofs` about `SessionEventHub` and `MarketInstaller`, `WebChat_proofs` also about `AutoScroll` and `SettingsPages`, `SessionRegistry_proofs` about the parts of `SessionFiles` and `AgentRegistry` | EXTENDS X, TLAPS |
| `MCX` | instances for TLC | EXTENDS or INSTANCE |

`PROJECT.json` maps each definition to the source lines it stands for.

**Composition.** Modules that interact are composed where a property needs both sides: the chain in
the chat service and in the file queue; the reply's two folds; daemon and page in `WebChat`, `DeviceLink`,
`SessionUsage`, `ModelPicker`, `LlmInspect` and `ModelSettings`; server, machine and page in
`DeviceDirectory`; installer and reader in `AgentRegistry`. `MCIdentity`, `MCHistory`, `MCToolCalls`,
`MCWebChat`, `MCMarket` and `SessionFiles` instead put models that share *no* state into one run: a variable
`part` is fixed by the initial state and says which of them takes steps. Their state space is the sum, not the
product, of those of the parts. `SessionFiles` is no MC module since two theorems are about it: a step
of one part leaves the variables of the others, so that what is inductive for a part is so for the composition.

### Correspondence

An action is the code from one await (or callback) to the next. History variables, named in each
module, are read by properties and never by an action that models code. Definitions whose comment begins with "Faulty" are
variants of the definition that follows them, as a plausible bug would have it. PROJECT.json pairs
each property with one under which TLC finds it violated. They are part of no specification.

**SessionChains.** `sessionChains[s]` is the map entry, `previous[j]` the promise that job j was
chained after, `promise[j]` the state of the promise the map holds (created, function called,
resolved, finally callback run). `Schedule` is get / then / set without an await in between,
`Run` the `.then` reaction, `Settle` the end of the job including its catch, `Forget` the finally
callback with its test `get(s) === next`. `accepted` is a history variable. It is what the
refinement to `SerialExecutor` maps.

**ChatService.** `step[r]` names the await at which the job of request r is. The runtime in
`activeTurns[s]` / `activeCompacts[s]` is named by its job. `request[r]` is the HTTP handler:
`Receive` is the existence test, then one of `enqueue`, `enqueueFails`, `enqueueCompact`,
`handleSteerOrFollowUp`. `steer` and `follow_up` differ only in the harness method they call, so the
model has one kind for both. `Deletion` is split at its awaits (`DeleteAccepted`, `DeleteFile`,
`DeleteEntry`, `DeleteEvict`, `DeleteFails`). `shownStreaming` and `shownCompacting` are what a client
displays after every event published so far. The harness is external: prompt may go through
agent_start and agent_end and then resolve, with or without a context overflow, or reject at any
moment before; compact resolves or rejects; both may go on for ever unless aborted; steer is
accepted while the agent loop runs and refused afterwards. `crashed` is the end of the process on
an unhandled rejection. `Faults` says which awaits may throw.

**SessionEventHub.** One session, since sessions share nothing. Map objects are first-class:
`current` is the one in `subscribers`, `members[m]` its entries, `publishing[p].map` the one that a
publish holds across its awaits, visited live in insertion order as a JS iterator does. A
connection is `open`, `closing` (the stream is gone, the AbortSignal has not fired; writes are
swallowed or throw) or `aborted`.

**FileMutationQueue.** `Real[p]` is the realpath of p once its file exists; `exists` is the file
system; `content[f]` is the set of calls whose change f contains, so that an edit writes back what
it read plus its own change. `Remove` is another tool, which does not use the queue.

**BashTool** has the shell, the background processes that hold its pipes (`holders`) or have left its group
(`strays`), the chunks in the pipes, the grace timer after the exit, the timeout and the abort. **OutputAccumulator**
appends chunks of any size; its text is made of newlines and of one other character. **EditTool** has letters in a plain and in a typographic form,
blanks, CR and LF, which is what normalisation tells apart. **SearchTools** has the spawned process, what it
would print, the limits in matches and bytes, and the kill. **ReadTools** follows the offsets that read names.

**SessionRegistry.** The array `this.entries` is replaced by a load and by a delete, and pushed into
by create and fork; a save holds the array it was called with until JSON.stringify. `sharing` are
the saves holding the current array, `held[o]` is what another call holds. registry.json is
`absent`, `valid` or `torn`. `damage` is a history variable of the events under which the
guarantees are not given: two loads in one life, two saves at once, a save that failed, an exit in
the middle of a write.

**SessionTree.** `file` is the sequence of entries, each with its parent; a turn, a level change and a
navigation each open the file, and append under the leaf they have read. **SessionTitles.** A name is the
task that gave it. **SessionUsage.** An estimate is kept as what it is made of: the answer whose usage is taken and
the messages after it. **LlmInspect.** A snapshot is the pair of the times at which its request and its response
were captured.

**AssistantReply.** One action is one harness event with everything it does to both sides: `log`, the
branch that the session stores, and `shown`, the messages of the web client after the SSE event that
harness-events.ts makes of it. A delta of text is a number; a tool's result is its call's number,
`None` before, `Interrupted` for the client's `toolStopped`. Durations are reduced to whether a thinking block is still open,
the stored turn's `toolCalls` and `toolCallLocations` to the tools inside the blocks. Blank deltas, which neither side
keeps, are left out. Stop is enabled while `isStreaming`, so that a steering message at the end of the screen hides it, as
`canStop` does. `StreamEqualsReload` is stated for replies whose calls come last in each message and were all answered;
messages that end up empty are compared after both sides have dropped them, and with a steering message only the order of
the contents is compared, since the stream keeps one message where the tree shows two.

**LlmProxy.** A selection is a tier or a model; `Strategies` is what the user may save. `edit[e]` is a
request to the settings service and `call[c]` an LLM request, each at one of its awaits: a strategy
read or computed before an await is held in `next`, the candidates in `candidates`, the provider
in `provider`. An upstream's answer is one of `Outcomes`: success, a response or a thrown error after which
the next model is tried or not, a refusal of the key. `Headers` are the selection and the sticky
model that a request carries: those of now or, later in a turn, those fixed at its beginning. A
session has one chat request at a time, and title requests beside it. All models are in the
catalogue and all providers have a base URL. `SetUp` starts the instance where some keys have been saved
already; the proof starts without keys. An abort by the caller is left out: fetch rejects with AbortError, which counts as
retryable, and the loop runs through its candidates without reaching any of them.

**ModelPicker.** The page leaves a session only when it has connected; attempts that overtake each other are
in WebChat. A GET and a PATCH are each processed and answered in steps of their own, and a PATCH reads
the settings again after its write, so that answers carry what was true then. **ProviderSettings.** Handlers
of the page are tasks that run their requests one after another; statements on the database are
atomic. **ModelSettings.** Saves and reads are processed in any order; the rivals of the page are the seeding, first reads and the old route.

**MarketInstaller** has several operations with installed.json and a directory per asset; **AgentRegistry**
has one operation at a time and looks inside the directories: `files[f]` is the version of file f, negative while it is incomplete.

**Accounts.** A token stands for the pair that is issued together; a caller of getValidAccessToken has the `auth` of one
render. `sent`, `stale` and `loggedOut` are history variables: the tokens that a tab has used, those that it used when they
were not its newest, and those with which it was logged out. **DeviceDirectory.** One machine; config.json is `absent`, a record or torn, read and written by every muse
process; `saved`, `chosen`, `mixed`, `shared` and `excused` are history variables of what was saved last and of the races
under which the guarantees are not given. **DeviceLink.** React's effects of one commit run child first, which decides what the panel sees.

**WebChat.** A connection attempt is a call of `connectSession` with its await in `step`; several can be under
way, and `cancelled` holds those that an effect's cleanup has told to stop. `sent`, `intended`, `reached`, `overlap`,
`outdated`, `shownLength`, `strayed` and `leftover` are history variables; `leftover` is a retry that has connected the page
to another session than the one whose messages it still shows. The daemon is its branch, its events and the hub's buffer. **AutoScroll.** Positions are screens; a frame dispatches
the scroll event, then runs callbacks, then the observers, as the HTML standard orders them.

## 3. Runs

All runs are expected to pass. Properties are named conjunctions; what they consist of:

| Run | Instance | Shows |
|---|---|---|
| chat_safety | 3 requests of any kind, 1 session, all faults, deletion | `ChatInv` (inductive), `ChatSafety` (`OneHarnessPerSession`, `OneRuntimePerSession`, `AbortReachesHarness`, `WorkMeansBusy`), `CrashNeedsDeletion` |
| chat_live | 2 requests, 2 sessions, one of them deletable, faults open and store | refinement of `SerialExecutor`; `EveryJobEnds` (`AcceptedJobEnds`, `CompactionEnds`), `AbortEndsWork`; `StatusIsReal` (`BusyMeansWork`, `CompactingIsReal`, `ReplyShownIsReal`, `SpinnerIsReal`) |
| event_hub | 2 clients, 2 publishers, 2 events each, buffer of 2 | `HubInv` (inductive; `NoDuplicates`, `PendingOrdered`, `PublishKeepsEvent`, `StayersServed`), `EventsArrive` |
| file_queue | 3 calls over a path, a link to it and another path | `QueueInv`, `ExclusivePerFile`, `NoLostEdit`, `CallsReturn`, `QueueIsSerial` |
| tool_calls | a bash call with 2 chunks per pipe; outputs of up to 11 characters with 2 lines and 2 bytes kept; edits of texts of 3 characters (6 with CRLF); searches with 3 results; files of 4 lines | `ShellInv` (of the output `ContentIsTail`, `FullOutputKept`; of the shell, inductive, `LastUpdateIsAnswer`, `NoOrphans`, `SuccessIsReal`, `WholeOutput`), `EditInv` (`DiffIsEdit`, `OnlyTheEdits`, `NoGuess`, `AllOrNothing`), `SearchInv` (`ListIsComplete`, `ListIsPrefix`, `StopIsHonoured`, `LimitIsNoFailure`, `PagesContinue`, `OffsetsLeadToTheEnd`, `ListingIsComplete`), `StoppedCallReturns` |
| session_files | 3 calls on 1 stored and 2 new sessions, 1 restart; 2 captures, 2 polls of 2 sessions, 1 restart; a picker over 2 sessions; 5 title jobs and requests | `RegistryInv` and `StoreAgrees` (inductive together; `CreatedSessionsKeptUndamaged`, `DiskMatchesMemory`, `ListedSessionsOpen`, `CreatorsAlone`, `UnlinkedForGood`, `OneSaver`), `TitlesInv` (inductive; `ManualStands`, `TitleFollowsReply`, `PublishedIsCurrent`), `ShownOfCalls` (inductive; `CleanIsSaved`, `DeletedIsGone`, `PanelIsTold`; `PickerTells`) |
| llm_proxy | 2 providers with a model each, no, one or both keys saved; 2 LLM requests, 1 settings request, 1 change of the selection | `ProxyInv` (`AttemptsInOrder`, `AnswerJustified`; follows from the inductive `JustInv` of the proofs), `StickyAnsweredChat`, `PoolsConfigured`, `CallsAnswered` |
| session_history | a reply of 4 parts, 3 messages, 1 steering message; a file of 7 entries with 2 moves; a branch of 5 entries | `ReplyInv` (`ReloadIsFaithful`, `StreamEqualsReload`), `TreeInv` (`TurnsNest`, `ShownIsContinued`, `ClickShowsTurn`, `ClickedIsShown`), `UsageInv` (`EveryAnswerCounts`, `Settles`, `ContextIsCurrent`, `DurationsFit`, `ReplyUsageAgrees`) |
| web_chat | 2 sessions, one created from the page, 2 connection attempts (3 in one combination of bounds), 2 refreshes, 2 prompts; 1 built-in and 1 custom provider; 2 models; 2 screens of content | `WebChatInv` (inductive; `OneSubscription`, `MessageReachesItsSession`, `AttemptsInOrder`, `ConnectedToRoute`, `PostedOnce`, `FirstMessageWaits`), `SettledScreen`, `ScrollInv` (`ReaderStays`, `FollowerFollows`), `SettingsInv` (providers page: `SettledPage`, `OnlyEditsAreSaved`, `CustomsAreWhole`; models page: `ScreenKeepsEdits`, `EditsReachServer`) |
| device_link | 3 streams, 2 list requests, up to 3 changes, faults and exits | `LinkInv` (inductive; `ListIsCurrent`, `ChangesReachList`, `OneReading`, `OneStream`, `FarewellIsTrue`, `OpenedByItself`, `AutoPanelCloses`), `LinkRecovers` |
| identity | 2 tabs with 2 callers and 3 token pairs; 1 code, 2 commands, 2 devices, 2 starts | `AccountsInv` (inductive; `LogoutHasReason`, `StoredIsGood`), `DirectoryInv` (inductive; `CodePairsOnce`, `ConfigKeepsSaved`, `StoppedIsOffline`, `OnlyDeviceAccepted`), `StoppedGoesOffline` |
| market | 2 packages of 2 versions, 2 operations; 1 package of 2 versions read by a call while 2 operations (or 1 that may be killed) replace it, or by 2 calls of which one creates an agent | `MarketInv` (`RegisteredIsThere`, `AgentsResolve`; follows from the inductive `MarketInd` of the proofs), `AgentRegistryInv` (`UndisturbedCalls`, `OneSeam`, `PromptsWhole`; follows from the inductive `AgentsInd` of the proofs) |

**Bounds.** Requests of different sessions meet only in the store, so one session is enough for the
chat service's safety. Three requests are the least with which one job can run, one wait and one
arrive, which is what the test in the finally callback is about. In the hub, a client that leaves
during a publish and one that comes are the two between which Map objects change, and a
buffer of 2 under up to 4 events overflows. In the file queue a plain path, an alias of the same
file and an unrelated one give each kind of key, and three calls again one of each state. In the
registry, two calls race and the third meets the outcome. In a reply, four deltas and calls
are enough for thinking, text, two parallel tools and a second message, and three messages for a
block that spans a message without content. In the proxy, two requests are the least of which one
sets the sticky model that the other prefers; two models of two providers give a fallback within a pool
and one to the default provider. A truncation is decided by the line or byte that is one too many, so that
limits of two are as good as the source's 2000 lines and 50 KB; seven entries are two turns with a
navigation and a level change between; an update that drops one of two skills shows every mixture.
Where several kinds of disturbance would multiply (`Budgets`, `Bounds`, `Limits`, `Case`), the instance takes a
set of combinations, each with enough of one kind and one or none of the others; the combinations are
listed with a comment in the MC modules. For the picker a change between two turns that both answer
was left to combinations in which one of them does, since the former alone doubles the run.
All bounds are CONSTANTs of the modules (`MaxParts`, `MaxMessages`, `MaxSteers`, `MaxSwitches`,
`MaxSent`, `MAX_PENDING_EVENTS`, `MaxCrashes`, `NSubs`, `MaxEntries`, `MaxMoves`, `Renames`, `MaxBranch`, `MaxLoads`,
`MaxText`, `MaxChunks`, `MaxFound`, `MaxLen`, `MaxHandlers`, `MaxHeight`, `MaxActs`, `MaxAges`, `MaxFaults`) or the sizes of
their sets; the source's MAX_PENDING_EVENTS is 200. Symmetry is used in chat_safety, session_files,
web_chat and market, which check only invariants. Deadlock is not checked: the requests, clients and calls are
finite and the system comes to rest when they are used up.

**Fairness.** Weak fairness on the daemon's own awaits: the event loop runs a reaction whose promise
has settled, and the file system and the SSE writes answer. Users owe nothing: no fairness on
requests, aborts, deletions, connections. The harness owes nothing either, except that one which
was told to abort stops (pi's AbortController). So `AbortEndsWork` holds of a harness that would
have gone on for ever, while `AcceptedJobEnds` and `CompactionEnds` carry the premise
`HarnessesAnswer` (LLM calls and tools end by themselves). `CallsAnswered` assumes that each upstream
answers or its fetch throws (there is no timeout in llm-proxy-service.ts). `EventsArrive` carries the premise that
no client leaves. `StoppedCallReturns` assumes that Node's timers fire and that a killed process ends, not that a command
does. `LinkRecovers` assumes the retry timers of the client and that a request is answered or fails.
`StoppedGoesOffline` assumes that the TTL of an online key runs out and that a request on its way arrives or is lost.

## 4. Proofs

TLAPS proves the following for every value of the constants. The assumptions are the named ASSUMEs of the modules, which
TLC evaluates on every instance, and where a theorem's module is instantiated rather than extended, the hypotheses of the
theorem. They say that `None` and its like are no member of the sets beside which they stand, that bounds are natural
numbers, and what the code's data are: `Real` is idempotent, tokens and streams are numbered from 1, each model has
one provider, a pool has a model and no tier is called like one, the buffer has room for an event, and a package's assets
carry its id (`MarketAssumption`), so that no asset belongs to two packages.

- **SessionChains_proofs.** `ChainInvariant`: `ChainInv` is inductive. That a session's jobs exclude
  each other does not follow from itself, because no queue is stored. The invariant reconstructs
  one: `HistoryOK` (each job is in its session's history exactly once), `LinksOK` (a waiting job was
  chained after its predecessor, or found the map empty when all predecessors had settled),
  `TailIsLast` (a map entry is the last of the history), `NoEntryMeansIdle` (no entry: all
  settled), and hence `SettledBefore` (a started job found every earlier one settled).
  `ChainExclusion` follows, and `ChainRefinement`: each step is a step of `SerialExecutor` or a stutter.
- **ChatService_proofs.** `ChatUsesChain`: every step of the chat service is a step of the chain, so
  that the invariant and the refinement are inherited (`ChatImplementsExecutor`). `ChatInvariant` adds
  to it what is needed about runtimes: `StepMatchesPromise` (a job is at an await exactly while its promise
  is running), `RuntimeOwned` (a runtime belongs to the running job of its session and to an await
  of the right kind), `AbortReachesHarness`. From these: `ChatOneHarness`, `ChatOneRuntime`,
  `ChatWorkMeansBusy`, `ChatAbortReaches`, together `ChatIsSafe`. `ChatReplyIsReal` and `ChatStatusIsReal` follow what
  clients were told: a reply that streams on a screen is one that the session's turn writes, and a busy, compacting or
  spinning session has work. The second has the premise that no creation of a harness fails (`"create" \notin Faults`), since
  runCompact marks the session before it creates one (finding 1). `ChatCrashNeedsDeletion`: the unhandled rejection of finding 2
  needs a deletion.
- **FileMutationQueue_proofs.** `QueueInvariant`: keys may change with the file system and the chain
  invariant still holds per key, because a call registers under one key and keeps it; `KeyExclusion`.
  `FileExclusion`: two callbacks on one file exclude each other if all its paths give the
  same key at all times (`FixedFile`). `EditsKeepChanges`, an action property, adds that what an edit has read is still what the
  file contains when it writes. `QueueImplementsExecutor`: the queue refines `SerialExecutor` on keys. `BashTellsTruth` is about
  `BashTool`: `BashInv` is inductive; it ties the outcome that a call will settle with to what the shell, its pipes and the
  timers have done so far.
- **SessionRegistry_proofs.** `RegistryStaysReadable`: `RegistryInv` is inductive with `CreatorsAlone` (what a call under way
  knows that nobody else does), `UnlinkedForGood` and `OneSaver` (saves exclude each other unless two overlapped).
  `StoreStaysInAgreement` is inductive relative to it: as long as `damage` is empty at most one save is under
  way, so that what it writes is what memory holds and the next life starts from that.
  `TitlesAreHonest` and `CallsAreShown` are about the specification of `SessionFiles`: an invariant of a part is inductive, and
  the steps of the others leave its variables alone. `LlmInspectInv` is inductive by four parts beside the properties: which
  buffers and directories a flush can rely on (`BuffersThere`); that a flush which nobody disturbs is the session's only one,
  works on a dirty buffer and writes what that buffer still holds (`FlushWritesBuffer`), which gives `CleanIsSaved`; that the time
  of a response identifies it among all that memory, files, answers and page keep (`TimesIdentify`), so that an ETag does; and
  that an answer on its way is right for the ETag with which it was asked (`TagsTell`), which gives `PanelIsTold`.
  `ModelPickerInv` needs what there is of sessions and requests (`SessionsThere`), that unless answers crossed the requests are
  those of the session on the screen (`RequestsInOrder`), that the model which answered last is one of the selection and the last
  one of the stream (`StreamsEndResolved`), and that a page whose stream holds no further model shows what will be
  tried (`PageFollows`). The last two hold but for the sessions in which a change of the selection raced with a turn.
  `AgentReadsAreJust` is about `AgentRegistry`, for any releases, skills, calls, operations and kills. `AgentsInd` says in which
  order an operation takes away and brings files unless one was killed (`OperationInOrder`), that a persona.json is complete only
  beside a whole prompt (`PersonaLast`), and that one call at most creates the user's agent (`OneCreates`). Of a call it says
  that it finds what remains to be read exactly when it had been there at the start (`Undisturbed`), that the disk is as
  it was while it has met no writer (`Unmet`), and where the one operation that it met has got to when it has read a new file
  (`OneMet`). The assumption is that no skill is called like another file of the registry.
- **Daemon_proofs.** `HubIsSafe`: `HubInv` is inductive. `DeliveryInv` follows each publish and each replay through the Map
  object that it holds: what it has still to visit, who has left since, and that a client which stays is in the current
  Map or in that of a publish that will reach it. `MarketIsWhole`: `MarketInv` holds by `MarketInd`. As long as no operation crashes
  or clashes, one operation works on a package (`OneWorker`) and its step says what is on the disk (`Expects`, `Brought`): all
  but what it has still to remove is gone, what it has placed is there. `OneWriter` makes installed.json follow
  the disk unless an entry was lost; `PersonaComes`, `RemovesKnown` and `UninstallsUnused` follow an agent's persona.
  Each action is first shown to have one of twelve shapes, then each part of the invariant is shown for the shapes.
- **Identity_proofs.** `AccountsAreSafe`: `AccountsInv` is inductive; its strengthening gives every refresh under way a reason
  (`RequestsHaveReason`) and every token a place. `DirectoryIsSafe`: rows in the order of their codes, what each command and
  each request on its way holds of config.json. `LinkIsSafe`: a change that was announced is coming (an event on a
  stream that is read), being read (a request that began after it) or was read; so a list at rest is the daemon's.
- **LlmProxy_proofs.** `PoolsStayConfigured`, for a user who starts without keys: a settings request
  that waits to store a strategy holds one that was validated (`EditsCovered`), and the set of keys that
  are or were there only grows, so that validation does not age. `StickyHasAnswered`: an
  undelivered success of a chat request names a model that has answered (`CallsJustified`). `ProxyIsJust`: attempts go
  through the candidates in order, each model once, and the answer is the one that the forwards justify. The candidates are
  built by recursive functions over pools; their properties (no model twice, only models of the pools) are
  proved by well-founded induction on lengths.
- **WebChat_proofs.** `WebChatIsSafe`: `WebChatInv` is inductive. Its parts say which attempts may still go on: those that were not
  cancelled are of the current route and come in order, the newest of them owns the subscription, a prompt is posted once,
  and the first message of a new chat waits for the attempt that will send it. `ScrollIsJust`, for content of any height, is
  about `AutoScroll`: `ScrollInd` adds that nothing which the code has begun can move who reads (`ReaderRests`), that a scroll
  event still to come is marked as the code's own (`EventIsMarked`), that one animation runs and ends before its mark, where the
  bottom is or a render will follow (`OneAnimation`), and that no animation means the end (`AtTheEnd`). Its proof found that a
  reader who is below the end of content that folds is moved there, once more for each fold.
  `SettingsAreKept` is about `SettingsPages`. For the providers page, `ProvidersInd` says that the fetch which was sent last
  reads what the server has, unless a handler is still changing something or one has failed since (`LastFetchIsFresh`), and
  that a custom provider is in the hands of one handler, which says whether its row and its key are there (`HandledAlone`).
  For the models page, `SettingsInd` says that the last save, of those under way and of those stored, has every edit
  (`LastPutHasAll`, `ServerHasAll`), that a read which nothing crossed brings what the user means (`LoadIsFresh`), and that a
  seeding stands on what it has read (`SeedIsAlone`). Both are for any number of handlers, edits, visits and failures; the
  assumptions are that the models are finitely many and that the absence of a row or of a strategy is none.

Several of these were not inductive as first stated; what had to be added is named in the modules and checked by
TLC in the runs of section 3. The inductive invariants of the proxy, of the market, of the agents, of the
scrolling and of the settings live in the proof modules.

Only model-checked: liveness (outside the prover's reach); `SettledScreen`, which
relates the screen to the branch through the merge of two sequences; and what depends on a computation over data rather than
on the order of steps, which needs induction over that data (`EditInv`, `SearchInv`, `ReplyInv`, `TreeInv`, `UsageInv`, the output
part of `ShellInv`).

## 5. What the models showed

Disagreements with the repository's own words; PROJECT.json quotes the lines under `findings`.

1. **A session that is busy for ever** (chat-service.ts:265-271). `runCompact` marks the session and
   creates the harness outside its try. If the agent, persona or skill is gone, the mark stays, and
   no compaction or deletion of that session is accepted again. In an overflow compaction
   compaction_end is never published either: the client's spinner stays.
2. **A deletion under a running harness** (server.ts:199-202): the busy test and the deletion are
   separated by awaits. A compaction that opens the deleted session afterwards throws
   ChatServiceError out of its catch (chat-service.ts:113) into an unhandled rejection, which ends
   the daemon. `CrashNeedsDeletion` shows that this needs the deletion.
3. **A connected client that gets no events** (event-hub.ts:95-97): a publish that waited for a
   client who left deletes the Map of the client who came (`LiveIsRegistered` fails).
4. **A created session that disappears** (session-store.ts:40-45): two first calls of a fresh daemon
   both load the registry, and the slower one discards what a create had pushed.
5. **A configured provider without models** (settings-service.ts:301-305): saving a key stores it
   and then seeds the pools, which validates the whole strategy. When the key of another provider
   in the pools has been deleted, the seeding fails; the next try succeeds, but the key is not new
   any more and nothing is seeded.
6. **A manual name that is overwritten** (session-title-service.ts:113): a title job tests
   `nameSource` before its LLM call and not again.
7. **A kit that can never be uninstalled** (uninstall-check.ts:6): the check counts the agents that
   the kit itself has brought; updates and syncs that drop an asset do not check at all.
8. **A panel that closes under the user's hands** (device-status-controller.tsx:60): the timer tests
   who opened the panel when it is set, not when it fires; and a short break of the stream opens it at once.
9. **A reply of another session** (use-chat-session.ts:519): when the page goes to another session and the health check
   fails, the messages stay; the retry button connects the page to the new session without clearing them, and
   merge-branch-messages.ts keeps the old session's streamed reply as the tail of the new session's branch.

Seen in the models; the properties exempt exactly these cases, by the history variables named in them:

*Daemon.*
- A replay takes the whole pending buffer before its first write, so that a client which leaves
  during it loses the rest (`BufferedKept` fails; event-hub.ts:59); a publish can write between two replayed
  events (`InOrder` fails; :25).
- A steer refused at the end of a turn publishes error and agent_end on its own; if the next turn has
  begun by then, its reply stops streaming on the screen while it is still being produced (chat-service.ts:202).
- Two paths of one file, one of them through a link, have different keys while the file does not
  exist (`ExclusivePerFile` without `FixedFile` fails; file-mutation-queue.ts:11-19).
- resolveParentTurnId stops at tool results, stats and level entries, so that the next turn can become a
  separate root. A level change or a navigation during a turn appends under a stale leaf, or is undone by
  the turn (server.ts:327 does not test busy); after navigating to the first question the screen and the
  continuation differ.
- Two title jobs both run, and the second overwrites the first.
- Durations and usage are paired by position with *all* answers of a branch (session-tree.ts:585-594, 642):
  after a compaction that cut answers off they stand below the wrong replies.
- A flush that runs after the removal of its directory throws into `void flush…` (chat-service.ts:359), an
  unhandled rejection. The inspect panel of one session can be overwritten by the late answer of
  another; its ETag names no session; a new request keeps the response of the old one.
- A turn resolves its agent twice (chat-service.ts:343-344), so that its system prompt and its tools can be
  of two versions; a context read during an update mixes them, old files first and new ones after. One torn
  agent.json, also of a killed createAgent, makes every turn and list fail.

*Tools.*
- A last line longer than the rolling buffer and then a newline are dropped as a whole ("(no output)").
- A command killed by a foreign signal (exit code null) counts as a success (bash.ts:213); one that has ended by itself
  is reported as timed out or aborted if that comes in the grace period; output unread when the
  grace timer fires is lost.
- One fuzzy edit normalises the whole file; overlapping occurrences count as one (edit-diff.ts); mixed line endings
  become those of the first; an abort after the write throws although the file has changed (edit.ts:140).
- find answers partial output without a notice when fd fails or is killed after printing (find.ts:149);
  an abort during grep's first await is lost (grep.ts:65).
- read with limit 0 names the same offset again; ls omits entries whose stat fails, silently.

*Server and settings pages.*
- A key deleted while a request runs: ProviderResolver falls back to the default provider, and an answer is reported
  under the candidate's name (provider-resolver.ts:43-46). A refusal of the key by the last candidate
  never marks the provider as broken (llm-proxy-orchestrator.ts:146-153).
- Reads of the strategy that find none, and seeds, write what they computed before their
  awaits: of two concurrent ones the later discards the earlier (settings-service.ts:117, 178).
- Providers page: a form opened on a stale config is saved back with its old fields; the end of one handler closes
  whatever form is open; `busyKey` holds one value, so saves overlap and an older fetch's late answer wins; a custom provider with
  a built-in's id overwrites its row.
- Models page: a token refresh runs the load effect again, whose GET can overtake the page's own PUT and
  put the old strategy on the screen; whole-config PUTs may be processed in another order; the
  cleanup asks the old getValidAccessToken, which refreshes with a used token and logs the user out;
  after the deletion of a key every save is refused until the provider's models are removed.

*Web client.*
- Overlapping connectSession calls go on after their awaits and write messages of another session; late tree answers
  overwrite the screen; `compacting` and `stopping` are not reset by a reconnection; a page that is loaded
  in the middle of a turn has no stop button; nor has one with a steering message at its end (chat-reducer.ts:119).
- A late connection attempt of the session before can make the page ready while its sessionId is still null: the effect
  clears the pending first message, sendMessage returns early, and the message is lost (use-chat-session.ts:821).
- The page counts a turn_end that was replayed, or delivered after the load that contains it,
  twice until agent_end; GET answers can overtake each other (use-chat-session.ts:282).
- Picker: an answer to PATCH is applied to whatever page is shown (use-chat-session.ts:751); a turn begun
  under an old selection writes its model as the sticky one of the new selection, and the picker then shows
  another model than the next turn tries.
- The session list can show a list read before a title that it has already patched (use-session-list.ts:78); a title event
  that arrives after another client's rename puts the old title back until the next read (use-chat-session.ts:391).
- Two tabs use the same refresh token; the loser logs out all of them. A reload during a
  refresh leaves a revoked token stored; a refresh that answers after a logout logs in again.
- `markProgrammaticScroll(0)` overwrites the deadline of a smooth scroll, whose later events then look like
  the reader's and end the following.
- Pairing: HEALTH asks for no token, so that after a second pairing the old device row still looks alive
  and its session's calls answer 401; a killed write tears config.json; two first starts can
  overwrite a fresh pairing.

## 6. Not modelled, and what is left

- Rendering, layout, wording, argument parsing and formats; database access of one row per request;
  the legacy proxy path of requests without a task header; registration and password rules.
- Fork in the web chat, previews and search of the tree, the diff that edit shows, images, the change of a session's agent.
- pi's harness and session files, Redis, the file system and the upstreams are external and modelled
  by what the code here observes of them.
- Left: proofs of `SettledScreen`, of the output, edit and search tools, and of the modules that are only
  model-checked (section 4); a composition of `WebChat` with the whole of `SessionEventHub` instead of its buffer, which
  is out of TLC's reach with the present bounds.
