---------------------------- MODULE ProviderSettings ----------------------------
(***************************************************************************)
(* The providers page (packages/web/src/pages/settings/                    *)
(* providers-settings-page.tsx) and what the server keeps of a user's      *)
(* providers: rows of user_provider_config and keys of the credential      *)
(* store (server/src/services/settings-service.ts,                         *)
(* stores/provider-config-store.ts).                                       *)
(*                                                                         *)
(* A row has the base URL and the extra models, each a number with 0 for   *)
(* empty, and tells whether it names an API, as only the form of custom    *)
(* providers does.  The handlers of the page are tasks that run their      *)
(* requests one after another; a request takes up to two steps on the      *)
(* server, and its answer is handled later.  Each statement on the         *)
(* database is one step, and so is the read of a row with its update.      *)
(***************************************************************************)
EXTENDS Naturals, FiniteSets, Sequences

CONSTANTS Builtins, Customs,  \* provider ids
          Values,             \* contents of a field, with 0 for empty
          MaxHandlers,        \* bound on the handlers started
          NoId, NewId, NoRow

Providers == Builtins \cup Customs
\* A row of user_provider_config
Row == [baseUrl : Values, extraModels : Values, api : BOOLEAN]

\* What the constants must satisfy
ProvidersAssumption ==
  /\ Builtins \cap Customs = {} /\ {0, 1} \subseteq Values /\ NoRow \notin Row
  /\ NoId # NewId /\ {NoId, NewId} \cap Providers = {}

Advanced == [baseUrl : Values, extraModels : Values]
emptyProviderAdvanced == [baseUrl |-> 0, extraModels |-> 0]

VARIABLES
  rows, keys,                                \* the server
  config,                                    \* what the page last fetched
  apiKeyDrafts, advancedDrafts, expandedProviderId,
  customForm, expandedCustomId,
  busyKey,
  tasks,                                     \* the handlers, in the order of their start
  \* history: providers whose open form was edited, the forms opened on a page that
  \* was up to date, ids whose handlers failed or overlapped, the number of the
  \* fetch that was shown last, sent last, and sent last before a failure; the load is 1
  edited, fresh, troubled, shown, fetched, missed

server == <<rows, keys>>
forms == <<apiKeyDrafts, advancedDrafts, expandedProviderId, customForm, expandedCustomId>>
history == <<edited, fresh, troubled, shown, fetched, missed>>
vars == <<server, config, forms, busyKey, tasks, history>>

NotBusy == <<"none", NoId>>
emptyCustomForm == [id |-> NoId, content |-> 0, apiKey |-> FALSE]

Task(handler, id, request) ==
  [handler |-> handler, id |-> id, request |-> request, stage |-> "sent",
   content |-> emptyProviderAdvanced, rows |-> [p \in Providers |-> NoRow], keys |-> {}]

Done == [Task("none", NoId, "none") EXCEPT !.stage = "done"]

\* The page has loaded, and some providers are configured.
Init ==
  /\ \E b \in SUBSET Builtins, c \in SUBSET Customs :
       /\ rows = [p \in Providers |-> IF p \in b THEN [baseUrl |-> 1, extraModels |-> 0, api |-> FALSE]
                                     ELSE IF p \in c THEN [baseUrl |-> 1, extraModels |-> 1, api |-> TRUE] ELSE NoRow]
       /\ keys = b \cup c
  /\ config = [rows |-> rows, keys |-> keys]
  /\ apiKeyDrafts = [p \in Builtins |-> FALSE] /\ advancedDrafts = [p \in Builtins |-> emptyProviderAdvanced]
  /\ expandedProviderId = NoId /\ expandedCustomId = NoId /\ customForm = emptyCustomForm
  /\ busyKey = NotBusy /\ tasks = <<>>
  /\ edited = {} /\ fresh = {} /\ troubled = {}
  /\ shown = 1 /\ fetched = 1 /\ missed = 0

Running == {i \in DOMAIN tasks : tasks[i].stage # "done"}

-----------------------------------------------------------------------------
(* The user.  Bound: one form is open at a time, of a built-in or of a     *)
(* custom provider; their sections share the busy key and the refreshes.   *)

\* providerConfigToAdvanced
AdvancedOf(row) ==
  IF row = NoRow THEN emptyProviderAdvanced ELSE [baseUrl |-> row.baseUrl, extraModels |-> row.extraModels]

\* The page shows what the server has: nothing is under way, answers came in order, and no
\* request has failed since.
UpToDate == Running = {} /\ shown = fetched /\ missed < shown

\* Faulty toggleProvider: a draft that was dropped comes back.
ToggleKeepsDraft(p) ==
  /\ expandedCustomId = NoId
  /\ IF expandedProviderId = p
     THEN expandedProviderId' = NoId /\ UNCHANGED <<edited, fresh>>
     ELSE /\ expandedProviderId' = p
          /\ edited' = edited \ {p}
          /\ fresh' = IF UpToDate THEN fresh \cup {p} ELSE fresh \ {p}
  /\ UNCHANGED <<server, config, advancedDrafts, apiKeyDrafts, customForm, expandedCustomId, busyKey, tasks,
                 troubled, shown, fetched, missed>>

toggleProvider(p) ==
  /\ expandedCustomId = NoId
  /\ IF expandedProviderId = p
     THEN expandedProviderId' = NoId /\ UNCHANGED <<advancedDrafts, edited, fresh>>
     ELSE /\ expandedProviderId' = p
          /\ advancedDrafts' = [advancedDrafts EXCEPT ![p] = AdvancedOf(config.rows[p])]
          /\ edited' = edited \ {p}
          /\ fresh' = IF UpToDate THEN fresh \cup {p} ELSE fresh \ {p}
  /\ UNCHANGED <<server, config, apiKeyDrafts, customForm, expandedCustomId, busyKey, tasks,
                 troubled, shown, fetched, missed>>

\* Bound: the base URL stands for the fields that the user edits.
EditAdvanced(p) ==
  /\ expandedProviderId = p /\ p \notin edited
  /\ \E v \in Values \ {advancedDrafts[p].baseUrl} : advancedDrafts' = [advancedDrafts EXCEPT ![p].baseUrl = v]
  /\ edited' = edited \cup {p}
  /\ UNCHANGED <<server, config, apiKeyDrafts, expandedProviderId, customForm, expandedCustomId,
                 busyKey, tasks, fresh, troubled, shown, fetched, missed>>

TypeKey(p) ==
  /\ expandedProviderId = p /\ ~apiKeyDrafts[p]
  /\ apiKeyDrafts' = [apiKeyDrafts EXCEPT ![p] = TRUE]
  /\ UNCHANGED <<server, config, advancedDrafts, expandedProviderId, customForm, expandedCustomId,
                 busyKey, tasks, history>>

\* openAddCustomForm and toggleCustomProvider; the key is never sent to the page
OpenCustom ==
  /\ expandedProviderId = NoId
  /\ \/ expandedCustomId # NewId /\ expandedCustomId' = NewId /\ customForm' = emptyCustomForm
     \/ \E c \in Customs :
          /\ config.rows[c] # NoRow /\ expandedCustomId # c
          /\ expandedCustomId' = c
          /\ customForm' = [id |-> c, content |-> config.rows[c].baseUrl, apiKey |-> FALSE]
     \/ expandedCustomId \in Customs /\ expandedCustomId' = NoId /\ UNCHANGED customForm
  /\ UNCHANGED <<server, config, apiKeyDrafts, advancedDrafts, expandedProviderId, busyKey, tasks, history>>

\* Filling in a complete form; the id of a new provider may be any
FillCustom ==
  /\ expandedCustomId # NoId /\ ~customForm.apiKey
  /\ \E id \in (IF expandedCustomId = NewId THEN Providers ELSE {expandedCustomId}), v \in Values \ {0} :
       customForm' = [id |-> id, content |-> v, apiKey |-> TRUE]
  /\ UNCHANGED <<server, config, apiKeyDrafts, advancedDrafts, expandedProviderId, expandedCustomId,
                 busyKey, tasks, history>>

-----------------------------------------------------------------------------
(* The handlers.  A button is disabled by its own busy key only.           *)

resetCustomForm == expandedCustomId' = NoId /\ customForm' = emptyCustomForm

Start(task) ==
  /\ Len(tasks) < MaxHandlers
  /\ busyKey # <<task.handler, task.id>> /\ busyKey' = <<task.handler, task.id>>
  /\ tasks' = Append(tasks, task)
  /\ troubled' = IF \E i \in Running : tasks[i].id = task.id THEN troubled \cup {task.id} ELSE troubled
  /\ UNCHANGED <<server, config, forms, edited, fresh, shown, fetched, missed>>

handleSaveProvider(p) ==
  /\ expandedProviderId = p
  /\ Start([Task("save", p, IF apiKeyDrafts[p] THEN "key" ELSE "advanced") EXCEPT
              !.content = advancedDrafts[p]])

handleDeleteApiKey(p) ==
  /\ expandedProviderId = p /\ p \in config.keys
  /\ Start(Task("clear", p, "unkey"))

\* The busy key of a save names no provider.
handleSaveCustom ==
  /\ expandedCustomId # NoId /\ customForm.apiKey
  /\ busyKey[1] # "saveCustom"
  /\ Start([Task("saveCustom", customForm.id, "custom") EXCEPT
              !.content = [baseUrl |-> customForm.content, extraModels |-> customForm.content]])

handleDeleteCustom ==
  /\ expandedCustomId \in Customs
  /\ Start(Task("deleteCustom", expandedCustomId, "remove"))

-----------------------------------------------------------------------------
(* The server.                                                             *)

Served(i, stage) == tasks' = [tasks EXCEPT ![i].stage = stage]

\* pruneProvider
Pruned(row) == IF row.baseUrl = 0 /\ row.extraModels = 0 /\ ~row.api THEN NoRow ELSE row

\* upsertBuiltinAdvanced: the API of the row stays
UpsertAdvanced(p, content) ==
  rows' = [rows EXCEPT ![p] = Pruned([baseUrl |-> content.baseUrl, extraModels |-> content.extraModels,
                                      api |-> @ # NoRow /\ @.api])]

\* upsertCustom: the row of any provider, built in or not
UpsertCustom(p, content) ==
  rows' = [rows EXCEPT ![p] = [baseUrl |-> content.baseUrl, extraModels |-> content.extraModels, api |-> TRUE]]

\* saveProviderApiKey, saveBuiltinProviderAdvanced, deleteProviderApiKey,
\* saveCustomProvider, deleteCustomProvider and getProvidersConfig
Serve(i) ==
  LET task == tasks[i] p == task.id IN
  /\ \/ task.stage = "sent" /\ task.request = "key"
        /\ keys' = keys \cup {p} /\ Served(i, "answer") /\ UNCHANGED rows
     \/ task.stage = "sent" /\ task.request = "advanced"
        /\ UpsertAdvanced(p, task.content) /\ Served(i, "answer") /\ UNCHANGED keys
     \/ task.stage = "sent" /\ task.request = "unkey"
        /\ keys' = keys \ {p} /\ Served(i, "answer") /\ UNCHANGED rows
     \/ task.stage = "sent" /\ task.request = "custom"
        /\ UpsertCustom(p, task.content) /\ Served(i, "half") /\ UNCHANGED keys
     \/ task.stage = "half" /\ task.request = "custom"
        /\ keys' = keys \cup {p} /\ Served(i, "answer") /\ UNCHANGED rows
     \/ task.stage = "sent" /\ task.request = "remove"
        /\ rows' = [rows EXCEPT ![p] = NoRow] /\ Served(i, "half") /\ UNCHANGED keys
     \/ task.stage = "half" /\ task.request = "remove"
        /\ keys' = keys \ {p} /\ Served(i, "answer") /\ UNCHANGED rows
     \/ task.stage = "sent" /\ task.request = "fetch"
        /\ tasks' = [tasks EXCEPT ![i].stage = "half", ![i].rows = rows] /\ UNCHANGED server
     \/ task.stage = "half" /\ task.request = "fetch"
        /\ tasks' = [tasks EXCEPT ![i].stage = "answer", ![i].keys = keys] /\ UNCHANGED server
  /\ fresh' = {q \in fresh : rows'[q] = rows[q]}
  /\ UNCHANGED <<config, forms, busyKey, edited, troubled, shown, fetched, missed>>

-----------------------------------------------------------------------------
(* The answers.                                                            *)

Request(i, request) == tasks' = [tasks EXCEPT ![i].request = request, ![i].stage = "sent"]
Finish(i) == tasks' = [tasks EXCEPT ![i] = Done] /\ busyKey' = NotBusy

\* refreshConfig
Refresh(i) == Request(i, "fetch") /\ fetched' = i + 1 /\ UNCHANGED <<config, busyKey, shown>>

\* The key of a built-in provider was deleted.
AnswerClear(i) == Refresh(i) /\ UNCHANGED forms

AnswerKey(i) ==
  /\ apiKeyDrafts' = [apiKeyDrafts EXCEPT ![tasks[i].id] = FALSE]
  /\ Request(i, "advanced")
  /\ UNCHANGED <<advancedDrafts, expandedProviderId, customForm, expandedCustomId, config, busyKey, shown, fetched>>

\* Whichever form is open is closed.
AnswerAdvanced(i) ==
  /\ expandedProviderId' = NoId /\ Refresh(i)
  /\ UNCHANGED <<apiKeyDrafts, advancedDrafts, customForm, expandedCustomId>>

AnswerCustom(i) ==
  /\ resetCustomForm /\ Refresh(i)
  /\ UNCHANGED <<apiKeyDrafts, advancedDrafts, expandedProviderId>>

\* setConfig, also with an answer that is older than the one shown
AnswerFetch(i) ==
  /\ config' = [rows |-> tasks[i].rows, keys |-> tasks[i].keys] /\ shown' = i + 1
  /\ Finish(i)
  /\ UNCHANGED <<forms, fetched>>

Answer(i) ==
  /\ tasks[i].stage = "answer"
  /\ \/ tasks[i].request = "unkey" /\ AnswerClear(i)
     \/ tasks[i].request = "key" /\ AnswerKey(i)
     \/ tasks[i].request = "advanced" /\ AnswerAdvanced(i)
     \/ tasks[i].request \in {"custom", "remove"} /\ AnswerCustom(i)
     \/ tasks[i].request = "fetch" /\ AnswerFetch(i)
  /\ UNCHANGED <<server, edited, fresh, troubled, missed>>

\* A request fails: it was lost, or its answer, or the seeding of the pools has failed
\* after the key was stored.  The handler ends without the requests that were to follow.
Fail(i) ==
  /\ tasks[i].stage \in {"sent", "answer"}
  /\ Finish(i)
  /\ troubled' = troubled \cup {tasks[i].id} /\ missed' = fetched
  /\ UNCHANGED <<server, config, forms, edited, fresh, shown, fetched>>

User ==
  \/ OpenCustom \/ FillCustom \/ handleSaveCustom \/ handleDeleteCustom
  \/ \E p \in Builtins :
       \/ toggleProvider(p) \/ EditAdvanced(p) \/ TypeKey(p)
       \/ handleSaveProvider(p) \/ handleDeleteApiKey(p)

Next == User \/ \E i \in DOMAIN tasks : Serve(i) \/ Answer(i) \/ Fail(i)

Spec == Init /\ [][Next]_vars

-----------------------------------------------------------------------------

TypeOK ==
  /\ rows \in [Providers -> Row \cup {NoRow}]
  /\ keys \subseteq Providers
  /\ apiKeyDrafts \in [Builtins -> BOOLEAN] /\ advancedDrafts \in [Builtins -> Advanced]
  /\ expandedProviderId \in Builtins \cup {NoId} /\ expandedCustomId \in Customs \cup {NoId, NewId}

\* A quiet page shows what the server has, if the last answer was to the last fetch and no
\* request has failed since that was sent.
SettledPage == UpToDate => config = [rows |-> rows, keys |-> keys]

\* A form that was opened on such a page saves, besides the fields that were edited, what
\* the server has.
OnlyEditsAreSaved ==
  \A p \in fresh :
    /\ advancedDrafts[p].extraModels = AdvancedOf(rows[p]).extraModels
    /\ p \in edited \/ advancedDrafts[p].baseUrl = AdvancedOf(rows[p]).baseUrl

\* A custom provider has a row and a key or neither, once its handlers are done, unless
\* one has failed or two have overlapped.
CustomsAreWhole ==
  \A c \in Customs \ troubled : (\A i \in Running : tasks[i].id # c) => (rows[c] # NoRow <=> c \in keys)

ProvidersInv == TypeOK /\ SettledPage /\ OnlyEditsAreSaved /\ CustomsAreWhole
=============================================================================
