---------------------------- MODULE SettingsPages ----------------------------
(***************************************************************************)
(* The settings of the web client: the page of the providers and that of   *)
(* the models.  They share no state: each has its part of the server's     *)
(* settings, and one of them is shown at a time.                           *)
(***************************************************************************)

CONSTANTS Builtins, Customs, Values, MaxHandlers, NoId, NewId, NoRow,
          Models, Tiers, DefaultTier, TaskFields, PageBudgets, FollowChat, NoStrategy

VARIABLES
    rows, keys, config, apiKeyDrafts, advancedDrafts, expandedProviderId, customForm,
    expandedCustomId, busyKey, tasks, edited, fresh, troubled, shown, fetched, missed,
    strategy, catalog, seed, reader, mounted, options, draft, timer, pendingPoolsSave,
    load, puts, expelled, spare, past

providerVars == <<rows, keys, config, apiKeyDrafts, advancedDrafts, expandedProviderId, customForm,
                  expandedCustomId, busyKey, tasks, edited, fresh, troubled, shown, fetched, missed>>
modelVars == <<strategy, catalog, seed, reader, mounted, options, draft, timer, pendingPoolsSave,
               load, puts, expelled, spare, past>>

P == INSTANCE ProviderSettings
M == INSTANCE ModelSettings WITH None <- NoStrategy, budget <- spare, Budgets <- PageBudgets

ASSUME PagesAssumption == P!ProvidersAssumption /\ M!ModelSettingsAssumption

\* The settings pages.  The providers page shows what the server has, saves what was edited and
\* no more, and leaves custom providers whole; the models page loses no edit, except to a
\* read, a rival or a failure that crosses it.
SettingsInv == P!ProvidersInv /\ M!ModelSettingsInv
=============================================================================
