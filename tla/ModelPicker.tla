------------------------------ MODULE ModelPicker ------------------------------
(***************************************************************************)
(* The model picker of the chat page: the selection of a session and the   *)
(* model that answered last, which the daemon keeps and sends with each    *)
(* turn (session-settings-service.ts, session-store.ts, llm-auth.ts,       *)
(* muse-proxy-context.ts), and what the page shows of them                 *)
(* (use-chat-session.ts, chat-model-picker.tsx, model-strategy-ui.ts).     *)
(*                                                                         *)
(* A selection is a tier or a model.  The strategy of the user and the     *)
(* catalogue do not change (ModelSettings), the stream of events does not  *)
(* break (SessionEventHub), and the page changes its route only when it    *)
(* has connected: connections that overtake each other are in WebChat.     *)
(***************************************************************************)
EXTENDS Naturals, Sequences, FiniteSets

CONSTANTS Sessions, Stored,
          Pools,       \* tier -> the sequence of its models
          Explicit,    \* models that are selected by themselves
          Default,     \* taskRouting.chat
          Budgets, None

Tiers == DOMAIN Pools
Selections == Tiers \cup Explicit
Elements(s) == {s[i] : i \in DOMAIN s}
Models == Explicit \cup UNION {Elements(Pools[t]) : t \in Tiers}

\* A session's entry in the registry, and an answer of SessionSettingsService
Metas == [selection : Selections \cup {None}, resolved : Models \cup {None}]
Answers == [id : Sessions, selection : Selections \cup {None}, modelRef : Models \cup {None}]

ModelPickerAssumption ==
    /\ Stored \subseteq Sessions /\ Default \in Selections
    /\ \A t \in Tiers : Pools[t] # <<>> /\ Pools[t] \in Seq(Models)
    /\ Tiers \cap Explicit = {} /\ {"start", "end"} \cap Models = {}
    /\ None \notin Sessions \cup Selections \cup Models \cup Metas \cup Answers
    /\ Budgets \subseteq [{"turns", "calls", "patches", "routes", "failures"} -> Nat]

VARIABLES
    meta,      \* session -> [selection, resolved], None if it does not exist
    turn,      \* session -> the turn that runs, see NoTurn
    stream,    \* session -> events for the page: a model, or "end"
    route,     \* the session of the page's route, None for a new chat
    status,    \* "idle", "checking", "connecting", "loaded" or "ready"
    settings,  \* sessionSettings: None or [id, selection, modelRef]
    display,   \* chatModelDisplay: the model of the last event, or None
    dedup,     \* lastModelResolvedDedupRef
    saving,    \* of the picker
    newChatDraft,
    requests,  \* GET and PATCH of settings under way
    budget,
    past       \* see the properties

vars == <<meta, turn, stream, route, status, settings, display, dedup, saving, newChatDraft, requests, budget, past>>

NoTurn == [selection |-> None, preferred |-> None, answered |-> None]

\* A page that shows a new chat; a stored session may have a selection of its own.
Init ==
    /\ meta \in [Sessions -> [selection : Selections \cup {None}, resolved : {None}] \cup {None}]
    /\ \A s \in Sessions : meta[s] = None <=> s \notin Stored
    /\ turn = [s \in Sessions |-> NoTurn] /\ stream = [s \in Sessions |-> <<>>]
    /\ route = None /\ status = "idle" /\ settings = None /\ display = None /\ dedup = None
    /\ saving = FALSE /\ newChatDraft = None /\ requests = {}
    /\ budget \in Budgets
    /\ past = [crossed |-> FALSE, raced |-> {}]

Spend(what) == budget[what] > 0 /\ budget' = [budget EXCEPT ![what] = @ - 1]

-----------------------------------------------------------------------------
(* What the picker shows. *)

\* expandModelSelection, for a selection that is there
Candidates(selection) == IF selection \in Tiers THEN Pools[selection] ELSE <<selection>>
Effective(selection) == IF selection = None THEN Default ELSE selection

\* resolveOptimisticModelRef, of a catalogue that has every model
resolveOptimisticModelRef(selection) == Candidates(selection)[1]

\* resolveDisplayModelRef: the event's model, the stored one if the tier has it, the first
resolveDisplayModelRef(selection, sse, persisted) ==
    IF sse # None THEN sse
    ELSE IF selection \in Tiers /\ persisted \in Elements(Pools[selection]) THEN persisted
    ELSE resolveOptimisticModelRef(selection)

Displayed == resolveDisplayModelRef(Effective(settings.selection), display, settings.modelRef)

\* What the server tries first in the next turn of s: reorderCandidatesWithPreference
FirstTried(s) ==
    LET candidates == Candidates(Effective(meta[s].selection)) IN
    IF meta[s].resolved \in Elements(candidates) THEN meta[s].resolved ELSE candidates[1]

-----------------------------------------------------------------------------
(* The page. *)

\* The stream is aborted with what has been written to it; the picker that was saving is
\* gone from the screen.  past.crossed: an answer will find another page; past.raced: the
\* events of the turn that runs are lost.
Leave(s) ==
    /\ route' = s
    /\ stream' = IF route = None \/ status # "ready" THEN stream ELSE [stream EXCEPT ![route] = <<>>]
    /\ saving' = FALSE
    /\ past' = [past EXCEPT !.crossed = @ \/ requests # {},
                            !.raced = IF route # None /\ turn[route] # NoTurn THEN @ \cup {route} ELSE @]

\* The effect of a route: checkCliHealth of a session, or everything is reset.
OpenSession(s) ==
    /\ status \in {"idle", "ready"} /\ s # route /\ meta[s] # None
    /\ Spend("routes") /\ Leave(s)
    /\ status' = "checking" /\ newChatDraft' = None
    /\ UNCHANGED <<meta, turn, settings, display, dedup, requests>>

OpenNewChat ==
    /\ status = "ready" /\ Spend("routes") /\ Leave(None)
    /\ status' = "idle" /\ settings' = None /\ display' = None
    /\ UNCHANGED <<meta, turn, dedup, newChatDraft, requests>>

Request(kind, id, selection) ==
    [kind |-> kind, id |-> id, selection |-> selection, step |-> "sent", answer |-> None,
     n |-> Cardinality(requests)]

\* connectSession up to loadSettings
connectSession ==
    /\ status = "checking"
    /\ status' = "connecting" /\ display' = None /\ dedup' = None
    /\ requests' = requests \cup {Request("connect", route, None)}
    /\ UNCHANGED <<meta, turn, stream, route, settings, saving, newChatDraft, budget, past>>

\* connectSession after refreshTree: the stream of events is open.
Connected ==
    /\ status = "loaded" /\ status' = "ready"
    /\ UNCHANGED <<meta, turn, stream, route, settings, display, dedup, saving, newChatDraft, requests, budget, past>>

\* Faulty applySelection: the model of the last event stays.
ApplyKeepsDisplay(selection) ==
    /\ status = "ready" /\ settings # None /\ ~saving
    /\ Effective(settings.selection) # selection
    /\ Spend("patches") /\ saving' = TRUE
    /\ requests' = requests \cup {Request("patch", route, selection)}
    /\ past' = [past EXCEPT !.raced = IF stream[route] # <<>> THEN @ \cup {route} ELSE @]
    /\ UNCHANGED <<meta, turn, stream, route, status, settings, display, dedup, newChatDraft>>

\* applySelection of the picker that is on the screen, and updateSessionSettings.
\* past.raced: an event of the selection before is still on its way.
applySelection(selection) ==
    /\ status = "ready" /\ settings # None /\ ~saving
    /\ Effective(settings.selection) # selection
    /\ Spend("patches")
    /\ display' = None /\ dedup' = None /\ saving' = TRUE
    /\ requests' = requests \cup {Request("patch", route, selection)}
    /\ past' = [past EXCEPT !.raced = IF stream[route] # <<>> THEN @ \cup {route} ELSE @]
    /\ UNCHANGED <<meta, turn, stream, route, status, settings, newChatDraft>>

\* updateNewChatDraft
updateNewChatDraft(selection) ==
    /\ status = "idle" /\ Effective(newChatDraft) # selection
    /\ Spend("patches") /\ newChatDraft' = selection
    /\ UNCHANGED <<meta, turn, stream, route, status, settings, display, dedup, saving, requests, past>>

\* createSession with the draft, or with taskRouting.chat, or without if it cannot be read;
\* the route follows.
createSession(s) ==
    /\ status = "idle" /\ meta[s] = None
    /\ \/ meta' = [meta EXCEPT ![s] = [selection |-> Effective(newChatDraft), resolved |-> None]] /\ UNCHANGED budget
       \/ newChatDraft = None /\ Spend("failures") /\ meta' = [meta EXCEPT ![s] = [selection |-> None, resolved |-> None]]
    /\ Leave(s) /\ status' = "checking" /\ newChatDraft' = None
    /\ UNCHANGED <<turn, settings, display, dedup, requests>>

\* An answer arrives: setSettings, whatever the page shows by now.
TakeAnswer(r) ==
    /\ r.step = "answered" /\ requests' = requests \ {r}
    /\ settings' = r.answer
    /\ IF r.kind = "connect"
       THEN status' = "loaded" /\ display' = IF r.answer.modelRef = None THEN display ELSE r.answer.modelRef
       ELSE UNCHANGED <<status, display>>
    /\ saving' = (saving /\ r.kind # "patch")
    /\ UNCHANGED <<meta, turn, stream, route, dedup, newChatDraft, budget, past>>

\* A request fails, in the daemon or on its way.
FailPatch(r) ==
    /\ r.kind = "patch" /\ Spend("failures") /\ requests' = requests \ {r}
    /\ saving' = FALSE /\ past' = [past EXCEPT !.crossed = TRUE]
    /\ UNCHANGED <<meta, turn, stream, route, status, settings, display, dedup, newChatDraft>>

\* onEvent: model_resolved, and loadSettings at agent_end
TakeEvent ==
    /\ status = "ready" /\ stream[route] # <<>>
    /\ LET e == Head(stream[route]) IN
       IF e = "end"
       THEN requests' = requests \cup {Request("get", route, None)} /\ UNCHANGED <<display, dedup>>
       ELSE /\ dedup' = IF e = "start" THEN None ELSE e
            /\ display' = IF e \in {"start", dedup} THEN display ELSE e
            /\ UNCHANGED requests
    /\ stream' = [stream EXCEPT ![route] = Tail(@)]
    /\ UNCHANGED <<meta, turn, route, status, settings, saving, newChatDraft, budget, past>>

-----------------------------------------------------------------------------
(* The daemon. *)

Publish(s, e) == stream' = [stream EXCEPT ![s] = Append(@, e)]

\* createHarnessWithEvents: the turn keeps the selection and the model that it begins with.
BeginTurn(s) ==
    /\ meta[s] # None /\ turn[s] = NoTurn /\ Spend("turns")
    /\ turn' = [turn EXCEPT ![s] = [selection |-> Effective(meta[s].selection), preferred |-> meta[s].resolved, answered |-> None]]
    /\ Publish(s, "start")
    /\ UNCHANGED <<meta, route, status, settings, display, dedup, saving, newChatDraft, requests, past>>

\* publishModelResolvedFromHeaders: the event, and then the registry.  Any candidate can
\* be the first that answers.  past.raced: a change of the selection is on its way; an
\* answer to the selection that is there, and to a page that listens, sets all right.
ModelAnswers(s, m) ==
    /\ turn[s] # NoTurn /\ turn[s].answered = None /\ Spend("calls")
    /\ m \in Elements(Candidates(turn[s].selection))
    /\ Publish(s, m) /\ turn' = [turn EXCEPT ![s].answered = m]
    /\ past' = [past EXCEPT !.raced =
         IF \E r \in requests : r.id = s /\ r.kind = "patch" THEN @ \cup {s}
         ELSE IF turn[s].selection = Effective(meta[s].selection) /\ route = s /\ status = "ready" THEN @ \ {s}
         ELSE @]
    /\ UNCHANGED <<meta, route, status, settings, display, dedup, saving, newChatDraft, requests>>

\* updateLastResolvedModel.  past.raced: the session has another selection by now.
updateLastResolvedModel(s) ==
    /\ turn[s].answered # None
    /\ meta' = [meta EXCEPT ![s].resolved = turn[s].answered] /\ turn' = [turn EXCEPT ![s].answered = None]
    /\ past' = [past EXCEPT !.raced = IF turn[s].selection # Effective(meta[s].selection) THEN @ \cup {s} ELSE @]
    /\ UNCHANGED <<stream, route, status, settings, display, dedup, saving, newChatDraft, requests, budget>>

EndTurn(s) ==
    /\ turn[s] # NoTurn /\ turn[s].answered = None
    /\ turn' = [turn EXCEPT ![s] = NoTurn] /\ Publish(s, "end")
    /\ UNCHANGED <<meta, route, status, settings, display, dedup, saving, newChatDraft, requests, budget, past>>

\* SessionSettingsService.patch: updateModelSelection forgets the model that answered.
\* past.crossed: what was read before will arrive, perhaps last.
updateModelSelection(r) ==
    /\ r.kind = "patch" /\ r.step = "sent"
    /\ meta' = [meta EXCEPT ![r.id] = [selection |-> r.selection, resolved |-> None]]
    /\ requests' = (requests \ {r}) \cup {[r EXCEPT !.step = "patched"]}
    /\ past' = [past EXCEPT !.crossed = @ \/ \E q \in requests \ {r} : q.step # "sent",
                            !.raced = IF turn[r.id] # NoTurn THEN @ \cup {r.id} ELSE @]
    /\ UNCHANGED <<turn, stream, route, status, settings, display, dedup, saving, newChatDraft, budget>>

\* resolveSessionSettingsModelRef
ModelRefOf(m) ==
    IF m.resolved # None THEN m.resolved ELSE IF m.selection \in Explicit THEN m.selection ELSE None

\* SessionSettingsService.get, with which patch ends as well
getSettings(r) ==
    /\ r.step = (IF r.kind = "patch" THEN "patched" ELSE "sent")
    /\ requests' = (requests \ {r}) \cup {[r EXCEPT !.step = "answered",
         !.answer = [id |-> r.id, selection |-> meta[r.id].selection, modelRef |-> ModelRefOf(meta[r.id])]]}
    /\ UNCHANGED <<meta, turn, stream, route, status, settings, display, dedup, saving, newChatDraft, budget, past>>

-----------------------------------------------------------------------------

Next ==
    \/ OpenNewChat \/ connectSession \/ Connected \/ TakeEvent
    \/ \E selection \in Selections : applySelection(selection) \/ updateNewChatDraft(selection)
    \/ \E r \in requests : TakeAnswer(r) \/ FailPatch(r) \/ updateModelSelection(r) \/ getSettings(r)
    \/ \E s \in Sessions :
         \/ OpenSession(s) \/ createSession(s) \/ BeginTurn(s) \/ updateLastResolvedModel(s) \/ EndTurn(s)
         \/ \E m \in Models : ModelAnswers(s, m)

Spec == Init /\ [][Next]_vars

-----------------------------------------------------------------------------

Marks == {"start", "end"}
Turns == [selection : Selections \cup {None}, preferred : Models \cup {None}, answered : Models \cup {None}]
Requests == [kind : {"connect", "get", "patch"}, id : Sessions, selection : Selections \cup {None},
             step : {"sent", "patched", "answered"}, answer : Answers \cup {None}, n : Nat]

TypeOK ==
    /\ meta \in [Sessions -> Metas \cup {None}]
    /\ turn \in [Sessions -> Turns]
    /\ stream \in [Sessions -> Seq(Models \cup Marks)]
    /\ route \in Sessions \cup {None} /\ status \in {"idle", "checking", "connecting", "loaded", "ready"}
    /\ settings \in Answers \cup {None}
    /\ display \in Models \cup {None} /\ dedup \in Models \cup {None}
    /\ saving \in BOOLEAN /\ newChatDraft \in Selections \cup {None}
    /\ IsFiniteSet(requests)
    /\ requests \subseteq Requests
    /\ past \in [crossed : BOOLEAN, raced : SUBSET Sessions]

\* What there is of a session, and what of the page
SessionsThere ==
    /\ \A s \in Sessions :
         /\ meta[s] = None => turn[s] = NoTurn /\ stream[s] = <<>>
         /\ turn[s] # NoTurn => turn[s].selection \in Selections
         /\ turn[s].answered # None => turn[s].answered \in Elements(Candidates(turn[s].selection))
    /\ (route = None) <=> (status = "idle")
    /\ route # None => meta[route] # None
    /\ \A r \in requests : /\ meta[r.id] # None /\ (r.step = "answered" => r.answer # None)
                           /\ r.kind = "patch" => r.selection \in Selections
                           /\ r.kind = "connect" =>
                                status = "connecting" /\ \A q \in requests : q.kind = "connect" => q = r
    /\ status \in {"loaded", "ready"} => settings # None

Patches == {r \in requests : r.kind = "patch"}
Arrived == {r \in requests : r.step = "answered"}

\* Unless answers crossed, the requests are those of the session on the screen, one at a
\* time but for the reads at the end of turns, and what they bring is what the daemon has.
RequestsInOrder ==
    ~past.crossed =>
      /\ \A r \in requests : /\ r.id = route
                             /\ status = IF r.kind = "connect" THEN "connecting" ELSE "ready"
                             /\ r.kind = "patch" => saving
                             /\ r.step = "answered" => r.answer.selection = meta[route].selection
      /\ \A q, r \in requests : q.kind = r.kind /\ q.kind # "get" => q = r
      /\ status \in {"loaded", "ready"} =>
           settings.selection = meta[route].selection \/ \E r \in Patches : r.step # "sent"
      /\ status = "connecting" => display = None
      /\ status \in {"connecting", "loaded"} => dedup = None
      /\ status = "ready" /\ dedup # None => display = dedup

\* The model that answered last, whether the registry has it already or not
Resolved(s) == IF turn[s].answered # None THEN turn[s].answered ELSE meta[s].resolved

\* No model is in q, or m is the last one.
Silent(q) == \A i \in DOMAIN q : q[i] \in Marks
EndsWith(q, m) == \E i \in DOMAIN q : q[i] = m /\ \A j \in DOMAIN q : j > i => q[j] \in Marks

\* Unless a change of the selection raced with a turn, the model that answered last is one of
\* the selection, and the last one of the stream.
StreamsEndResolved ==
    ~past.crossed =>
      \A s \in Sessions \ past.raced : meta[s] # None =>
        /\ turn[s] # NoTurn => turn[s].selection = Effective(meta[s].selection)
        /\ Resolved(s) \in Elements(Candidates(Effective(meta[s].selection))) \cup {None}
        /\ Silent(stream[s]) \/ (Resolved(s) # None /\ EndsWith(stream[s], Resolved(s)))
        /\ turn[s].answered # None /\ ~(s = route /\ status = "ready") => ~Silent(stream[s])

\* What the next turn will try first, when the model that answered last is stored
WillTry(s) ==
    LET candidates == Candidates(Effective(meta[s].selection)) IN
    IF Resolved(s) \in Elements(candidates) THEN Resolved(s) ELSE candidates[1]

\* What the page has of the models, as far as no more of them are in the stream
PageFollows ==
    ~past.crossed /\ route # None /\ route \notin past.raced =>
      /\ status = "connecting" /\ Silent(stream[route]) =>
           \A r \in Arrived : r.answer.modelRef = ModelRefOf(meta[route])
      /\ status \in {"loaded", "ready"} /\ Patches = {} /\ Silent(stream[route]) =>
           IF display # None THEN display = WillTry(route)
           ELSE /\ Resolved(route) = None /\ settings.modelRef = ModelRefOf(meta[route])
                /\ \A r \in Arrived : r.answer.modelRef = ModelRefOf(meta[route])
      /\ \A p \in Patches :
           /\ display = None /\ dedup = None /\ Silent(stream[route])
           /\ p.step # "sent" =>
                Resolved(route) = None /\ \A r \in Arrived : r.answer.modelRef = ModelRefOf(meta[route])

\* Nothing of the session on the screen is on its way.
AtRest == status = "ready" /\ requests = {} /\ stream[route] = <<>> /\ turn[route] = NoTurn

\* At rest the picker shows the selection of the session on the screen, and the model that
\* the next turn will try first.
PickerTells ==
    AtRest /\ ~past.crossed /\ route \notin past.raced =>
      settings.selection = meta[route].selection /\ Displayed = FirstTried(route)

ModelPickerInv ==
    /\ TypeOK /\ SessionsThere /\ RequestsInOrder /\ StreamsEndResolved /\ PageFollows
    /\ PickerTells
=============================================================================
