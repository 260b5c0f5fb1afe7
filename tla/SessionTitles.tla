----------------------------- MODULE SessionTitles -----------------------------
(***************************************************************************)
(* The name of a session: the first message gives one                      *)
(* (session-store.ts), a model polishes it after the turn                  *)
(* (session-title-service.ts), the user renames the session (server.ts).   *)
(* The three run side by side in the daemon, and each of them answers with *)
(* the name it has set some awaits before.                                 *)
(*                                                                         *)
(* A name is the task that gave it; 0 is no name.                          *)
(***************************************************************************)
EXTENDS Naturals

CONSTANTS Tasks,     \* requests and title jobs, natural numbers from 1
          Renames    \* how often the user renames the session

VARIABLES
  entry,     \* the session's entry in the registry: [listed, name, source]
  task,      \* Tasks -> [kind, step, name]
  replies,   \* turns whose branch has an answer of the model
  shown,     \* the name in the last event that the session's screen received
  renamed,   \* renames so far
  raced      \* a rename or another title job came while a title job was under way, or a
             \* title while the first name was being saved

vars == <<entry, task, replies, shown, renamed, raced>>

Idle == [kind |-> "none", step |-> "idle", name |-> 0]

Init ==
  /\ entry = [listed |-> TRUE, name |-> 0, source |-> "none"]
  /\ task = [t \in Tasks |-> Idle]
  /\ replies = 0 /\ shown = 0 /\ renamed = 0 /\ raced = FALSE

Begin(t, kind, step) ==
  /\ task[t].kind = "none" /\ \A u \in Tasks : u < t => task[u].kind # "none"
  /\ task' = [task EXCEPT ![t] = [kind |-> kind, step |-> step, name |-> 0]]

Goto(t, step) == task' = [task EXCEPT ![t].step = step]
Done(t) == Goto(t, "done")

Titles == {t \in Tasks : task[t].kind = "title" /\ task[t].step # "done"}
Race(ts) == raced' = (raced \/ ts # {})

\* What updateName does before its await: the entry changes in memory.  The answer, which
\* is published later, is of that moment.
Rename(t, source) ==
  /\ entry' = [entry EXCEPT !.name = t, !.source = source]
  /\ task' = [task EXCEPT ![t].step = "saving", ![t].name = t]
  /\ Race({u \in Tasks : task[u].step = "saving"})

-----------------------------------------------------------------------------
(* The first message. *)

enqueue(t) ==
  /\ Begin(t, "chat", "name")
  /\ UNCHANGED <<entry, replies, shown, renamed, raced>>

\* setNameFromFirstMessageIfEmpty; enqueue publishes every name that a first message gave,
\* at once when it is not this message.
setNameFromFirstMessageIfEmpty(t) ==
  /\ task[t].kind = "chat" /\ task[t].step = "name"
  /\ \/ /\ ~entry.listed /\ Goto(t, "dispatched")
        /\ UNCHANGED <<entry, shown, raced>>
     \/ /\ entry.listed /\ entry.name = 0
        /\ Rename(t, "first_message") /\ UNCHANGED shown
     \/ /\ entry.listed /\ entry.name # 0 /\ Goto(t, "dispatched")
        /\ shown' = IF entry.source = "first_message" THEN entry.name ELSE shown
        /\ UNCHANGED <<entry, raced>>
  /\ UNCHANGED <<replies, renamed>>

\* publishMetaUpdate, when the registry is saved
publishMetaUpdate(t) ==
  /\ task[t].kind \in {"chat", "title"} /\ task[t].step = "saving"
  /\ shown' = task[t].name
  /\ Goto(t, IF task[t].kind = "chat" THEN "dispatched" ELSE "done")
  /\ UNCHANGED <<entry, replies, renamed, raced>>

\* The turn ends, with an answer in its branch or with an error that the turn survives;
\* maybeGenerateAfterTurn starts, nobody waits for it, and reads the name's source.
TurnEnds(t, u, answered) ==
  /\ task[t].kind = "chat" /\ task[t].step = "dispatched"
  /\ task[u].kind = "none" /\ \A v \in Tasks : v < u => task[v].kind # "none"
  /\ replies' = IF answered THEN replies + 1 ELSE replies
  /\ LET looks == entry.listed /\ entry.source = "first_message" IN
     /\ task' = [task EXCEPT ![t].step = "done",
          ![u] = [kind |-> "title", step |-> IF looks THEN "tree" ELSE "done", name |-> 0]]
     /\ Race(IF looks THEN Titles ELSE {})
  /\ UNCHANGED <<entry, shown, renamed>>

\* The turn throws, is refused or was a steer: no title.
TurnFails(t) ==
  /\ task[t].kind = "chat" /\ task[t].step = "dispatched"
  /\ Done(t)
  /\ UNCHANGED <<entry, replies, shown, renamed, raced>>

-----------------------------------------------------------------------------
(* The title. *)

\* getTree and extractFirstTurnContext, then resolveBackendAuth: without an answer, when
\* the session is gone, or without a device token, there is no title.
ReadTree(t) ==
  /\ task[t].kind = "title" /\ task[t].step = "tree"
  /\ \/ replies > 0 /\ entry.listed /\ Goto(t, "model")
     \/ Done(t)
  /\ UNCHANGED <<entry, replies, shown, renamed, raced>>

\* generateTitle returned: a title, or nothing (a failed or slow request, an empty text).
\* updateName writes it whatever the name's source is by now.
TitleArrives(t) ==
  /\ task[t].kind = "title" /\ task[t].step = "model"
  /\ \/ entry.listed /\ Rename(t, "auto_llm")
     \/ Done(t) /\ UNCHANGED <<entry, raced>>
  /\ UNCHANGED <<replies, shown, renamed>>

-----------------------------------------------------------------------------
(* The user. *)

\* Faulty RenameByUser: the name keeps its source.
RenameKeepsSource(t) ==
  /\ entry.listed /\ renamed < Renames /\ renamed' = renamed + 1
  /\ task[t].kind = "none" /\ \A u \in Tasks : u < t => task[u].kind # "none"
  /\ entry' = [entry EXCEPT !.name = t, !.source = IF @ = "none" THEN "manual" ELSE @]
  /\ task' = [task EXCEPT ![t] = [kind |-> "rename", step |-> "done", name |-> t]]
  /\ Race(Titles)
  /\ UNCHANGED <<replies, shown>>

\* PATCH /sessions/:sessionId: updateName as manual.  The answer goes to the client that
\* asked, and device clients are told to read the list again.
RenameByUser(t) ==
  /\ entry.listed /\ renamed < Renames /\ renamed' = renamed + 1
  /\ task[t].kind = "none" /\ \A u \in Tasks : u < t => task[u].kind # "none"
  /\ entry' = [entry EXCEPT !.name = t, !.source = "manual"]
  /\ task' = [task EXCEPT ![t] = [kind |-> "rename", step |-> "done", name |-> t]]
  /\ Race(Titles)
  /\ UNCHANGED <<replies, shown>>

\* DELETE /sessions/:sessionId removes the entry.
Delete ==
  /\ entry.listed
  /\ entry' = [entry EXCEPT !.listed = FALSE]
  /\ UNCHANGED <<task, replies, shown, renamed, raced>>

-----------------------------------------------------------------------------

Next ==
  \/ \E t \in Tasks : \/ enqueue(t) \/ setNameFromFirstMessageIfEmpty(t) \/ publishMetaUpdate(t)
                      \/ TurnFails(t) \/ ReadTree(t) \/ TitleArrives(t) \/ RenameByUser(t)
  \/ \E t, u \in Tasks : \E answered \in BOOLEAN : TurnEnds(t, u, answered)
  \/ Delete

Spec == Init /\ [][Next]_vars

-----------------------------------------------------------------------------

TypeOK ==
  /\ entry \in [listed : BOOLEAN, name : {0} \cup Tasks,
                source : {"none", "first_message", "auto_llm", "manual"}]
  /\ (entry.name = 0) <=> (entry.source = "none")
  /\ task \in [Tasks -> [kind : {"none", "chat", "title", "rename"}, name : {0} \cup Tasks,
                         step : {"idle", "name", "saving", "dispatched", "tree", "model", "done"}]]
  /\ \A t \in Tasks : task[t].kind = "none" => task[t] = Idle
  /\ replies \in Nat /\ shown \in {0} \cup Tasks /\ renamed \in 0 .. Renames /\ raced \in BOOLEAN

\* A name that the user gave stays until the user gives another one: no title overwrites
\* it, unless a title job was under way when the user renamed the session.
ManualStands ==
  renamed > 0 /\ ~raced => entry.source = "manual"

\* A generated title comes from a turn that was answered.
TitleFollowsReply == entry.source = "auto_llm" => replies > 0

\* When no request is under way, the name that the screen was told last is the name of the
\* session, unless the user renamed it (the screen is told otherwise) or jobs raced.
PublishedIsCurrent ==
  (\A t \in Tasks : task[t].step \in {"idle", "done"}) /\ ~raced /\ renamed = 0 /\ entry.name # 0
     => shown = entry.name

\* Without a race there is one title job, and until it writes, the name is still the one
\* of the first message for which it was started.
TitleOfFirst ==
  ~raced => /\ \A t, u \in Titles : t = u
            /\ \A t \in Titles : task[t].step # "saving" => entry.source = "first_message"

\* The model is asked about a turn that was answered.
ModelHasReply ==
  \A t \in Titles : task[t].step = "model" => replies > 0

\* Without a race or a rename by the user, the name is shown already or is about to be, by
\* the one task that saves it.
NameIsPublished ==
  ~raced =>
    /\ \A t, u \in Tasks : task[t].step = "saving" /\ task[u].step = "saving" => t = u
    /\ renamed = 0 =>
         /\ \A t \in Tasks : task[t].step = "saving" => task[t].name = entry.name
         /\ entry.name # 0 =>
              shown = entry.name \/ \E t \in Tasks : task[t].step = "saving"

TitlesInv ==
  /\ TypeOK /\ TitleOfFirst /\ ModelHasReply /\ NameIsPublished
  /\ ManualStands /\ TitleFollowsReply /\ PublishedIsCurrent
=============================================================================
