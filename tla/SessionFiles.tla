----------------------------- MODULE SessionFiles -----------------------------
(***************************************************************************)
(* What is kept of sessions: the registry with the JSONL files, the names  *)
(* of the sessions, the captured LLM exchanges with the panel that shows   *)
(* them, and the model selection with the picker that shows it.  The four  *)
(* models share no state; part says which is at work.  Calls on the        *)
(* registry come to an end: deadlock is not checked.                       *)
(***************************************************************************)
EXTENDS SessionRegistry, TLC

CONSTANTS Tasks, Renames,
          Inspected, InspectBounds, Torn,
          Picked, StoredPicks, StoredSelections, Pools, Explicit, Default, PickerBudgets

VARIABLES
    part,
    entry, task, replies, title, renamed, raced,
    buffer, saved, exchange, flushes, panel, polls, clock, used, missed,
    meta, turn, stream, route, status, settings, display, dedup, saving, newChatDraft, requests, spare, races

registryVars == <<kind, session, at, registryLoaded, entries, sharing, held, file,
                  jsonl, acked, everUsed, crashes, damage>>
titleVars == <<entry, task, replies, title, renamed, raced>>
inspectVars == <<buffer, saved, exchange, flushes, panel, polls, clock, used, missed>>
pickerVars == <<meta, turn, stream, route, status, settings, display, dedup, saving, newChatDraft,
                requests, spare, races>>

Titles == INSTANCE SessionTitles WITH shown <- title
Inspect == INSTANCE LlmInspect WITH Sessions <- Inspected, Bounds <- InspectBounds, calls <- polls, past <- missed
Picker == INSTANCE ModelPicker WITH Sessions <- Picked, Stored <- StoredPicks, Budgets <- PickerBudgets,
                                    budget <- spare, past <- races

ASSUME FilesAssumption ==
    0 \notin Tasks /\ Renames \in Nat /\ Inspect!InspectAssumption /\ Picker!ModelPickerAssumption

FilesInit ==
    /\ part \in {"registry", "titles", "inspect", "picker"}
    /\ Init /\ Titles!Init /\ Inspect!Init /\ Picker!Init
    /\ \A s \in StoredPicks : meta[s].selection \in IF part = "picker" THEN StoredSelections ELSE {None}
    /\ part # "picker" => spare = CHOOSE b \in PickerBudgets : TRUE

FilesNext ==
    \/ part = "registry" /\ Next /\ UNCHANGED <<part, titleVars, inspectVars, pickerVars>>
    \/ part = "titles" /\ Titles!Next /\ UNCHANGED <<part, registryVars, inspectVars, pickerVars>>
    \/ part = "inspect" /\ Inspect!Next /\ UNCHANGED <<part, registryVars, titleVars, pickerVars>>
    \/ part = "picker" /\ Picker!Next /\ UNCHANGED <<part, registryVars, titleVars, inspectVars>>

FilesSpec == FilesInit /\ [][FilesNext]_<<part, registryVars, titleVars, inspectVars, pickerVars>>

\* A title of the user's stays, one of the model's follows an answer, and the screen shows
\* the title that the registry holds.
TitlesInv == Titles!TitlesInv

\* What the page shows of a session's LLM calls: the panel the last exchange that was
\* captured, the picker the model that the next turn tries first.
ShownOfCalls == Inspect!LlmInspectInv /\ Picker!ModelPickerInv

-----------------------------------------------------------------------------
(* For TLC *)

MCBounds == [captures |-> 2, asked |-> 2, restarts |-> 1]

Budget(t, c, p, r, f) == [turns |-> t, calls |-> c, patches |-> p, routes |-> r, failures |-> f]

\* Two changes beside a turn; a change and two turns of a new session, of which one answers;
\* two turns that answer; a page that is left during a turn for another session; a failure.
MCBudgets == {Budget(1, 1, 2, 1, 0), Budget(2, 1, 1, 0, 0), Budget(2, 2, 0, 1, 0), Budget(1, 1, 1, 2, 0),
              Budget(1, 1, 1, 1, 1)}

MCPools == [high |-> <<"m1", "m2">>, low |-> <<"m2">>]

\* Calls on the registry are interchangeable, and so are the sessions that it does not have
\* at the start; only invariants are checked.
Symmetry == Permutations(Ops) \cup Permutations(Sessions \ Stored)
=============================================================================
