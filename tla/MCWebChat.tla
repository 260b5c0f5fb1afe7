----------------------------- MODULE MCWebChat -----------------------------
(***************************************************************************)
(* Four parts of the web client that share no state: the chat page with    *)
(* one stored session and one that may be created, the providers page and  *)
(* the models page of the settings, and the scrolling of the chat.  part   *)
(* says which is at work, the others stay in an initial state.             *)
(***************************************************************************)
EXTENDS WebChat, AutoScroll, SettingsPages, TLC

VARIABLE part

Case(f, r, c, p, n) ==
    [faults |-> f, routes |-> r, compactions |-> c, prompts |-> p, attempts |-> n]

\* Changes of the route with a message, one of them failing and retried; a compaction beside a message; two turns of
\* one session, which follow each other closely.
MCBudgets == {Case(0, 3, 0, 1, 2), Case(1, 2, 0, 1, 3), Case(2, 1, 0, 1, 2), Case(1, 1, 1, 1, 2),
               Case(0, 1, 0, 2, 2)}

\* Of the models page: edits, visits and mishaps
MCPageBudgets == {[edits |-> 2, visits |-> 2, mishaps |-> 1], [edits |-> 1, visits |-> 2, mishaps |-> 2]}

\* The initial states of the part at work; the others have one.
MCInit ==
    /\ part \in {"chat", "providers", "scroll", "models"}
    /\ Init /\ (part # "chat" => budget = Case(0, 3, 0, 1, 2))
    /\ P!Init /\ keys \in {{}} \cup (IF part = "providers" THEN {Builtins \cup Customs} ELSE {})
    /\ ScrollInit /\ (part # "scroll" => height = 0)
    /\ M!Init /\ (part # "models" => spare.mishaps = 1)
    /\ catalog \in (IF part = "models" THEN {{}, {CHOOSE m \in Models : TRUE}, Models} ELSE {{}})

MCNext ==
    \/ part = "chat" /\ Next /\ UNCHANGED <<part, providerVars, scrollVars, modelVars>>
    \/ part = "providers" /\ P!Next /\ UNCHANGED <<part, vars, scrollVars, modelVars>>
    \/ part = "scroll" /\ ScrollNext /\ UNCHANGED <<part, vars, providerVars, modelVars>>
    \/ part = "models" /\ M!Next /\ UNCHANGED <<part, vars, providerVars, scrollVars>>

MCSpec == MCInit /\ [][MCNext]_<<part, vars, providerVars, scrollVars, modelVars>>

PromptSymmetry == Permutations(Prompts)
=============================================================================
