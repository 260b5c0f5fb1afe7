------------------------------ MODULE MCHistory ------------------------------
(***************************************************************************)
(* What becomes of a session's conversation: the messages of one reply,    *)
(* the tree of its file and the usage it is charged with.  The three       *)
(* models share no state: part says which is at work, the others stay in   *)
(* an initial state.                                                       *)
(***************************************************************************)
EXTENDS AssistantReply

CONSTANTS MaxEntries, MaxMoves, MaxBranch, MaxLoads, None

VARIABLES
    part,
    file, turn, patch, goal, moves, stale, moved,
    branch, runs, due, events, connected, settings, loads, streamed, reply, whole, exact, lost,
    older, overtaken

treeVars == <<file, turn, patch, goal, moves, stale, moved>>
usageVars == <<branch, runs, due, events, connected, settings, loads, streamed, reply, whole, exact,
               lost, older, overtaken>>

Tree == INSTANCE SessionTree
Usage == INSTANCE SessionUsage WITH running <- runs

MCInit ==
    /\ part \in {"reply", "tree", "usage"}
    /\ Init /\ Tree!Init /\ Usage!Init

ReplyIdle == UNCHANGED <<phase, partial, log, waiting, running, steers, parts, sent, stopped, shown>>

MCNext ==
    \/ part = "reply" /\ Next /\ UNCHANGED <<part, treeVars, usageVars>>
    \/ part = "tree" /\ Tree!Next /\ ReplyIdle /\ UNCHANGED <<part, usageVars>>
    \/ part = "usage" /\ Usage!Next /\ ReplyIdle /\ UNCHANGED <<part, treeVars>>

MCSpec == MCInit /\ [][MCNext]_<<part, phase, partial, log, waiting, running, steers, parts,
                                 sent, stopped, shown, treeVars, usageVars>>

\* What the screen shows of a branch is what the next prompt continues, and a click on a
\* turn leads to that turn.
TreeInv == Tree!TreeInv

\* The page counts every answer once, at rest shows what a reload shows, rests the occupation
\* of the context on answers given since the last compaction, and puts durations and usage
\* below the replies that they were taken of.
UsageInv == Usage!UsageInv
=============================================================================
