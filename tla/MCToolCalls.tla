----------------------------- MODULE MCToolCalls -----------------------------
(***************************************************************************)
(* A call of the bash tool, the output of one, and calls of the edit,      *)
(* search and read tools share no state: part says which is at work, the   *)
(* others stay in an initial state.                                        *)
(***************************************************************************)
EXTENDS Naturals, Sequences

CONSTANTS maxLines, maxBytes, MaxText, MaxChunks, None,
          MaxFound, MaxShown, Limits, NoCode, Sizes, MaxLen, NoLimit

VARIABLES
    part,
    text, tail, boundary, raw, path, written, done,
    execute, shell, holders, strays, sent, output, ended, exitCode, postExit,
    aborted, timeout, dirty, updateTimer, update, answer,
    original, edits, file, step, result,
    tool, limit, context, found, trouble, searching, child, code, printed, seen,
    killedDueToLimit, stopped, heard, results,
    allLines, lineLimit, offset, pages, refused, entries, gone, next, entered, listing

outputVars == <<text, tail, boundary, raw, path, written, done>>
bashVars == <<execute, shell, holders, strays, sent, output, ended, exitCode, postExit,
              aborted, timeout, dirty, updateTimer, update, answer>>
editVars == <<original, edits, file, step, result>>
searchVars == <<tool, limit, context, found, trouble, searching, child, code, printed, seen,
                killedDueToLimit, stopped, heard, results>>
readVars == <<allLines, lineLimit, offset, pages, refused, entries, gone, next, entered, listing>>

Texts(chars, n) == UNION {[1 .. k -> chars] : k \in 0 .. n}

\* All short texts with LF, and some with CRLF, with both, and with a lone CR.
Contents == Texts({"a", "A", "s", "n"}, 3)
            \cup {<<"a", "r", "n">>, <<"a", "r", "n", "a", "r", "n">>, <<"r", "n", "a", "n">>,
                  <<"n", "a", "r", "n">>, <<"r", "a">>}
Edits == [oldText : Texts({"a", "A", "s", "n"}, 2), newText : {<<>>, <<"x">>}]

O == INSTANCE OutputAccumulator
B == INSTANCE BashTool
E == INSTANCE EditTool WITH execute <- step
S == INSTANCE SearchTools WITH execute <- searching, written <- printed, aborted <- stopped, answer <- results
R == INSTANCE ReadTools WITH limit <- lineLimit, results <- entered

ASSUME ToolsAssumption == S!SearchAssumption /\ R!ReadAssumption

Parts == {"output", "bash", "edit", "search", "read", "ls"}

\* The initial states of a part at work; the others have one.
Init ==
    /\ part \in Parts
    /\ O!Init
    /\ B!Init /\ (part # "bash" => timeout = "unset")
    /\ IF part = "edit" THEN E!Init
       ELSE /\ original = <<>> /\ file = <<>> /\ edits = <<>>
            /\ step = "begin" /\ result = E!NoResult
    /\ IF part = "search" THEN S!Init
       ELSE /\ tool = "find" /\ limit = 1 /\ context = FALSE /\ found = <<>> /\ trouble = FALSE
            /\ searching = "begin" /\ child = "none" /\ code = NoCode /\ printed = 0 /\ seen = 0
            /\ killedDueToLimit = FALSE /\ stopped = FALSE /\ heard = FALSE /\ results = S!Unanswered
    /\ IF part \in {"read", "ls"} THEN R!Init /\ (part = "ls" => allLines = <<0>>) /\ (part = "read" => entries = <<>>)
       ELSE /\ allLines = <<0>> /\ lineLimit = NoLimit /\ offset = 1 /\ pages = <<>> /\ refused = FALSE
            /\ entries = <<>> /\ gone = {} /\ next = 1 /\ entered = <<>> /\ listing = R!Unlisted

Next ==
    \/ part = "output" /\ O!Next /\ UNCHANGED <<part, bashVars, editVars, searchVars, readVars>>
    \/ part = "bash" /\ B!Next /\ UNCHANGED <<part, outputVars, editVars, searchVars, readVars>>
    \/ part = "edit" /\ E!Next /\ UNCHANGED <<part, outputVars, bashVars, searchVars, readVars>>
    \/ part = "search" /\ S!Next /\ UNCHANGED <<part, outputVars, bashVars, editVars, readVars>>
    \/ part = "read" /\ R!Read /\ UNCHANGED <<part, outputVars, bashVars, editVars, searchVars>>
    \/ part = "ls" /\ R!ls /\ UNCHANGED <<part, outputVars, bashVars, editVars, searchVars>>

FairSpec ==
    /\ Init /\ [][Next]_<<part, outputVars, bashVars, editVars, searchVars, readVars>>
    /\ B!Fairness /\ S!Fairness

\* What a bash call answers: the end of its output, with all of it in a file, and the
\* outcome of its shell.
ShellInv == O!OutputInv /\ B!BashInv

\* An edit changes what it names and nothing else.
EditInv == part = "edit" => E!EditInv

\* What a search answers is complete or says that it is not, and a stop ends its command;
\* reading on from the offsets that read names shows every line once, and ls lists what is
\* there.
SearchInv == S!SearchInv /\ R!ReadInv

\* A bash call that is stopped or whose shell has exited returns, and so does a search that
\* hears the stop.
StoppedCallReturns == (part = "bash" => B!StoppedCallReturns) /\ S!StoppedSearchAnswers
=============================================================================
