------------------------------ MODULE SearchTools ------------------------------
(***************************************************************************)
(* One call of the grep or of the find tool and the command it spawns      *)
(* (packages/cli/src/tools/grep.ts and find.ts).                           *)
(*                                                                         *)
(* found is what the command would print if it ran to its end; a result is *)
(* "odd" when ripgrep gives its path as bytes, not as text.  Paths, line   *)
(* texts and their shortening are abstracted; the byte limit of the output *)
(* is the number of results that fit.                                      *)
(***************************************************************************)
EXTENDS Integers, Sequences, SequencesExt

CONSTANTS MaxFound,  \* bound on the results
          MaxShown,  \* results within DEFAULT_MAX_BYTES
          Limits,    \* values of limit
          NoCode

\* What the constants must satisfy
SearchAssumption == MaxFound \in Nat /\ MaxShown \in Nat /\ Limits \subseteq Nat

VARIABLES
  tool, limit, context,
  found, trouble,  \* what the command would print, and whether something it cannot read makes it fail
  execute,         \* "begin", "checking", "running", "formatting", "answered"
  child,           \* "none", "running", "signalled", "gone"
  code,            \* its exit code, NoCode when a signal ended it
  written, seen,   \* results it has printed, and line events handled
  killedDueToLimit,
  aborted,         \* signal.aborted
  heard,           \* the abort event came to the listener
  answer

call == <<tool, limit, context, found, trouble>>
process == <<child, code, written>>
vars == <<call, execute, process, seen, killedDueToLimit, aborted, heard, answer>>

Unanswered == [outcome |-> "none", listed |-> <<>>, notice |-> FALSE]

Init ==
  /\ tool \in {"grep", "find"} /\ limit \in Limits /\ context \in BOOLEAN
  /\ found \in UNION {[1 .. n -> {"plain", "odd"}] : n \in 0 .. MaxFound} /\ trouble \in BOOLEAN
  /\ tool = "find" => ~context /\ \A i \in DOMAIN found : found[i] = "plain"
  /\ execute = "begin" /\ child = "none" /\ code = NoCode /\ written = 0 /\ seen = 0
  /\ killedDueToLimit = FALSE /\ aborted \in BOOLEAN /\ heard = FALSE /\ answer = Unanswered

effectiveLimit == IF tool = "grep" /\ limit = 0 THEN 1 ELSE limit

Settle(outcome) == answer' = [Unanswered EXCEPT !.outcome = outcome] /\ execute' = "answered"

\* The tests before the first await; the path may be missing after it.
Begin ==
  /\ execute = "begin"
  /\ IF aborted THEN Settle("aborted") ELSE execute' = "checking" /\ UNCHANGED answer
  /\ UNCHANGED <<call, process, seen, killedDueToLimit, aborted, heard>>

Refuse ==
  /\ execute = "checking" /\ Settle("failed")
  /\ UNCHANGED <<call, process, seen, killedDueToLimit, aborted, heard>>

\* spawn, or its "error" event
Start ==
  /\ execute = "checking"
  /\ \/ child' = "running" /\ execute' = "running" /\ UNCHANGED answer
     \/ Settle("failed") /\ UNCHANGED child
  /\ UNCHANGED <<call, code, written, seen, killedDueToLimit, aborted, heard>>

-----------------------------------------------------------------------------
(* The command.  fd stops at --max-results, where 0 means no limit.        *)

Due == IF tool = "find" /\ limit > 0 /\ limit < Len(found) THEN limit ELSE Len(found)

Emit ==
  /\ child \in {"running", "signalled"} /\ written < Due
  /\ written' = written + 1
  /\ UNCHANGED <<call, execute, child, code, seen, killedDueToLimit, aborted, heard, answer>>

\* rg: 0 with matches, 1 without, 2 on trouble; fd: 1 on trouble, unless it stopped early
OwnCode ==
  CASE tool = "grep" -> IF trouble THEN 2 ELSE IF found = <<>> THEN 1 ELSE 0
    [] OTHER         -> IF trouble /\ Due = Len(found) THEN 1 ELSE 0

Exit ==
  /\ child \in {"running", "signalled"} /\ child' = "gone"
  /\ \/ written = Due /\ code' = OwnCode
     \/ code' = NoCode
  /\ UNCHANGED <<call, execute, written, seen, killedDueToLimit, aborted, heard, answer>>

-----------------------------------------------------------------------------
(* The handlers.                                                           *)

\* stopChild
Signalled == IF child = "running" THEN "signalled" ELSE child

\* Faulty Line: the limit is not marked as the cause.
LineKillsOnly ==
  /\ execute = "running" /\ seen < written /\ seen' = seen + 1
  /\ child' = IF tool = "grep" /\ seen' = effectiveLimit THEN Signalled ELSE child
  /\ UNCHANGED <<call, execute, code, written, killedDueToLimit, aborted, heard, answer>>

\* A line event.  grep stops the command at the limit, counting odd results too, and drops
\* later lines.
Line ==
  /\ execute = "running" /\ seen < written /\ seen' = seen + 1
  /\ IF tool = "grep" /\ seen' = effectiveLimit
     THEN child' = Signalled /\ killedDueToLimit' = ~heard
     ELSE UNCHANGED <<child, killedDueToLimit>>
  /\ UNCHANGED <<call, execute, code, written, aborted, heard, answer>>

\* The abort signal.  Before the spawn there is no listener, and one that is added to an
\* aborted signal is never called.  find answers at once, grep when the command is gone.
Abort ==
  /\ ~aborted /\ aborted' = TRUE
  /\ IF execute = "running"
     THEN /\ heard' = TRUE /\ child' = Signalled
          /\ IF tool = "find" THEN Settle("aborted") ELSE UNCHANGED <<execute, answer>>
     ELSE UNCHANGED <<execute, child, heard, answer>>
  /\ UNCHANGED <<call, code, written, seen, killedDueToLimit>>

matchCount == IF tool = "grep" /\ seen > effectiveLimit THEN effectiveLimit ELSE seen

\* The first n results with a text path
PlainAmong(n) == SelectSeq([i \in 1 .. n |-> i], LAMBDA i : found[i] = "plain")

\* Both answers: as many results as fit, and whether a notice tells that more may exist
Listing ==
  LET whole == PlainAmong(matchCount)
      fits == IF Len(whole) > MaxShown THEN SubSeq(whole, 1, MaxShown) ELSE whole
  IN [outcome |-> "ok", listed |-> fits, notice |-> matchCount >= effectiveLimit \/ fits # whole]

NothingFound == [Unanswered EXCEPT !.outcome = "ok"]

\* The close event of grep; what was killed for the limit may end in any way
CloseGrep ==
  IF heard THEN Settle("aborted")
  ELSE IF ~killedDueToLimit /\ code \notin {0, 1} THEN Settle("failed")
  ELSE IF seen > 0 /\ context THEN execute' = "formatting" /\ UNCHANGED answer
  ELSE execute' = "answered" /\ answer' = IF seen = 0 THEN NothingFound ELSE Listing

\* The close event of find: a failure counts only when nothing was printed
CloseFind ==
  IF aborted THEN Settle("aborted")
  ELSE IF code # 0 /\ seen = 0 THEN Settle("failed")
  ELSE execute' = "answered" /\ answer' = IF seen = 0 THEN NothingFound ELSE Listing

Close ==
  /\ execute = "running" /\ child = "gone" /\ seen = written
  /\ IF tool = "grep" THEN CloseGrep ELSE CloseFind
  /\ UNCHANGED <<call, process, seen, killedDueToLimit, aborted, heard>>

\* formatBlock has read the files: an abort is not looked at any more
Format ==
  /\ execute = "formatting"
  /\ answer' = Listing /\ execute' = "answered"
  /\ UNCHANGED <<call, process, seen, killedDueToLimit, aborted, heard>>

Next == Begin \/ Refuse \/ Start \/ Emit \/ Exit \/ Line \/ Abort \/ Close \/ Format

\* The event loop runs; a signalled command ends.
Fairness ==
  WF_vars(Line) /\ WF_vars(Close) /\ WF_vars(Format) /\ WF_vars(child = "signalled" /\ Exit)

Spec == Init /\ [][Next]_vars /\ Fairness

-----------------------------------------------------------------------------

TypeOK ==
  /\ child \in {"none", "running", "signalled", "gone"} /\ code \in {0, 1, 2, NoCode}
  /\ seen \in 0 .. written /\ written \in 0 .. MaxFound
  /\ answer.outcome \in {"none", "ok", "aborted", "failed"}

Plain == PlainAmong(Len(found))

\* Without a notice the model may take the list for all there is: it is, except for what
\* find printed before it failed or was killed by somebody else.
ListIsComplete ==
  answer.outcome = "ok" /\ ~answer.notice /\ (tool = "find" => code = 0) => answer.listed = Plain

\* A list is never longer than asked for, and the first results come first.
ListIsPrefix ==
  /\ IsPrefix(answer.listed, Plain)
  /\ limit > 0 => Len(answer.listed) <= limit

\* No search goes on after its answer, and a stop that the call has heard is its outcome:
\* not the results, and not the failure that the kill looks like.
StopIsHonoured ==
  execute = "answered" => /\ child # "running"
                          /\ heard => answer.outcome = "aborted"

\* The kill at the limit is no failure of the search, nor is what comes after it.
LimitIsNoFailure == tool = "grep" /\ seen >= effectiveLimit /\ ~heard => answer.outcome \in {"none", "ok"}

SearchInv == TypeOK /\ ListIsComplete /\ ListIsPrefix /\ StopIsHonoured /\ LimitIsNoFailure

\* A search that hears the stop answers, whatever it was doing.
StoppedSearchAnswers == heard ~> execute = "answered"
=============================================================================
