------------------------------- MODULE BashTool -------------------------------
(***************************************************************************)
(* One call of the bash tool: the shell it spawns, the two pipes of its    *)
(* output, the timers and the abort signal (packages/cli/src/tools/bash.ts *)
(* and waitForChildProcess of shell-utils.ts).                             *)
(*                                                                         *)
(* Output is counted in chunks.  A background process of the command may   *)
(* hold a pipe open after the shell has exited; one that has left the      *)
(* process group survives the kill.                                        *)
(***************************************************************************)
EXTENDS Naturals, FiniteSets

CONSTANTS MaxChunks,  \* bound on the chunks written to one pipe
          None

Pipes == {"stdout", "stderr"}
Endings == {"zero", "nonzero", "signal"}  \* exit code 0, another one, null

VARIABLES
  execute,   \* how far the call is
  shell,     \* "none", "running" or how it ended
  holders,   \* the pipes that a background process of the group keeps open
  strays,    \* the pipes that one outside the group keeps open
  sent,      \* chunks written to each pipe
  output,    \* chunks appended from each pipe
  ended,     \* the pipes whose "end" was handled
  exitCode,  \* what the exit event told, None before it
  postExit,  \* the grace timer: "off", "on"
  aborted,   \* signal.aborted
  timeout,   \* the timeout: "unset", "on", "fired"
  dirty, updateTimer, update,  \* updateDirty, the throttle and the last update
  answer     \* what the call ended with, and the chunks it shows

command == <<shell, holders, strays, sent>>
waiting == <<ended, exitCode, postExit>>
updates == <<dirty, updateTimer, update>>
vars == <<execute, command, output, waiting, aborted, timeout, updates, answer>>

Nothing == [p \in Pipes |-> 0]

Init ==
  /\ execute = "checking" /\ shell = "none" /\ holders = {} /\ strays = {}
  /\ sent = Nothing /\ output = Nothing
  /\ ended = {} /\ exitCode = None /\ postExit = "off"
  /\ aborted = FALSE /\ timeout \in {"unset", "on"}
  /\ dirty = FALSE /\ updateTimer = FALSE /\ update = Nothing
  /\ answer = None

-----------------------------------------------------------------------------
(* The command.                                                            *)

Open(p) == shell = "running" \/ p \in holders \cup strays

Write(p) ==
  /\ Open(p) /\ sent[p] < MaxChunks
  /\ sent' = [sent EXCEPT ![p] = @ + 1]
  /\ UNCHANGED <<execute, shell, holders, strays, output, waiting, aborted, timeout, updates, answer>>

Background(p) ==
  /\ shell = "running" /\ p \notin holders \cup strays
  /\ \/ holders' = holders \cup {p} /\ UNCHANGED strays
     \/ strays' = strays \cup {p} /\ UNCHANGED holders
  /\ UNCHANGED <<execute, shell, sent, output, waiting, aborted, timeout, updates, answer>>

Exit ==
  /\ shell = "running" /\ shell' \in Endings
  /\ UNCHANGED <<execute, holders, strays, sent, output, waiting, aborted, timeout, updates, answer>>

BackgroundEnds(p) ==
  /\ p \in holders \cup strays
  /\ holders' = holders \ {p} /\ strays' = strays \ {p}
  /\ UNCHANGED <<execute, shell, sent, output, waiting, aborted, timeout, updates, answer>>

\* killProcessTree: the group, also when its leader has exited
Kill ==
  /\ shell' = IF shell = "running" THEN "signal" ELSE shell
  /\ holders' = {}
  /\ UNCHANGED <<strays, sent>>

-----------------------------------------------------------------------------
(* The call.                                                               *)

\* finishOutput up to the closing of the file, then the answer
Finish(outcome) ==
  /\ execute' = "closing"
  /\ answer' = [outcome |-> outcome, chunks |-> output]
  /\ updateTimer' = FALSE /\ dirty' = FALSE
  /\ update' = IF dirty THEN output ELSE update

\* No such directory, no shell, or aborted before the spawn; and spawn emits "error"
Refuse ==
  /\ execute = "checking"
  /\ \E why \in (IF aborted THEN {"aborted", "error"} ELSE {"error"}) : Finish(why)
  /\ UNCHANGED <<command, output, waiting, aborted, timeout>>

Start ==
  /\ execute = "checking" /\ ~aborted
  /\ shell' = "running" /\ execute' = "waiting"
  /\ UNCHANGED <<holders, strays, sent, output, waiting, aborted, timeout, updates, answer>>

\* handleData and scheduleOutputUpdate: an update now, or one that waits
Data(p) ==
  /\ execute = "waiting" /\ output[p] < sent[p]
  /\ output' = [output EXCEPT ![p] = @ + 1]
  /\ \/ dirty' = FALSE /\ update' = output' /\ updateTimer' = FALSE
     \/ dirty' = TRUE /\ updateTimer' = TRUE /\ UNCHANGED update
  /\ UNCHANGED <<execute, command, waiting, aborted, timeout, answer>>

Throttle ==
  /\ updateTimer /\ updateTimer' = FALSE
  /\ dirty' = FALSE /\ update' = IF dirty THEN output ELSE update
  /\ UNCHANGED <<execute, command, output, waiting, aborted, timeout, answer>>

\* Faulty finalize: the code decides and the kill is forgotten.
FinalizeByCode(code, timer) ==
  /\ Finish(IF code = "nonzero" THEN "failed" ELSE "ok")
  /\ postExit' = "off" /\ timeout' = timer

\* finalize, and exec after it: the abort counts first, then the timeout, whatever the
\* command ended with; a command that a signal ended has no code and did not fail
finalize(code, timer) ==
  /\ Finish(CASE aborted -> "aborted"
              [] ~aborted /\ timer = "fired" -> "timeout"
              [] OTHER -> IF code = "nonzero" THEN "failed" ELSE "ok")
  /\ postExit' = "off" /\ timeout' = timer

\* onStdoutEnd, onStderrEnd
End(p) ==
  /\ execute = "waiting" /\ p \notin ended /\ ~Open(p) /\ output[p] = sent[p]
  /\ ended' = ended \cup {p}
  /\ IF ended' = Pipes /\ exitCode # None
     THEN finalize(exitCode, timeout)
     ELSE UNCHANGED <<execute, answer, updates, postExit, timeout>>
  /\ UNCHANGED <<command, output, exitCode, aborted>>

\* Faulty ExitEvent: without the grace timer.
ExitAwaitsPipes ==
  /\ execute = "waiting" /\ shell \in Endings /\ exitCode = None
  /\ exitCode' = shell
  /\ IF ended = Pipes
     THEN finalize(shell, timeout)
     ELSE UNCHANGED <<execute, answer, updates, postExit, timeout>>
  /\ UNCHANGED <<command, output, ended, aborted>>

\* onExit
ExitEvent ==
  /\ execute = "waiting" /\ shell \in Endings /\ exitCode = None
  /\ exitCode' = shell
  /\ IF ended = Pipes
     THEN finalize(shell, timeout)
     ELSE postExit' = "on" /\ UNCHANGED <<execute, answer, updates, timeout>>
  /\ UNCHANGED <<command, output, ended, aborted>>

\* EXIT_STDIO_GRACE_MS have passed: the streams are destroyed
PostExit ==
  /\ execute = "waiting" /\ postExit = "on"
  /\ finalize(exitCode, timeout)
  /\ UNCHANGED <<command, output, ended, exitCode, aborted>>

Abort ==
  /\ ~aborted /\ aborted' = TRUE
  /\ IF execute = "waiting" THEN Kill ELSE UNCHANGED command
  /\ UNCHANGED <<execute, output, waiting, timeout, updates, answer>>

TimeOut ==
  /\ execute = "waiting" /\ timeout = "on"
  /\ timeout' = "fired" /\ Kill
  /\ UNCHANGED <<execute, output, waiting, aborted, updates, answer>>

\* closeTempFile is over: the tool returns or throws
Return ==
  /\ execute = "closing" /\ execute' = "returned"
  /\ UNCHANGED <<command, output, waiting, aborted, timeout, updates, answer>>

Call == Refuse \/ Start \/ Throttle \/ ExitEvent \/ PostExit \/ Return \/ \E p \in Pipes : Data(p) \/ End(p)
Command == Exit \/ \E p \in Pipes : Write(p) \/ Background(p) \/ BackgroundEnds(p)

Next == Call \/ Command \/ Abort \/ TimeOut

\* The event loop runs and the timers fire; nothing is assumed of the command.
Fairness ==
  /\ WF_vars(Refuse \/ Start) /\ WF_vars(ExitEvent) /\ WF_vars(PostExit) /\ WF_vars(Return)
  /\ WF_vars(TimeOut)

FairSpec == Init /\ [][Next]_vars /\ Fairness

-----------------------------------------------------------------------------

Answered == execute \in {"closing", "returned"}

TypeOK ==
  /\ execute \in {"checking", "waiting", "closing", "returned"}
  /\ shell \in {"none", "running"} \cup Endings
  /\ holders \subseteq Pipes /\ strays \subseteq Pipes /\ ended \subseteq Pipes
  /\ sent \in [Pipes -> 0 .. MaxChunks] /\ output \in [Pipes -> 0 .. MaxChunks]
  /\ exitCode \in Endings \cup {None} /\ postExit \in {"off", "on"}
  /\ aborted \in BOOLEAN /\ timeout \in {"unset", "on", "fired"}
  /\ dirty \in BOOLEAN /\ updateTimer \in BOOLEAN /\ update \in [Pipes -> 0 .. MaxChunks]
  /\ Answered => answer \in [outcome : {"ok", "failed", "aborted", "timeout", "error"},
                             chunks : [Pipes -> 0 .. MaxChunks]]

\* The user saw in the last update what the answer holds, and no update or output comes
\* after it.
LastUpdateIsAnswer == Answered => update = answer.chunks /\ output = answer.chunks /\ ~updateTimer

\* A call that answers has a dead shell; one that was stopped has left no process of its
\* group behind.
NoOrphans ==
  Answered =>
    /\ shell # "running"
    /\ answer.outcome = "timeout" \/ (answer.outcome = "aborted" /\ shell # "none") => holders = {}

\* "ok" means that the shell ended by itself with code 0, or by a signal of somebody else:
\* a call that was killed by the tool never succeeds.
SuccessIsReal ==
  Answered => (answer.outcome = "ok" => shell \in {"zero", "signal"} /\ timeout # "fired")

\* A command that ended with nobody holding its pipes is shown in full, unless the grace
\* time was over before its output was read.
WholeOutput == Answered /\ answer.outcome \in {"ok", "failed"} /\ ended = Pipes => answer.chunks = sent

\* Output that no update has shown has one ahead.
UpdatesFollow == ~Answered => IF dirty THEN updateTimer ELSE update = output

\* What the call knows of the shell is so, before the spawn and after the exit event.
ShellIsKnown ==
  /\ execute = "checking" => shell = "none" /\ ended = {} /\ timeout # "fired"
  /\ exitCode # None => exitCode = shell /\ shell \in Endings
  /\ postExit = "on" => exitCode # None

\* An abort and a timeout have left nothing of the group behind, and nothing comes after.
StoppedIsDead ==
  execute = "waiting" /\ (aborted \/ timeout = "fired") => shell # "running" /\ holders = {}

\* The end of a pipe comes after everything that was written to it.
EndedIsRead == \A p \in ended : ~Open(p) /\ output[p] = sent[p]

BashInv ==
  /\ TypeOK /\ UpdatesFollow /\ ShellIsKnown /\ StoppedIsDead /\ EndedIsRead
  /\ LastUpdateIsAnswer /\ NoOrphans /\ SuccessIsReal /\ WholeOutput

\* A call that is aborted, has a timeout or whose shell has exited returns, whatever the
\* processes that it left behind do with its pipes.
StoppedCallReturns == aborted \/ timeout = "on" \/ shell \in Endings ~> execute = "returned"
=============================================================================
