----------------------------- MODULE SessionUsage -----------------------------
(***************************************************************************)
(* How much a conversation has used: the tokens of the whole session, the  *)
(* occupation of the context window, and the tokens and the duration that  *)
(* stand below each reply.  Each of them is computed twice: by the page,   *)
(* from the events of the stream, and by the daemon, from the file.        *)
(*                                                                         *)
(* The file is one branch, and an entry's position stands for its id.  An  *)
(* answer counts one token or none (an LLM that reports no usage); an      *)
(* estimate is kept as what it is made of, the answer whose usage is taken *)
(* and the messages after it that are estimated.  A run is named by the    *)
(* position of its question, which also stands for its duration.           *)
(***************************************************************************)
EXTENDS Naturals, Sequences, SequencesExt, FiniteSets

CONSTANTS MaxBranch,  \* the length of the branch
          MaxLoads,   \* answers of GET settings on their way at one time
          None

VARIABLES
  branch,     \* sequence of [kind, cut, usage, ref]
  running,    \* the run under way, or 0
  due,        \* an answer whose turn_end is still to come, or 0
  events,     \* what the hub has published and the page has not handled
  connected,  \* the page reads the stream
  settings,   \* sessionSettings of the page: None or [used, context]
  loads,      \* GET settings under way, oldest first: None, then what the daemon has read and
              \* the length that the branch had
  streamed,   \* streamingTurnUsage
  reply,      \* what agent_end left below the last reply: None or [run, used]
  whole,      \* the page has seen the run from its agent_start
  exact,      \* the settings came while nothing had changed since they were read, and no
              \* event was lost since
  lost,       \* an event was lost, and none that reloads the settings was handled since
  older,      \* how many of loads are older than an answer that has arrived
  overtaken   \* the last answer of GET settings that arrived was one of these

fileVars == <<branch, running, due>>
pageVars == <<connected, settings, loads, streamed, reply, whole, exact, lost, older, overtaken>>
vars == <<fileVars, events, pageVars>>

Init ==
  /\ branch = <<>> /\ running = 0 /\ due = 0 /\ events = <<>>
  /\ connected = FALSE /\ settings = None /\ loads = <<>> /\ streamed = 0 /\ reply = None
  /\ whole = FALSE /\ exact = FALSE /\ lost = FALSE /\ older = 0 /\ overtaken = FALSE

Kind(i) == branch[i].kind
Entries(kind) == {i \in DOMAIN branch : Kind(i) = kind}
MaxOf(S) == IF S = {} THEN 0 ELSE CHOOSE x \in S : \A y \in S : y <= x

-----------------------------------------------------------------------------
(* What the daemon computes from the branch. *)

\* aggregateSessionTokenUsage, of a set of answers
Used(answers) == Cardinality({i \in answers : branch[i].usage > 0})

Compaction == MaxOf(Entries("compaction"))

\* pi's buildSessionContext: a compaction replaces what lies before its first kept entry.
InContext ==
  {i \in Entries("user") \cup Entries("assistant") \cup Entries("toolResult") :
     Compaction = 0 \/ i >= branch[Compaction].ref}

\* getAssistantUsage: of answers neither aborted nor failed
Usable == {i \in Entries("assistant") : ~branch[i].cut}

\* hasPostCompactionAssistantUsage: the last of them decides.
hasPostCompactionAssistantUsage ==
  LET last == MaxOf({i \in Usable : i > Compaction}) IN last # 0 /\ branch[last].usage > 0

Pending == [from |-> 0, trailing |-> {0}]

estimateContextUsage ==
  LET from == MaxOf(Usable \cap InContext)
  IN [from |-> from, trailing |-> {i \in InContext : i > from}]

\* Faulty computeContextUsageFromBranchEntries: a kept answer's usage counts.
AlwaysEstimate == estimateContextUsage

computeContextUsage ==
  IF Compaction # 0 /\ ~hasPostCompactionAssistantUsage THEN Pending ELSE estimateContextUsage

\* SessionSettingsService.get
Settings == [used |-> Used(Entries("assistant")), context |-> computeContextUsage]

\* mapBranchMessages: the answers of the context in turn take the entries of the branch's
\* answers in turn.
EntryOf(j) ==
  LET place == Cardinality({i \in Entries("assistant") \cap InContext : i <= j})
  IN CHOOSE e \in Entries("assistant") : Cardinality({i \in Entries("assistant") : i <= e}) = place

\* The replies that are shown, each named by its last answer
Replies ==
  {j \in Entries("assistant") \cap InContext :
     \A i \in InContext : /\ i > j /\ Kind(i) = "assistant"
                          => \E u \in Entries("user") : j < u /\ u < i}

ReplyOf(j) ==
  {i \in Entries("assistant") \cap InContext : i <= j /\ \A u \in Entries("user") : u < i \/ u > j}

\* flushAssistantTurn: the muse_turn_stats under the entry, 0 if there are none
DurationShown(j) ==
  LET s == EntryOf(j) + 1 IN IF s \in Entries("stats") THEN branch[s].ref ELSE 0

-----------------------------------------------------------------------------
(* The daemon's harness. *)

Room == Len(branch) < MaxBranch
Entry(kind, cut, usage, ref) == [kind |-> kind, cut |-> cut, usage |-> usage, ref |-> ref]
Store(entry) == Room /\ branch' = Append(branch, entry)
Publish(event) == events' = Append(events, event)
LastKind == IF branch = <<>> THEN "none" ELSE Kind(Len(branch))
AtRest == running = 0 /\ due = 0

\* A turn begins: agent_start, and the question is stored.
Ask ==
  /\ AtRest /\ Store(Entry("user", FALSE, 0, 0))
  /\ running' = Len(branch) + 1 /\ Publish([type |-> "agent_start"])
  /\ UNCHANGED <<due, pageVars>>

\* A message of the user within the turn
Steer ==
  /\ running # 0 /\ due = 0 /\ LastKind \in {"assistant", "toolResult"}
  /\ LastKind = "assistant" => ~branch[Len(branch)].cut
  /\ Store(Entry("user", FALSE, 0, 0))
  /\ UNCHANGED <<running, due, events, pageVars>>

Answer(cut, usage) ==
  /\ running # 0 /\ due = 0 /\ LastKind \in {"user", "toolResult"}
  /\ Store(Entry("assistant", cut, usage, 0))
  /\ due' = Len(branch) + 1
  /\ UNCHANGED <<running, events, pageVars>>

ToolResult ==
  /\ due = Len(branch) /\ due # 0 /\ ~branch[due].cut
  /\ Store(Entry("toolResult", FALSE, 0, 0))
  /\ UNCHANGED <<running, due, events, pageVars>>

\* turn_end: the usage of the answer, and the context as the file is now
TurnEnd ==
  /\ due # 0
  /\ Publish([type |-> "turn_end", usage |-> branch[due].usage, context |-> computeContextUsage])
  /\ due' = 0
  /\ UNCHANGED <<branch, running, pageVars>>

\* agent_end: the duration is stored, if that does not fail, and published.
AgentEnd ==
  /\ running # 0 /\ due = 0 /\ LastKind = "assistant"
  /\ Store(Entry("stats", FALSE, 0, running)) \/ UNCHANGED branch
  /\ Publish([type |-> "agent_end", run |-> running])
  /\ running' = 0
  /\ UNCHANGED <<due, pageVars>>

\* runCompact: pi chooses the first entry that it keeps.  (One that fails stores nothing; the
\* page loads the settings all the same.)
Compact ==
  /\ AtRest /\ Entries("assistant") # {} /\ LastKind # "compaction"
  /\ \E kept \in {i \in InContext : Kind(i) # "toolResult"} : Store(Entry("compaction", FALSE, 0, kept))
  /\ Publish([type |-> "compaction_end"])
  /\ UNCHANGED <<running, due, pageVars>>

-----------------------------------------------------------------------------
(* The page. *)

\* connectSession asks for the settings, and subscribes when it has them.
OpenPage ==
  /\ settings = None /\ loads = <<>>
  /\ loads' = <<None>>
  /\ UNCHANGED <<fileVars, events, connected, settings, streamed, reply, whole, exact, lost, older, overtaken>>

Connect ==
  /\ settings # None /\ ~connected
  /\ connected' = TRUE
  /\ UNCHANGED <<fileVars, events, settings, loads, streamed, reply, whole, exact, lost, older, overtaken>>

\* The stream breaks; an event that was on its way is gone, the others wait in the hub.
Disconnect ==
  /\ connected /\ events # <<>>
  /\ connected' = FALSE /\ events' = Tail(events)
  /\ exact' = FALSE /\ whole' = FALSE /\ lost' = TRUE
  /\ UNCHANGED <<fileVars, settings, loads, streamed, reply, older, overtaken>>

ReadSettings ==
  /\ \E k \in DOMAIN loads : /\ loads[k] = None /\ \A i \in 1 .. k - 1 : loads[i] # None
                             /\ loads' = [loads EXCEPT ![k] = [read |-> Settings, at |-> Len(branch)]]
  /\ UNCHANGED <<fileVars, events, connected, settings, streamed, reply, whole, exact, lost, older, overtaken>>

\* loadSettings after its await
SettingsArrive ==
  \E k \in DOMAIN loads :
    /\ loads[k] # None
    /\ settings' = loads[k].read /\ loads' = RemoveAt(loads, k)
    /\ overtaken' = (k <= older)
    /\ older' = IF k <= older THEN older - 1 ELSE k - 1
    /\ exact' = (loads' = <<>> /\ AtRest /\ events = <<>> /\ loads[k].at = Len(branch))
    /\ UNCHANGED <<fileVars, events, connected, streamed, reply, whole, lost>>

Load == Len(loads) < MaxLoads /\ loads' = Append(loads, None)

\* onEvent
Deliver ==
  /\ connected /\ events # <<>> /\ events' = Tail(events)
  /\ LET e == Head(events) IN
     \/ /\ e.type = "agent_start"
        /\ streamed' = 0 /\ whole' = TRUE /\ reply' = None
        /\ UNCHANGED <<settings, loads>>
     \/ /\ e.type = "turn_end"
        /\ settings' = [used |-> settings.used + e.usage, context |-> e.context]
        /\ streamed' = streamed + e.usage
        /\ UNCHANGED <<loads, reply, whole>>
     \/ /\ e.type = "agent_end" /\ Load
        /\ reply' = IF whole THEN [run |-> e.run, used |-> streamed] ELSE None
        /\ streamed' = 0 /\ whole' = FALSE
        /\ UNCHANGED settings
     \/ /\ e.type = "compaction_end" /\ Load
        /\ UNCHANGED <<settings, streamed, reply, whole>>
  /\ lost' = (lost /\ Head(events).type \notin {"agent_end", "compaction_end"})
  /\ UNCHANGED <<fileVars, connected, exact, older, overtaken>>

Next ==
  \/ Ask \/ Steer \/ ToolResult \/ TurnEnd \/ AgentEnd \/ Compact
  \/ \E cut \in BOOLEAN, usage \in 0 .. 1 : Answer(cut, usage)
  \/ OpenPage \/ Connect \/ Disconnect \/ ReadSettings \/ SettingsArrive \/ Deliver

Spec == Init /\ [][Next]_vars

-----------------------------------------------------------------------------

\* What is stored of answers that the page has still to hear of
Unheard ==
  LET sum[n \in 0 .. Len(events)] ==
        IF n = 0 THEN 0 ELSE sum[n - 1] + (IF events[n].type = "turn_end" THEN events[n].usage ELSE 0)
  IN sum[Len(events)] + (IF due = 0 THEN 0 ELSE branch[due].usage)

\* From settings that came at rest, and as long as no event is lost and no other settings are
\* asked for, the page counts every answer once.
EveryAnswerCounts == exact /\ loads = <<>> => settings.used + Unheard = Used(Entries("assistant"))

\* When nothing is under way, the page shows the usage and the occupation that a reload would
\* show, whatever it has counted twice or missed, unless the last event was lost or an answer
\* of GET settings was overtaken.
Settles ==
  settings # None /\ AtRest /\ events = <<>> /\ loads = <<>> /\ ~lost /\ ~overtaken => settings = Settings

\* The occupation never rests on an answer given before the latest compaction, nor on one
\* that a later completed answer has replaced, and every later message is estimated.
ContextIsCurrent ==
  LET c == computeContextUsage IN
  c # Pending =>
    /\ c.from = 0 => Compaction = 0
    /\ c.from # 0 => c.from > Compaction
    /\ \A i \in InContext : i \in c.trailing <=> i > c.from
    /\ \A i \in Usable : i <= c.from

\* As long as no compaction has cut off an answer, every stored duration stands below one
\* reply, the one whose run took it.
DurationsFit ==
  Entries("assistant") \subseteq InContext =>
    \A s \in Entries("stats") : {j \in Replies : DurationShown(j) = branch[s].ref} = {s - 1}

\* What the stream has counted for a reply is what the tree shows for it, if the page has
\* followed the run from its start, the user sent nothing within it, and no compaction has cut
\* off a part of it since.
ReplyUsageAgrees ==
  reply # None =>
    LET next == {s \in Entries("stats") \cup Entries("user") : s > reply.run}
        answers == {i \in Entries("assistant") : i > reply.run /\ \A s \in next : i < s}
    IN (answers \in SUBSET InContext /\ \E j \in Replies : DurationShown(j) = reply.run /\ j \in answers)
         => \E j \in Replies : j \in answers /\ ReplyOf(j) = answers /\ reply.used = Used(answers)

UsageInv == EveryAnswerCounts /\ Settles /\ ContextIsCurrent /\ DurationsFit /\ ReplyUsageAgrees
=============================================================================
