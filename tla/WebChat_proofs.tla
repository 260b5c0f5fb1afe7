--------------------------- MODULE WebChat_proofs ---------------------------
(***************************************************************************)
(* Proofs about the chat page of the web client, for any sessions, prompts,*)
(* attempts to connect, tree requests and bounds: as long as attempts to   *)
(* connect do not overlap there is one subscription, which sseAbortRef can *)
(* abort and which feeds the screen of its own session; and a message      *)
(* reaches the session for which the user wrote it.  Then about the        *)
(* scrolling of the chat, for content of any height: who reads further up  *)
(* is left there, and who wants to follow is followed to the end.  Then    *)
(* about the settings: the providers page and the models page.             *)
(***************************************************************************)
EXTENDS WebChat, AutoScroll, SettingsPages, SequenceTheorems, FiniteSetTheorems, WellFoundedInduction, TLAPS

USE WebChatAssumption

-----------------------------------------------------------------------------
(* Types of what is computed.                                              *)

\* The messages and the reply of a turn are messages.
LEMMA MessagesMade ==
    ASSUME NEW k \in Prompts \cup {None}
    PROVE  User(k) \in Message /\ Assistant(k) \in Message /\ Reply(k) \in Message
BY DEF User, Assistant, Reply, Message

\* What the events make of a message is a message.
LEMMA MessageChanged ==
    ASSUME NEW m \in Message, NEW k \in Prompts \cup {None}
    PROVE  /\ [m EXCEPT !.turn = k] \in Message
           /\ [m EXCEPT !.tool = TRUE] \in Message
           /\ [m EXCEPT !.tool = FALSE] \in Message
           /\ [m EXCEPT !.streaming = FALSE] \in Message
           /\ [m EXCEPT !.streaming = FALSE, !.tool = FALSE] \in Message
           /\ [m EXCEPT !.streaming = FALSE, !.error = TRUE] \in Message
           /\ [m EXCEPT !.streaming = FALSE, !.tool = FALSE, !.error = TRUE] \in Message
BY DEF Message

\* A sequence of messages in which one is replaced is one.
LEMMA MessageReplaced ==
    ASSUME NEW ms \in Seq(Message), NEW i, NEW m, i \in DOMAIN ms => m \in Message
    PROVE  [ms EXCEPT ![i] = m] \in Seq(Message)
<1>1. CASE i \in DOMAIN ms
  BY <1>1
<1>2. CASE i \notin DOMAIN ms
  <2>1. [ms EXCEPT ![i] = m] = ms
    BY <1>2
  <2> QED
    BY <2>1
<1> QED
  BY <1>1, <1>2

\* The screen stays a sequence of messages when an event is applied.
LEMMA EventApplied ==
    ASSUME NEW ms \in Seq(Message), NEW e \in SseEvent
    PROVE  applySseEvent(ms, e) \in Seq(Message)
<1> DEFINE at == {i \in DOMAIN ms : ms[i].role = "assistant"}
           last == CHOOSE j \in at : \A h \in at : h <= j
<1>1. e.turn \in Prompts \cup {None}
  BY DEF SseEvent
<1>2. Reply(e.turn) \in Message
  BY <1>1, MessagesMade
<1>3. last \in DOMAIN ms => ms[last] \in Message
  OBVIOUS
<1>4. CASE e.type = "agent_start"
  BY <1>2, <1>4 DEF applySseEvent
<1>5. CASE e.type = "text_delta"
  <2>1. [Reply(e.turn) EXCEPT !.turn = e.turn] \in Message
    BY <1>1, <1>2, MessageChanged
  <2>2. last \in DOMAIN ms => [ms[last] EXCEPT !.turn = e.turn] \in Message
    BY <1>1, <1>3, MessageChanged
  <2>3. [ms EXCEPT ![last] = [ms[last] EXCEPT !.turn = e.turn]] \in Seq(Message)
    BY <2>2, MessageReplaced
  <2> QED
    BY <1>5, <2>1, <2>3 DEF applySseEvent, updateLastAssistant
<1>6. CASE e.type = "tool_start"
  <2>1. [Reply(e.turn) EXCEPT !.tool = TRUE] \in Message
    BY <1>1, <1>2, MessageChanged
  <2>2. last \in DOMAIN ms => [ms[last] EXCEPT !.tool = TRUE] \in Message
    BY <1>1, <1>3, MessageChanged
  <2>3. [ms EXCEPT ![last] = [ms[last] EXCEPT !.tool = TRUE]] \in Seq(Message)
    BY <2>2, MessageReplaced
  <2> QED
    BY <1>6, <2>1, <2>3 DEF applySseEvent, updateLastAssistant
<1>7. CASE e.type = "tool_end"
  <2>1. [Reply(e.turn) EXCEPT !.tool = FALSE] \in Message
    BY <1>1, <1>2, MessageChanged
  <2>2. last \in DOMAIN ms => [ms[last] EXCEPT !.tool = FALSE] \in Message
    BY <1>1, <1>3, MessageChanged
  <2>3. [ms EXCEPT ![last] = [ms[last] EXCEPT !.tool = FALSE]] \in Seq(Message)
    BY <2>2, MessageReplaced
  <2> QED
    BY <1>7, <2>1, <2>3 DEF applySseEvent, updateLastAssistant
<1>8. CASE e.type = "agent_end"
  <2>1. [Reply(e.turn) EXCEPT !.streaming = FALSE, !.tool = FALSE] \in Message
    BY <1>1, <1>2, MessageChanged
  <2>2. last \in DOMAIN ms => [ms[last] EXCEPT !.streaming = FALSE, !.tool = FALSE] \in Message
    BY <1>1, <1>3, MessageChanged
  <2>3. [ms EXCEPT ![last] = [ms[last] EXCEPT !.streaming = FALSE, !.tool = FALSE]] \in Seq(Message)
    BY <2>2, MessageReplaced
  <2> QED
    BY <1>8, <2>1, <2>3 DEF applySseEvent, updateLastAssistant
<1>9. CASE e.type = "error"
  <2>1. [Reply(e.turn) EXCEPT !.streaming = FALSE, !.error = TRUE] \in Message
    BY <1>1, <1>2, MessageChanged
  <2>2. last \in DOMAIN ms => [ms[last] EXCEPT !.streaming = FALSE, !.error = TRUE] \in Message
    BY <1>1, <1>3, MessageChanged
  <2>3. [ms EXCEPT ![last] = [ms[last] EXCEPT !.streaming = FALSE, !.error = TRUE]] \in Seq(Message)
    BY <2>2, MessageReplaced
  <2> QED
    BY <1>9, <2>1, <2>3 DEF applySseEvent, updateLastAssistant
<1>10. CASE e.type \in {"compaction_start", "compaction_end"}
  BY <1>10 DEF applySseEvent
<1> QED
  BY <1>4, <1>5, <1>6, <1>7, <1>8, <1>9, <1>10 DEF SseEvent

\* So it does when the branch of a session replaces it.
LEMMA BranchMerged ==
    ASSUME NEW ms \in Seq(Message), NEW tree \in Seq(Message), NEW finalize
    PROVE  mergeBranchWithEphemeralTail(ms, tree, finalize) \in Seq(Message)
<1>1. CASE ~LastIsAssistant(ms)
  BY <1>1 DEF mergeBranchWithEphemeralTail
<1>2. CASE LastIsAssistant(ms)
  <2>1. Last(ms) \in Message
    BY <1>2 DEF LastIsAssistant, Last
  <2>2. /\ finalizeInterruptedAssistant(Last(ms)) \in Message
        /\ [Last(ms) EXCEPT !.streaming = FALSE] \in Message
    BY <2>1, MessageChanged DEF finalizeInterruptedAssistant
  <2>3. ASSUME NEW m \in Message PROVE KeepTail(tree, m) \in Seq(Message)
    BY <2>3 DEF KeepTail
  <2> QED
    BY <1>2, <2>2, <2>3 DEF mergeBranchWithEphemeralTail
<1> QED
  BY <1>1, <1>2

\* stopGeneration leaves a sequence of messages.
LEMMA ReplyStopped ==
    ASSUME NEW ms \in Seq(Message)
    PROVE  updateLastAssistant(ms, None, LAMBDA m : [m EXCEPT !.streaming = FALSE, !.tool = FALSE])
             \in Seq(Message)
<1> DEFINE at == {i \in DOMAIN ms : ms[i].role = "assistant"}
           last == CHOOSE j \in at : \A h \in at : h <= j
<1>1. [Reply(None) EXCEPT !.streaming = FALSE, !.tool = FALSE] \in Message
  BY MessagesMade, MessageChanged
<1>2. last \in DOMAIN ms => [ms[last] EXCEPT !.streaming = FALSE, !.tool = FALSE] \in Message
  <2>1. ASSUME NEW m \in Message PROVE [m EXCEPT !.streaming = FALSE, !.tool = FALSE] \in Message
    BY MessageChanged, None \in Prompts \cup {None}
  <2>2. last \in DOMAIN ms => ms[last] \in Message
    OBVIOUS
  <2> QED
    BY <2>1, <2>2
<1>3. [ms EXCEPT ![last] = [ms[last] EXCEPT !.streaming = FALSE, !.tool = FALSE]] \in Seq(Message)
  BY <1>2, MessageReplaced
<1> QED
  BY <1>1, <1>3 DEF updateLastAssistant

-----------------------------------------------------------------------------
(* Types of the state.                                                     *)

\* An attempt that takes another step is an attempt.
LEMMA AttemptTyped ==
    ASSUME NEW c \in [Conns -> Attempt], NEW i \in Conns,
           NEW st \in {"free", "health", "settings", "tree", "subscribe", "open", "sleep", "ended"}
    PROVE  /\ [c EXCEPT ![i].step = st] \in [Conns -> Attempt]
           /\ [c EXCEPT ![i].step = st, ![i].ever = TRUE] \in [Conns -> Attempt]
<1> DEFINE a == c[i]
<1>0. a \in Attempt
  OBVIOUS
<1> HIDE DEF a
<1>1. [a EXCEPT !.step = st] \in Attempt
  BY <1>0 DEF Attempt
<1>2. [a EXCEPT !.step = st, !.ever = TRUE] \in Attempt
  BY <1>0 DEF Attempt
<1> USE DEF a
<1>3. [c EXCEPT ![i] = [c[i] EXCEPT !.step = st]] \in [Conns -> Attempt]
  BY <1>1
<1>4. [c EXCEPT ![i] = [c[i] EXCEPT !.step = st, !.ever = TRUE]] \in [Conns -> Attempt]
  BY <1>2
<1>5. [c EXCEPT ![i].step = st] = [c EXCEPT ![i] = [c[i] EXCEPT !.step = st]]
  OBVIOUS
<1>6. [c EXCEPT ![i].step = st, ![i].ever = TRUE] = [c EXCEPT ![i] = [c[i] EXCEPT !.step = st, !.ever = TRUE]]
  OBVIOUS
<1> QED
  BY <1>3, <1>4, <1>5, <1>6

\* Aborting a subscription leaves attempts.
LEMMA AbortTyped ==
    ASSUME TypeOK
    PROVE  Abort(conn) \in [Conns -> Attempt] /\ AbortedWire \in [Conns -> Seq(SseEvent)]
<1>1. CASE sseAbort = None
  BY <1>1 DEF Abort, AbortedWire, TypeOK
<1>2. CASE sseAbort # None
  <2>1. sseAbort \in Conns
    BY <1>2 DEF TypeOK
  <2>2. [conn EXCEPT ![sseAbort].step = "ended"] \in [Conns -> Attempt]
    BY <2>1, AttemptTyped DEF TypeOK
  <2>3. [wire EXCEPT ![sseAbort] = <<>>] \in [Conns -> Seq(SseEvent)]
    <3>1. wire \in [Conns -> Seq(SseEvent)] /\ <<>> \in Seq(SseEvent)
      BY DEF TypeOK
    <3> QED
      BY <2>1, <3>1
  <2> QED
    BY <1>2, <2>2, <2>3 DEF Abort, AbortedWire
<1> QED
  BY <1>1, <1>2

\* A new attempt is one of the free ones.
LEMMA StartTyped ==
    ASSUME NEW c \in [Conns -> Attempt], NEW gone \in SUBSET Conns, NEW kind \in {"init", "retry"},
           NEW s \in Sessions, StartAttempt(c, gone, kind, s)
    PROVE  conn' \in [Conns -> Attempt] /\ cancelled' \subseteq Conns /\ overlap' \in BOOLEAN
<1>1. PICK i \in FreeConn : conn' = [c EXCEPT ![i] = [NoConn EXCEPT !.of = s, !.kind = kind, !.step = "health"]]
  BY DEF StartAttempt
<1>2. [NoConn EXCEPT !.of = s, !.kind = kind, !.step = "health"] \in Attempt
  BY DEF NoConn, Attempt
<1>3. cancelled' = gone /\ overlap' \in BOOLEAN
  BY DEF StartAttempt, MeetsOther
<1> QED
  BY <1>1, <1>2, <1>3

\* A new tree request is a request.
LEMMA RefreshTyped ==
    ASSUME TypeOK, NEW s \in Sessions, NEW finalize \in BOOLEAN, NEW waiter \in Conns \cup {None},
           refreshTree(s, finalize, waiter)
    PROVE  refresh' \in [Refreshes -> TreeRequest \cup {None}] /\ treeError' \in BOOLEAN
<1>1. NewRefresh(s, finalize, waiter) \in TreeRequest
  BY DEF NewRefresh, TreeRequest
<1>2. refresh \in [Refreshes -> TreeRequest \cup {None}]
  BY DEF TypeOK
<1>3. PICK x \in Refreshes : refresh' = [refresh EXCEPT ![x] = NewRefresh(s, finalize, waiter)] /\ treeError' = FALSE
  BY DEF refreshTree, FreeRefresh
<1> QED
  BY <1>1, <1>2, <1>3

\* A stream or the buffer takes the events that are published.
LEMMA PublishTyped ==
    ASSUME TypeOK, NEW s \in Sessions, NEW events \in Seq(SseEvent), publish(s, events)
    PROVE  wire' \in [Conns -> Seq(SseEvent)] /\ pending' \in [Sessions -> Seq(SseEvent)]
<1>1. wire \in [Conns -> Seq(SseEvent)] /\ pending \in [Sessions -> Seq(SseEvent)]
  BY DEF TypeOK
<1>2. pending[s] \o events \in Seq(SseEvent)
  BY <1>1
<1>3. \A i \in Conns : wire[i] \o events \in Seq(SseEvent)
  BY <1>1
<1>4. CASE Clients(s) = {}
  BY <1>1, <1>2, <1>4 DEF publish
<1>5. CASE Clients(s) # {}
  <2>1. wire' = [i \in Conns |-> IF i \in Clients(s) THEN wire[i] \o events ELSE wire[i]] /\ pending' = pending
    BY <1>5 DEF publish
  <2> QED
    BY <1>1, <1>3, <2>1
<1> QED
  BY <1>4, <1>5

\* connectSession subscribes for an attempt, or nothing waits for the tree.
LEMMA ProceedTyped ==
    ASSUME TypeOK, NEW i \in Conns \cup {None}, Proceed(i)
    PROVE  conn' \in [Conns -> Attempt] /\ sseAbort' \in Conns \cup {None}
<1>1. CASE i = None
  BY <1>1 DEF Proceed, TypeOK
<1>2. CASE i # None
  <2>1. i \in Conns /\ conn \in [Conns -> Attempt]
    BY <1>2 DEF TypeOK
  <2>2. [conn EXCEPT ![i].step = "subscribe"] \in [Conns -> Attempt]
    BY <2>1, AttemptTyped
  <2> QED
    BY <1>2, <2>1, <2>2 DEF Proceed
<1> QED
  BY <1>1, <1>2

\* The daemon's part of the state keeps its types.
LEMMA DaemonTyped ==
    ASSUME TypeOK, NEW s \in Sessions, DaemonStep(s)
    PROVE  /\ wire' \in [Conns -> Seq(SseEvent)] /\ pending' \in [Sessions -> Seq(SseEvent)]
           /\ branch' \in [Sessions -> Seq(Message)] /\ jobs' \in [Sessions -> Seq(Prompts \cup {Compaction})]
           /\ turn' \in [Sessions -> [job : Prompts \cup {Compaction, None}, stored : BOOLEAN, tool : BOOLEAN]]
<1> DEFINE Turns == [job : Prompts \cup {Compaction, None}, stored : BOOLEAN, tool : BOOLEAN]
<1>1. /\ turn[s] \in Turns /\ branch[s] \in Seq(Message) /\ jobs[s] \in Seq(Prompts \cup {Compaction})
      /\ Idle \in Turns
  BY DEF TypeOK, Idle
<1>2. ASSUME NEW m \in Message PROVE [branch EXCEPT ![s] = Append(@, m)] \in [Sessions -> Seq(Message)]
  BY <1>1 DEF TypeOK
<1>3. ASSUME NEW t \in Turns PROVE [turn EXCEPT ![s] = t] \in [Sessions -> Turns]
  BY DEF TypeOK
<1>4. jobs[s] # <<>> => /\ Head(jobs[s]) \in Prompts \cup {Compaction}
                        /\ [jobs EXCEPT ![s] = Tail(@)] \in [Sessions -> Seq(Prompts \cup {Compaction})]
  BY <1>1 DEF TypeOK
<1>5. ASSUME NEW type \in {"agent_start", "text_delta", "tool_start", "tool_end", "agent_end", "error",
                           "compaction_start", "compaction_end"},
             NEW k \in Prompts \cup {None}
      PROVE  Event(type, k) \in SseEvent
  BY DEF Event, SseEvent
<1>6. /\ branch \in [Sessions -> Seq(Message)] /\ turn \in [Sessions -> Turns]
      /\ jobs \in [Sessions -> Seq(Prompts \cup {Compaction})]
  BY DEF TypeOK
<1>7. CASE /\ turn[s].job = None /\ jobs[s] # <<>> /\ Head(jobs[s]) # Compaction
           /\ jobs' = [jobs EXCEPT ![s] = Tail(@)]
           /\ \/ /\ turn' = [turn EXCEPT ![s] = [Idle EXCEPT !.job = Head(jobs[s])]]
                 /\ branch' = [branch EXCEPT ![s] = Append(@, User(Head(jobs[s])))]
                 /\ publish(s, <<Event("agent_start", Head(jobs[s]))>>)
              \/ /\ publish(s, <<Event("error", Head(jobs[s])), Event("agent_end", Head(jobs[s]))>>)
                 /\ UNCHANGED <<turn, branch>>
  <2> DEFINE k == Head(jobs[s])
  <2>1. k \in Prompts
    BY <1>4, <1>7
  <2>2. /\ <<Event("agent_start", k)>> \in Seq(SseEvent)
        /\ <<Event("error", k), Event("agent_end", k)>> \in Seq(SseEvent)
    <3>1. Event("agent_start", k) \in SseEvent /\ Event("error", k) \in SseEvent /\ Event("agent_end", k) \in SseEvent
      BY <1>5, <2>1
    <3> QED
      BY <3>1
  <2>3. wire' \in [Conns -> Seq(SseEvent)] /\ pending' \in [Sessions -> Seq(SseEvent)]
    BY <1>7, <2>2, PublishTyped
  <2>4. User(k) \in Message /\ [Idle EXCEPT !.job = k] \in Turns
    BY <1>1, <2>1, MessagesMade
  <2>5. [turn EXCEPT ![s] = [Idle EXCEPT !.job = k]] \in [Sessions -> Turns]
    BY <1>3, <2>4
  <2>6. [branch EXCEPT ![s] = Append(@, User(k))] \in [Sessions -> Seq(Message)]
    BY <1>2, <2>4
  <2>7. turn' \in [Sessions -> Turns] /\ branch' \in [Sessions -> Seq(Message)]
    BY <1>6, <1>7, <2>5, <2>6
  <2> QED
    BY <1>4, <1>7, <2>3, <2>7
<1>8. CASE /\ turn[s].job \in Prompts /\ ~turn[s].stored
           /\ turn' = [turn EXCEPT ![s].stored = TRUE, ![s].tool = TRUE]
           /\ branch' = [branch EXCEPT ![s] = Append(@, Assistant(turn[s].job))]
           /\ publish(s, <<Event("text_delta", turn[s].job), Event("tool_start", turn[s].job)>>)
           /\ UNCHANGED jobs
  <2>1. <<Event("text_delta", turn[s].job), Event("tool_start", turn[s].job)>> \in Seq(SseEvent)
    <3>1. Event("text_delta", turn[s].job) \in SseEvent /\ Event("tool_start", turn[s].job) \in SseEvent
      BY <1>5, <1>8
    <3> QED
      BY <3>1
  <2>2. wire' \in [Conns -> Seq(SseEvent)] /\ pending' \in [Sessions -> Seq(SseEvent)]
    BY <1>8, <2>1, PublishTyped
  <2>3. Assistant(turn[s].job) \in Message
    BY <1>8, MessagesMade
  <2>4. turn' \in [Sessions -> Turns]
    <3>1. [turn[s] EXCEPT !.stored = TRUE, !.tool = TRUE] \in Turns
      BY <1>1
    <3>2. turn' = [turn EXCEPT ![s] = [turn[s] EXCEPT !.stored = TRUE, !.tool = TRUE]]
      BY <1>8
    <3> QED
      BY <1>3, <3>1, <3>2
  <2> QED
    BY <1>2, <1>6, <1>8, <2>2, <2>3, <2>4
<1>9. CASE /\ turn[s].tool
           /\ turn' = [turn EXCEPT ![s].tool = FALSE]
           /\ publish(s, <<Event("tool_end", turn[s].job)>>)
           /\ UNCHANGED <<branch, jobs>>
  <2>1. turn[s].job \in Prompts
    BY <1>9 DEF TypeOK
  <2>2. <<Event("tool_end", turn[s].job)>> \in Seq(SseEvent)
    BY <1>5, <2>1
  <2>3. wire' \in [Conns -> Seq(SseEvent)] /\ pending' \in [Sessions -> Seq(SseEvent)]
    BY <1>9, <2>2, PublishTyped
  <2>4. turn' \in [Sessions -> Turns]
    <3>1. [turn[s] EXCEPT !.tool = FALSE] \in Turns
      BY <1>1
    <3>2. turn' = [turn EXCEPT ![s] = [turn[s] EXCEPT !.tool = FALSE]]
      BY <1>9
    <3> QED
      BY <1>3, <3>1, <3>2
  <2> QED
    BY <1>6, <1>9, <2>3, <2>4
<1>10. CASE /\ turn[s].job \in Prompts /\ ~turn[s].tool
            /\ turn' = [turn EXCEPT ![s] = Idle]
            /\ branch' = [branch EXCEPT ![s] = IF turn[s].stored THEN @ ELSE Append(@, Assistant(turn[s].job))]
            /\ publish(s, IF turn[s].stored THEN <<Event("agent_end", turn[s].job)>>
                          ELSE <<Event("text_delta", turn[s].job), Event("agent_end", turn[s].job)>>)
            /\ UNCHANGED jobs
  <2>1. /\ <<Event("agent_end", turn[s].job)>> \in Seq(SseEvent)
        /\ <<Event("text_delta", turn[s].job), Event("agent_end", turn[s].job)>> \in Seq(SseEvent)
    <3>1. Event("text_delta", turn[s].job) \in SseEvent /\ Event("agent_end", turn[s].job) \in SseEvent
      BY <1>5, <1>10
    <3> QED
      BY <3>1
  <2>2. wire' \in [Conns -> Seq(SseEvent)] /\ pending' \in [Sessions -> Seq(SseEvent)]
    <3>1. CASE turn[s].stored
      BY <1>10, <2>1, <3>1, PublishTyped
    <3>2. CASE ~turn[s].stored
      BY <1>10, <2>1, <3>2, PublishTyped
    <3> QED
      BY <3>1, <3>2
  <2>3. Assistant(turn[s].job) \in Message
    BY <1>10, MessagesMade
  <2>4. branch' \in [Sessions -> Seq(Message)]
    BY <1>1, <1>6, <1>10, <2>3
  <2> QED
    BY <1>1, <1>3, <1>6, <1>10, <2>2, <2>4
<1>11. CASE /\ turn[s].job = None /\ jobs[s] # <<>> /\ Head(jobs[s]) = Compaction
            /\ jobs' = [jobs EXCEPT ![s] = Tail(@)]
            /\ turn' = [turn EXCEPT ![s] = [Idle EXCEPT !.job = Compaction]]
            /\ publish(s, <<Event("compaction_start", None)>>)
            /\ UNCHANGED branch
  <2>1. <<Event("compaction_start", None)>> \in Seq(SseEvent)
    BY <1>5
  <2>2. wire' \in [Conns -> Seq(SseEvent)] /\ pending' \in [Sessions -> Seq(SseEvent)]
    BY <1>11, <2>1, PublishTyped
  <2>3. [Idle EXCEPT !.job = Compaction] \in Turns
    BY <1>1
  <2> QED
    BY <1>3, <1>4, <1>6, <1>11, <2>2, <2>3
<1>12. CASE /\ turn[s].job = Compaction
            /\ turn' = [turn EXCEPT ![s] = Idle]
            /\ publish(s, <<Event("compaction_end", None)>>)
            /\ UNCHANGED <<branch, jobs>>
  <2>1. <<Event("compaction_end", None)>> \in Seq(SseEvent)
    BY <1>5
  <2>2. wire' \in [Conns -> Seq(SseEvent)] /\ pending' \in [Sessions -> Seq(SseEvent)]
    BY <1>12, <2>1, PublishTyped
  <2> QED
    BY <1>1, <1>3, <1>6, <1>12, <2>2
<1> QED
  BY <1>7, <1>8, <1>9, <1>10, <1>11, <1>12 DEF DaemonStep

\* A tool runs in a turn only.
LEMMA ToolsTyped ==
    ASSUME TypeOK, NEW s \in Sessions, DaemonStep(s)
    PROVE  \A r \in Sessions : turn'[r].tool => turn'[r].job \in Prompts
<1>1. /\ \A r \in Sessions : turn[r].tool => turn[r].job \in Prompts
      /\ DOMAIN turn = Sessions /\ ~Idle.tool
  BY DEF TypeOK, Idle
<1>2. \/ turn' = turn
      \/ \E k : turn' = [turn EXCEPT ![s] = [Idle EXCEPT !.job = k]]
      \/ turn[s].job \in Prompts /\ turn' = [turn EXCEPT ![s].stored = TRUE, ![s].tool = TRUE]
      \/ turn' = [turn EXCEPT ![s].tool = FALSE]
      \/ turn' = [turn EXCEPT ![s] = Idle]
  BY DEF DaemonStep
<1> SUFFICES ASSUME NEW r \in Sessions, turn'[r].tool PROVE turn'[r].job \in Prompts
  OBVIOUS
<1>3. ASSUME turn'[r] = turn[r] PROVE turn'[r].job \in Prompts
  BY <1>1, <1>3
<1>4. CASE r # s
  BY <1>1, <1>2, <1>3, <1>4
<1>5. CASE r = s
  <2>1. ASSUME NEW k, turn' = [turn EXCEPT ![s] = [Idle EXCEPT !.job = k]] PROVE FALSE
    <3>1. turn'[s] = [Idle EXCEPT !.job = k]
      BY <1>1, <2>1
    <3>2. turn'[s].tool = FALSE
      BY <3>1 DEF Idle
    <3> QED
      BY <1>5, <3>2
  <2>2. CASE turn[s].job \in Prompts /\ turn' = [turn EXCEPT ![s].stored = TRUE, ![s].tool = TRUE]
    <3>1. turn'[s] = [turn[s] EXCEPT !.stored = TRUE, !.tool = TRUE]
      BY <1>1, <2>2
    <3>2. turn'[s].job = turn[s].job
      BY <3>1
    <3> QED
      BY <1>5, <2>2, <3>2
  <2>3. CASE turn' = [turn EXCEPT ![s].tool = FALSE]
    <3>1. turn'[s] = [turn[s] EXCEPT !.tool = FALSE] /\ turn[s] \in [job : Prompts \cup {Compaction, None}, stored : BOOLEAN, tool : BOOLEAN]
      BY <1>1, <2>3 DEF TypeOK
    <3>2. turn'[s].tool = FALSE
      BY <3>1
    <3> QED
      BY <1>5, <3>2
  <2>4. CASE turn' = [turn EXCEPT ![s] = Idle]
    BY <1>1, <1>5, <2>4
  <2> QED
    BY <1>2, <1>3, <1>5, <2>1, <2>2, <2>3, <2>4
<1> QED
  BY <1>4, <1>5

\* The page without the daemon: what most steps of the client leave alone.
daemonSide == <<daemonVars, wire, pending>>

\* What is said of a screen taken over from another session is true or false.
LEMMA LeftoverStep ==
    ASSUME TypeOK, Next
    PROVE  leftover' \in BOOLEAN
<1>1. leftover \in BOOLEAN
  BY DEF TypeOK
<1> SUFFICES leftover' = leftover \/ leftover' \in BOOLEAN
  BY <1>1
<1> USE DEF history, treeHistory
<1>2. ASSUME Client PROVE leftover' = leftover \/ leftover' \in BOOLEAN
  <2>1. CASE \E x \in Refreshes : AnswerTree(x) \/ ApplyTree(x)
    BY <2>1 DEF AnswerTree, ApplyTree
  <2>2. CASE \E i \in Conns : CheckHealth(i)
    BY <2>2, Zenon DEF CheckHealth
  <2>3. CASE \E i \in Conns : LoadSettings(i) \/ Subscribe(i) \/ Wake(i) \/ Deliver(i)
    BY <2>3, Zenon DEF LoadSettings, Subscribe, Wake, Deliver
  <2>4. CASE \E p \in posts : PostAnswered(p)
    BY <2>4 DEF PostAnswered
  <2> QED
    BY <1>2, <2>1, <2>2, <2>3, <2>4 DEF Client
<1>3. ASSUME Faults PROVE leftover' = leftover \/ leftover' \in BOOLEAN
  BY <1>3, Zenon DEF Faults, TreeFails, ConnectFails, StreamEnds, PostFails, DeviceLost,
        DeviceBack, CreateFails
<1>4. ASSUME UserStep PROVE leftover' = leftover \/ leftover' \in BOOLEAN
  BY <1>4, Zenon DEF UserStep, RouteTo, RouteEffect, sendMessage,
        startNewSessionWithMessage, SessionCreated,
                     stopGeneration, compactContext, RetryConnection
<1>5. ASSUME NEW s \in Sessions, Daemon(s) PROVE leftover' = leftover
  BY <1>5 DEF Daemon
<1>6. ASSUME SendPending PROVE leftover' = leftover
  BY <1>6 DEF SendPending
<1> QED
  BY <1>2, <1>3, <1>4, <1>5, <1>6 DEF Next

\* Every value stays in its set.
LEMMA TypeStep ==
    ASSUME TypeOK, AttemptsInOrder, Next
    PROVE  TypeOK'
<1> DEFINE DaemonTypes == /\ wire \in [Conns -> Seq(SseEvent)] /\ pending \in [Sessions -> Seq(SseEvent)]
                          /\ branch \in [Sessions -> Seq(Message)]
                          /\ jobs \in [Sessions -> Seq(Prompts \cup {Compaction})]
                          /\ turn \in [Sessions -> [job : Prompts \cup {Compaction, None},
                                                    stored : BOOLEAN, tool : BOOLEAN]]
                          /\ \A s \in Sessions : turn[s].tool => turn[s].job \in Prompts
           ConnTypes == /\ conn \in [Conns -> Attempt] /\ cancelled \subseteq Conns
                        /\ sseAbort \in Conns \cup {None} /\ overlap \in BOOLEAN
           ScreenTypes == /\ messages \in Seq(Message) /\ treeError \in BOOLEAN
                          /\ refresh \in [Refreshes -> TreeRequest \cup {None}]
           PageTypes == /\ route \in Sessions \cup {None} /\ sessionId \in Sessions \cup {None}
                        /\ status \in {"idle", "connecting", "ready", "error"}
                        /\ sseStatus \in {"idle", "connecting", "connected", "reconnecting", "disconnected"}
                        /\ compacting \in BOOLEAN /\ stopping \in BOOLEAN
           PromptTypes == /\ creating \in Prompts \cup {None} /\ pendingInitial \in Prompts \cup {None}
                          /\ posts \subseteq PostRequest
                          /\ sent \subseteq Prompts /\ intended \in [Prompts -> Sessions \cup {None}]
                          /\ reached \subseteq Prompts \X Sessions /\ strayed \in BOOLEAN
<1>1. DaemonTypes /\ ConnTypes /\ ScreenTypes /\ PageTypes /\ PromptTypes
  BY DEF TypeOK
<1>2. ASSUME DaemonTypes', ConnTypes', ScreenTypes', PageTypes', PromptTypes' PROVE TypeOK'
  BY <1>2, LeftoverStep DEF TypeOK
<1>3. UNCHANGED daemonSide => DaemonTypes'
  BY <1>1 DEF daemonSide, daemonVars
<1>4. UNCHANGED <<conn, cancelled, sseAbort, overlap>> => ConnTypes'
  BY <1>1
<1>5. UNCHANGED screenVars => ScreenTypes'
  BY <1>1 DEF screenVars
<1>6. UNCHANGED <<route, sessionId, status, sseStatus, compacting, stopping>> => PageTypes'
  BY <1>1
<1>7. UNCHANGED <<creating, pendingInitial, posts, writing, strayed>> => PromptTypes'
  BY <1>1 DEF writing
<1>8. \A x \in Refreshes : refresh[x] # None => refresh[x] \in TreeRequest
  BY <1>1
<1>9. \A i \in Conns : conn[i].step # "free" => conn[i].of \in Sessions
  BY DEF AttemptsInOrder
<1> HIDE DEF DaemonTypes, ConnTypes, ScreenTypes, PageTypes, PromptTypes
<1>10. ASSUME NEW x \in Refreshes, AnswerTree(x) PROVE TypeOK'
  <2>1. ScreenTypes'
    <3>1. refresh[x] \in TreeRequest /\ branch[refresh[x].session] \in Seq(Message)
      BY <1>1, <1>8, <1>10 DEF AnswerTree, TreeRequest, DaemonTypes
    <3>2. [refresh[x] EXCEPT !.answered = TRUE, !.tree = branch[refresh[x].session]] \in TreeRequest
      BY <3>1 DEF TreeRequest
    <3>3. refresh' = [refresh EXCEPT ![x] = [refresh[x] EXCEPT !.answered = TRUE, !.tree = branch[refresh[x].session]]]
      BY <1>10 DEF AnswerTree
    <3> QED
      BY <1>1, <1>10, <3>2, <3>3 DEF AnswerTree, ScreenTypes
  <2> QED
    BY <1>2, <1>3, <1>4, <1>6, <1>7, <1>10, <2>1 DEF AnswerTree, clientVars, daemonSide,
          history, crossing
<1>11. ASSUME NEW x \in Refreshes, ApplyTree(x) PROVE TypeOK'
  <2>1. refresh[x] \in TreeRequest
    BY <1>8, <1>11 DEF ApplyTree
  <2>2. ScreenTypes'
    <3>1. messages' \in Seq(Message)
      BY <1>1, <1>11, <2>1, BranchMerged DEF ApplyTree, TreeRequest, ScreenTypes
    <3> QED
      BY <1>1, <1>11, <3>1 DEF ApplyTree, ScreenTypes
  <2>3. ConnTypes'
    <3>1. conn' \in [Conns -> Attempt] /\ sseAbort' \in Conns \cup {None}
      BY <1>11, <2>1, ProceedTyped DEF ApplyTree, TreeRequest
    <3> QED
      BY <1>1, <1>11, <3>1 DEF ApplyTree, ConnTypes, crossing
  <2> QED
    BY <1>2, <1>3, <1>6, <1>7, <1>11, <2>2, <2>3 DEF ApplyTree, daemonSide, crossing
<1>12. ASSUME NEW x \in Refreshes, TreeFails(x) PROVE TypeOK'
  <2>1. refresh[x] \in TreeRequest
    BY <1>8, <1>12 DEF TreeFails
  <2>2. ScreenTypes'
    BY <1>1, <1>12 DEF TreeFails, ScreenTypes
  <2>3. ConnTypes'
    <3>1. conn' \in [Conns -> Attempt] /\ sseAbort' \in Conns \cup {None}
      BY <1>12, <2>1, ProceedTyped DEF TreeFails, TreeRequest
    <3> QED
      BY <1>1, <1>12, <3>1 DEF TreeFails, ConnTypes, history, crossing
  <2> QED
    BY <1>2, <1>3, <1>6, <1>7, <1>12, <2>2, <2>3 DEF TreeFails, daemonSide, history,
          crossing
<1>13. ASSUME NEW i \in Conns, CheckHealth(i) PROVE TypeOK'
  <2>1. DaemonTypes'
    BY <1>1, <1>13, AbortTyped DEF CheckHealth, DaemonTypes, daemonVars
  <2>2. ConnTypes'
    <3>1. conn' \in [Conns -> Attempt]
      <4>1. [conn EXCEPT ![i].step = "ended"] \in [Conns -> Attempt]
        BY <1>1, AttemptTyped DEF ConnTypes
      <4>2. [Abort(conn) EXCEPT ![i].step = "settings"] \in [Conns -> Attempt]
        BY AbortTyped, AttemptTyped
      <4> QED
        BY <1>13, <4>1, <4>2 DEF CheckHealth
    <3> QED
      BY <1>1, <1>13, <3>1 DEF CheckHealth, ConnTypes, crossing
  <2>3. ScreenTypes'
    <3>1. (messages' = messages \/ messages' = <<>>) /\ treeError' = treeError /\ refresh' = refresh
      BY <1>13 DEF CheckHealth
    <3>2. <<>> \in Seq(Message) /\ messages \in Seq(Message)
      BY <1>1 DEF ScreenTypes
    <3>3. messages' \in Seq(Message)
      BY <3>1, <3>2
    <3> QED
      BY <1>1, <3>1, <3>3 DEF ScreenTypes
  <2>4. PageTypes'
    BY <1>1, <1>9, <1>13 DEF CheckHealth, PageTypes
  <2> QED
    BY <1>2, <1>7, <1>13, <2>1, <2>2, <2>3, <2>4 DEF CheckHealth, crossing
<1>14. ASSUME NEW i \in Conns, LoadSettings(i) PROVE TypeOK'
  <2>1. ConnTypes'
    <3>1. conn' \in [Conns -> Attempt]
      BY <1>1, <1>14, AttemptTyped DEF LoadSettings, ConnTypes
    <3> QED
      BY <1>1, <1>14, <3>1 DEF LoadSettings, ConnTypes, history, crossing
  <2>2. ScreenTypes'
    BY <1>1, <1>9, <1>14, RefreshTyped DEF LoadSettings, ScreenTypes
  <2> QED
    BY <1>2, <1>3, <1>6, <1>7, <1>14, <2>1, <2>2 DEF LoadSettings, daemonSide, history,
          crossing
<1>15. ASSUME NEW i \in Conns, ConnectFails(i) PROVE TypeOK'
  <2>1. ConnTypes'
    <3>1. conn' \in [Conns -> Attempt]
      BY <1>1, <1>15, AttemptTyped DEF ConnectFails, AttemptFails, ConnTypes
    <3> QED
      BY <1>1, <1>15, <3>1 DEF ConnectFails, ConnTypes, history, crossing
  <2>2. PageTypes'
    BY <1>1, <1>15 DEF ConnectFails, AttemptFails, PageTypes
  <2> QED
    BY <1>2, <1>3, <1>5, <1>7, <1>15, <2>1, <2>2 DEF ConnectFails, daemonSide, history,
          crossing
<1>16. ASSUME NEW i \in Conns, Subscribe(i) PROVE TypeOK'
  <2>1. conn[i].of \in Sessions
    BY <1>9, <1>16 DEF Subscribe
  <2>2. DaemonTypes'
    BY <1>1, <1>16, <2>1 DEF Subscribe, DaemonTypes, daemonVars
  <2>3. ConnTypes'
    <3>1. conn' \in [Conns -> Attempt]
      BY <1>1, <1>16, AttemptTyped DEF Subscribe, ConnTypes
    <3> QED
      BY <1>1, <1>16, <3>1 DEF Subscribe, ConnTypes, history, crossing
  <2>4. ScreenTypes'
    <3>1. shouldFinalizeStaleTail \in BOOLEAN
      BY DEF shouldFinalizeStaleTail
    <3> QED
      BY <1>1, <1>16, <2>1, <3>1, RefreshTyped DEF Subscribe, ScreenTypes
  <2>5. PageTypes'
    BY <1>1, <1>16 DEF Subscribe, PageTypes
  <2> QED
    BY <1>2, <1>7, <1>16, <2>2, <2>3, <2>4, <2>5 DEF Subscribe, history, crossing
<1>17. ASSUME NEW i \in Conns, StreamEnds(i) PROVE TypeOK'
  <2>1. DaemonTypes'
    BY <1>1, <1>17 DEF StreamEnds, DaemonTypes, daemonVars
  <2>2. ConnTypes'
    <3>1. conn' \in [Conns -> Attempt]
      BY <1>1, <1>17, AttemptTyped DEF StreamEnds, ConnTypes
    <3> QED
      BY <1>1, <1>17, <3>1 DEF StreamEnds, ConnTypes, history, crossing
  <2>3. PageTypes'
    BY <1>1, <1>17 DEF StreamEnds, PageTypes
  <2> QED
    BY <1>2, <1>5, <1>7, <1>17, <2>1, <2>2, <2>3 DEF StreamEnds, history, crossing
<1>18. ASSUME NEW i \in Conns, Wake(i) PROVE TypeOK'
  <2>1. ConnTypes'
    <3>1. conn' \in [Conns -> Attempt]
      BY <1>1, <1>18, AttemptTyped DEF Wake, ConnTypes
    <3> QED
      BY <1>1, <1>18, <3>1 DEF Wake, ConnTypes, history, crossing
  <2> QED
    BY <1>2, <1>3, <1>5, <1>6, <1>7, <1>18, <2>1 DEF Wake, daemonSide, history, crossing
<1>19. ASSUME NEW i \in Conns, Deliver(i) PROVE TypeOK'
  <2>1. /\ conn[i].of \in Sessions
        /\ wire[i] \in Seq(SseEvent) /\ wire[i] # <<>>
    BY <1>1, <1>9, <1>19 DEF Deliver, DaemonTypes
  <2>2. Head(wire[i]) \in SseEvent /\ Tail(wire[i]) \in Seq(SseEvent)
    BY <2>1
  <2>3. DaemonTypes'
    BY <1>1, <1>19, <2>2 DEF Deliver, DaemonTypes, daemonVars
  <2>4. ScreenTypes'
    <3>1. messages' \in Seq(Message)
      BY <1>1, <1>19, <2>2, EventApplied DEF Deliver, ScreenTypes
    <3> QED
      BY <1>1, <1>19, <2>1, <3>1, RefreshTyped DEF Deliver, ScreenTypes
  <2>5. PageTypes'
    BY <1>1, <1>19 DEF Deliver, PageTypes
  <2> QED
    BY <1>2, <1>4, <1>7, <1>19, <2>3, <2>4, <2>5 DEF Deliver, history, crossing
<1>20. ASSUME NEW p \in posts, PostAnswered(p) PROVE TypeOK'
  <2>1. p \in PostRequest
    BY <1>1 DEF PromptTypes
  <2>2. p.session \in Sessions /\ (p.kind = "chat" => p.prompt \in Prompts)
    BY <2>1 DEF PostRequest
  <2>3. PromptTypes'
    BY <1>1, <1>20, <2>2 DEF PostAnswered, PromptTypes, crossing
  <2>4. DaemonTypes'
    <3>1. jobs \in [Sessions -> Seq(Prompts \cup {Compaction})]
      BY <1>1 DEF DaemonTypes
    <3>2. ASSUME NEW j \in Prompts \cup {Compaction}
          PROVE  [jobs EXCEPT ![p.session] = Append(@, j)] \in [Sessions -> Seq(Prompts \cup {Compaction})]
      BY <2>2, <3>1
    <3>3. jobs' \in [Sessions -> Seq(Prompts \cup {Compaction})]
      <4>1. \/ p.kind = "chat" /\ jobs' = [jobs EXCEPT ![p.session] = Append(@, p.prompt)]
            \/ jobs' = [jobs EXCEPT ![p.session] = Append(@, Compaction)]
            \/ jobs' = jobs
        BY <1>20 DEF PostAnswered
      <4>2. p.kind = "chat" => [jobs EXCEPT ![p.session] = Append(@, p.prompt)]
                                 \in [Sessions -> Seq(Prompts \cup {Compaction})]
        BY <2>2, <3>2
      <4>3. [jobs EXCEPT ![p.session] = Append(@, Compaction)] \in [Sessions -> Seq(Prompts \cup {Compaction})]
        BY <3>2
      <4> QED
        BY <3>1, <4>1, <4>2, <4>3
    <3> QED
      BY <1>1, <1>20, <3>3 DEF PostAnswered, DaemonTypes
  <2>5. PageTypes'
    BY <1>1, <1>20 DEF PostAnswered, PageTypes
  <2> QED
    BY <1>2, <1>4, <1>5, <1>20, <2>3, <2>4, <2>5 DEF PostAnswered, crossing
<1>21. ASSUME NEW p \in posts, PostFails(p) PROVE TypeOK'
  <2>1. PromptTypes'
    BY <1>1, <1>21 DEF PostFails, PromptTypes, history, writing, crossing
  <2>2. PageTypes'
    BY <1>1, <1>21 DEF PostFails, PageTypes
  <2> QED
    BY <1>2, <1>3, <1>4, <1>5, <1>21, <2>1, <2>2 DEF PostFails, daemonSide, history,
          crossing
<1>22. ASSUME DeviceLost PROVE TypeOK'
  BY <1>2, <1>3, <1>4, <1>5, <1>6, <1>7, <1>22 DEF DeviceLost, daemonSide, history, crossing
<1>23. ASSUME DeviceBack PROVE TypeOK'
  <2>1. UNCHANGED daemonSide /\ UNCHANGED <<creating, pendingInitial, posts, writing, strayed>>
    BY <1>23 DEF DeviceBack, daemonSide
  <2>2. UNCHANGED <<route, sessionId, compacting, stopping, sseAbort, messages>>
    BY <1>23 DEF DeviceBack
  <2>3. PageTypes'
    BY <1>1, <1>23, <2>2 DEF DeviceBack, PageTypes
  <2>4. CASE StartAttempt(conn, cancelled, "retry", route) /\ route # None /\ UNCHANGED <<refresh, treeError>>
    <3>1. route \in Sessions /\ conn \in [Conns -> Attempt] /\ cancelled \in SUBSET Conns
      BY <1>1, <2>4 DEF PageTypes, ConnTypes
    <3>2. ConnTypes'
      BY <1>1, <2>2, <2>4, <3>1, StartTyped DEF ConnTypes
    <3> QED
      BY <1>2, <1>3, <1>5, <1>7, <2>1, <2>2, <2>3, <2>4, <3>2 DEF screenVars
  <2>5. CASE /\ UNCHANGED <<conn, cancelled, overlap>> /\ sessionId # None
             /\ refreshTree(sessionId, TRUE, None)
    <3>1. ScreenTypes'
      BY <1>1, <2>2, <2>5, RefreshTyped DEF PageTypes, ScreenTypes
    <3> QED
      BY <1>2, <1>3, <1>4, <1>7, <2>1, <2>2, <2>3, <2>5, <3>1
  <2>6. CASE UNCHANGED <<conn, cancelled, overlap, refresh, treeError>>
    BY <1>2, <1>3, <1>4, <1>5, <1>7, <2>1, <2>2, <2>3, <2>6 DEF screenVars
  <2> QED
    BY <1>23, <2>4, <2>5, <2>6 DEF DeviceBack
<1>24. ASSUME CreateFails PROVE TypeOK'
  <2>1. PageTypes' /\ PromptTypes'
    BY <1>1, <1>24 DEF CreateFails, PageTypes, PromptTypes, history, writing, crossing
  <2> QED
    BY <1>2, <1>3, <1>4, <1>5, <1>24, <2>1 DEF CreateFails, daemonSide, history, crossing
<1>25. CancelInits \in SUBSET Conns
  BY <1>1 DEF CancelInits, ConnTypes
<1>26. ASSUME NEW r \in Sessions \cup {None}, RouteTo(r) PROVE TypeOK'
  <2>1. RouteEffect(r) /\ UNCHANGED <<compacting, stopping, creating, refresh, branch, jobs, turn, pending, posts,
                                      sent, intended, reached>>
    BY <1>26 DEF RouteTo, daemonVars, writing
  <2>2. DaemonTypes'
    BY <1>1, <2>1, AbortTyped DEF RouteEffect, DaemonTypes
  <2>3. ScreenTypes' /\ PageTypes'
    <3>1. (messages' = messages \/ messages' = <<>>) /\ treeError' \in {treeError, FALSE}
      BY <2>1 DEF RouteEffect
    <3>2. ScreenTypes'
      <4>1. <<>> \in Seq(Message) /\ messages \in Seq(Message)
        BY <1>1 DEF ScreenTypes
      <4>2. messages' \in Seq(Message)
        BY <3>1, <4>1
      <4> QED
        BY <1>1, <2>1, <3>1, <4>2 DEF ScreenTypes
    <3> QED
      BY <1>1, <2>1, <3>2 DEF RouteEffect, PageTypes
  <2>4. PromptTypes'
    BY <1>1, <1>26, <2>1 DEF RouteTo, RouteEffect, PromptTypes
  <2>5. ConnTypes'
    <3>1. CASE r # None
      <4>1. r \in Sessions /\ StartAttempt(Cleanup, CancelInits, "init", r) /\ sseAbort' = None
        BY <2>1, <3>1 DEF RouteEffect
      <4>2. Cleanup \in [Conns -> Attempt]
        BY AbortTyped DEF Cleanup
      <4> QED
        BY <1>25, <4>1, <4>2, StartTyped DEF ConnTypes
    <3>2. CASE r = None
      <4>1. conn' \in [Conns -> Attempt] /\ cancelled' \subseteq Conns /\ overlap' \in BOOLEAN /\ sseAbort' = None
        BY <1>25, <2>1, <3>2, AbortTyped DEF RouteEffect, MeetsOther, Cleanup
      <4> QED
        BY <4>1 DEF ConnTypes
    <3> QED
      BY <3>1, <3>2
  <2> QED
    BY <1>2, <2>2, <2>3, <2>4, <2>5
<1>27. ASSUME NEW k \in Prompts, sendMessage(k) PROVE TypeOK'
  <2>1. PromptTypes'
    <3>1. sessionId \in Sessions
      BY <1>1, <1>27 DEF sendMessage, PageTypes
    <3>2. [kind |-> "chat", session |-> sessionId, prompt |-> k] \in PostRequest
      BY <3>1 DEF PostRequest
    <3> QED
      BY <1>1, <1>27, <3>1, <3>2 DEF sendMessage, Post, PromptTypes, clientVars, crossing
  <2>2. ScreenTypes'
    BY <1>1, <1>27, MessagesMade DEF sendMessage, Post, ScreenTypes
  <2> QED
    BY <1>2, <1>3, <1>4, <1>6, <1>27, <2>1, <2>2 DEF sendMessage, clientVars, daemonSide,
          crossing
<1>28. ASSUME NEW k \in Prompts, startNewSessionWithMessage(k) PROVE TypeOK'
  <2>1. PromptTypes'
    BY <1>1, <1>28 DEF startNewSessionWithMessage, PromptTypes, crossing
  <2> QED
    BY <1>2, <1>3, <1>4, <1>5, <1>6, <1>28, <2>1 DEF startNewSessionWithMessage,
          daemonSide, crossing
<1>29. ASSUME NEW s \in NewSessions, SessionCreated(s) PROVE TypeOK'
  <2>1. /\ StartAttempt(Cleanup, CancelInits, "init", s) /\ s \in Sessions
        /\ sseAbort' = None /\ wire' = AbortedWire /\ route' = s
    BY <1>29 DEF SessionCreated
  <2>2. Cleanup \in [Conns -> Attempt]
    BY AbortTyped DEF Cleanup
  <2>3. ConnTypes'
    BY <1>25, <2>1, <2>2, StartTyped DEF ConnTypes
  <2>4. DaemonTypes'
    BY <1>1, <1>29, <2>1, AbortTyped DEF SessionCreated, DaemonTypes, daemonVars
  <2>5. PromptTypes' /\ PageTypes'
    BY <1>1, <1>29 DEF SessionCreated, PromptTypes, PageTypes
  <2> QED
    BY <1>2, <1>5, <1>29, <2>3, <2>4, <2>5 DEF SessionCreated
<1>30. ASSUME stopGeneration PROVE TypeOK'
  <2>1. sessionId \in Sessions
    BY <1>1, <1>30 DEF stopGeneration, PageTypes
  <2>2. [kind |-> "abort", session |-> sessionId, prompt |-> None] \in PostRequest
    BY <2>1 DEF PostRequest
  <2>3. PromptTypes'
    BY <1>1, <1>30, <2>2 DEF stopGeneration, PromptTypes, history, writing, crossing
  <2>4. ScreenTypes'
    <3>1. messages \in Seq(Message)
      BY <1>1 DEF ScreenTypes
    <3>2. messages' \in Seq(Message)
      BY <1>30, <3>1, ReplyStopped DEF stopGeneration
    <3> QED
      BY <1>1, <1>30, <3>2 DEF stopGeneration, ScreenTypes
  <2>5. PageTypes'
    BY <1>1, <1>30 DEF stopGeneration, PageTypes
  <2> QED
    BY <1>2, <1>3, <1>4, <1>30, <2>3, <2>4, <2>5 DEF stopGeneration, daemonSide, history,
          crossing
<1>31. ASSUME compactContext PROVE TypeOK'
  <2>1. sessionId \in Sessions
    BY <1>1, <1>31 DEF compactContext, PageTypes
  <2>2. [kind |-> "compact", session |-> sessionId, prompt |-> None] \in PostRequest
    BY <2>1 DEF PostRequest
  <2>3. PromptTypes'
    BY <1>1, <1>31, <2>2 DEF compactContext, PromptTypes, clientVars, history, writing,
          crossing
  <2> QED
    BY <1>2, <1>3, <1>4, <1>5, <1>6, <1>31, <2>3 DEF compactContext, clientVars,
          daemonSide, history, crossing
<1>32. ASSUME RetryConnection PROVE TypeOK'
  <2>1. route \in Sessions /\ conn \in [Conns -> Attempt] /\ cancelled \in SUBSET Conns
    BY <1>1, <1>32 DEF RetryConnection, PageTypes, ConnTypes
  <2>2. ConnTypes'
    BY <1>1, <1>32, <2>1, StartTyped DEF RetryConnection, ConnTypes
  <2>3. PageTypes'
    BY <1>1, <1>32 DEF RetryConnection, PageTypes
  <2> QED
    BY <1>2, <1>3, <1>5, <1>7, <1>32, <2>2, <2>3 DEF RetryConnection, daemonSide
<1>33. ASSUME NEW s \in Sessions, Daemon(s) PROVE TypeOK'
  <2>1. DaemonTypes'
    BY <1>33, DaemonTyped, ToolsTyped DEF Daemon, DaemonTypes
  <2> QED
    BY <1>2, <1>4, <1>5, <1>6, <1>7, <1>33, <2>1 DEF Daemon, clientVars, history, crossing
<1>34. ASSUME SendPending PROVE TypeOK'
  <2>1. pendingInitial \in Prompts
    BY <1>1, <1>34 DEF SendPending, EffectDue, PromptTypes
  <2>2. sessionId # None => [kind |-> "chat", session |-> sessionId, prompt |-> pendingInitial] \in PostRequest
    BY <1>1, <2>1 DEF PostRequest, PageTypes
  <2>3. PromptTypes'
    BY <1>1, <1>34, <2>2 DEF SendPending, Post, PromptTypes, history, writing, crossing
  <2>4. ScreenTypes'
    BY <1>1, <1>34, <2>1, MessagesMade DEF SendPending, Post, ScreenTypes
  <2> QED
    BY <1>2, <1>3, <1>4, <1>6, <1>34, <2>3, <2>4 DEF SendPending, daemonSide, history,
          crossing
<1> QED
  BY <1>10, <1>11, <1>12, <1>13, <1>14, <1>15, <1>16, <1>17, <1>18, <1>19, <1>20, <1>21,
        <1>22, <1>23, <1>24,
     <1>26, <1>27, <1>28, <1>29, <1>30, <1>31, <1>32, <1>33, <1>34
     DEF Next, Client, Faults, UserStep

-----------------------------------------------------------------------------
(* What a step does to the attempts to connect.                            *)

Subscribing == {"subscribe", "open", "sleep"}

\* The page, the requests for trees and the other attempts in most steps of an attempt.
PageStays == UNCHANGED <<route, sessionId, cancelled, overlap>>
WaitersKept ==
  \A x \in Refreshes : refresh'[x] # None /\ refresh'[x].waiter # None =>
    refresh[x] # None /\ refresh'[x].waiter = refresh[x].waiter
OnlyOf(i) == conn'[i].of = conn[i].of /\ \A j \in Conns \ {i} : conn'[j] = conn[j]
\* The attempts but i when the subscription is aborted
OthersAborted(i) ==
  \A j \in Conns \ {i} : conn'[j].of = conn[j].of /\ conn'[j].step = IF j = sseAbort THEN "ended" ELSE conn[j].step

AttemptsStay == UNCHANGED <<conn, sseAbort>> /\ PageStays /\ WaitersKept /\ status' \in {status, "error"}

TreeDone(x) ==
  LET i == refresh[x].waiter IN
  /\ refresh[x] # None /\ i \in Conns /\ conn'[i].step = "subscribe" /\ OnlyOf(i) /\ sseAbort' = i
  /\ refresh'[x] = None /\ \A y \in Refreshes \ {x} : refresh'[y] = refresh[y]
  /\ PageStays /\ status' = status

SettingsLoaded(i, x) ==
  /\ conn[i].step = "settings" /\ conn'[i].step = "tree" /\ OnlyOf(i) /\ sseAbort' = sseAbort
  /\ refresh'[x].waiter = i /\ \A y \in Refreshes \ {x} : refresh'[y] = refresh[y]
  /\ PageStays /\ status' = status

StreamMoves(i) ==
  /\ conn[i].step \in Subscribing /\ conn'[i].step \in Subscribing /\ OnlyOf(i) /\ sseAbort' = sseAbort
  /\ WaitersKept /\ PageStays /\ status' \in {status, "ready"}

GivesUp(i) ==
  /\ conn[i].step \in {"health", "settings", "subscribe"} /\ conn'[i].step = "ended" /\ OnlyOf(i)
  /\ UNCHANGED <<sseAbort, refresh>> /\ PageStays /\ status' \in {status, "error"}

Healthy(i) ==
  /\ conn[i].step = "health" /\ i \notin cancelled
  /\ conn'[i].step = "settings" /\ conn'[i].of = conn[i].of /\ OthersAborted(i)
  /\ sessionId' = conn[i].of /\ status' = "connecting"
  /\ UNCHANGED <<route, cancelled, overlap, sseAbort, refresh>>

Retried(i) ==
  /\ conn[i].step = "free" /\ conn'[i].step = "health" /\ conn'[i].of = route /\ route # None
  /\ \A j \in Conns \ {i} : conn'[j] = conn[j]
  /\ UNCHANGED <<route, sessionId, cancelled, sseAbort, refresh>> /\ status' = "connecting"
  /\ MeetsOther(conn, cancelled)

\* The page goes to another session, or to a new chat.
PageLeft == UNCHANGED refresh /\ sseAbort' = None /\ cancelled' = CancelInits /\ MeetsOther(Cleanup, CancelInits)
WentTo(i) ==
  /\ conn[i].step = "free" /\ conn'[i].step = "health" /\ conn'[i].of = route' /\ OthersAborted(i)
  /\ route' \in Sessions /\ UNCHANGED <<sessionId, status>> /\ PageLeft
WentToNew ==
  /\ conn' = Cleanup
  /\ route' = None /\ sessionId' = None /\ status' = "idle" /\ PageLeft

AttemptStep ==
  \/ AttemptsStay \/ WentToNew
  \/ \E x \in Refreshes : TreeDone(x) \/ \E i \in Conns : SettingsLoaded(i, x)
  \/ \E i \in Conns : StreamMoves(i) \/ GivesUp(i) \/ Healthy(i) \/ Retried(i) \/ WentTo(i)

\* An aborted subscription ends, the other attempts stay as they are.
LEMMA Aborted ==
    ASSUME TypeOK, NEW j \in Conns
    PROVE  /\ Abort(conn)[j].of = conn[j].of
           /\ Abort(conn)[j].step = IF j = sseAbort THEN "ended" ELSE conn[j].step
<1>1. conn[j] \in Attempt /\ DOMAIN conn = Conns
  BY DEF TypeOK
<1>2. CASE sseAbort = None
  BY <1>1, <1>2 DEF Abort
<1>3. CASE sseAbort # None /\ j # sseAbort
  BY <1>1, <1>3 DEF Abort
<1>4. CASE sseAbort # None /\ j = sseAbort
  <2>1. Abort(conn)[j] = [conn[j] EXCEPT !.step = "ended"]
    BY <1>1, <1>4 DEF Abort
  <2> QED
    BY <1>1, <1>4, <2>1 DEF Attempt
<1> QED
  BY <1>2, <1>3, <1>4

\* An attempt that takes a step.
LEMMA StepTaken ==
    ASSUME TypeOK, NEW i \in Conns, NEW st,
           \/ conn' = [conn EXCEPT ![i].step = st]
           \/ conn' = [conn EXCEPT ![i].step = st, ![i].ever = TRUE]
    PROVE  conn'[i].step = st /\ OnlyOf(i)
<1>1. conn[i] \in Attempt /\ DOMAIN conn = Conns
  BY DEF TypeOK
<1>2. \A j \in Conns \ {i} : conn'[j] = conn[j]
  BY <1>1
<1>3. CASE conn' = [conn EXCEPT ![i].step = st]
  <2>1. conn'[i] = [conn[i] EXCEPT !.step = st]
    BY <1>1, <1>3
  <2> QED
    BY <1>1, <1>2, <2>1 DEF OnlyOf, Attempt
<1>4. CASE conn' = [conn EXCEPT ![i].step = st, ![i].ever = TRUE]
  <2>1. conn'[i] = [conn[i] EXCEPT !.step = st, !.ever = TRUE]
    BY <1>1, <1>4
  <2> QED
    BY <1>1, <1>2, <2>1 DEF OnlyOf, Attempt
<1> QED
  BY <1>3, <1>4

\* A tree request whose answer nobody waits for.
LEMMA RefreshAlone ==
    ASSUME TypeOK, NEW s, NEW finalize, refreshTree(s, finalize, None)
    PROVE  WaitersKept
<1>1. PICK x \in Refreshes : refresh' = [refresh EXCEPT ![x] = NewRefresh(s, finalize, None)]
  BY DEF refreshTree, FreeRefresh
<1>2. DOMAIN refresh = Refreshes
  BY DEF TypeOK
<1>3. refresh'[x].waiter = None
  BY <1>1, <1>2 DEF NewRefresh
<1>4. \A y \in Refreshes \ {x} : refresh'[y] = refresh[y]
  BY <1>1, <1>2
<1> QED
  BY <1>3, <1>4 DEF WaitersKept

\* A retry, and the attempt of a route effect
LEMMA Retries ==
    ASSUME TypeOK, route # None, StartAttempt(conn, cancelled, "retry", route),
           UNCHANGED <<route, sessionId, sseAbort, refresh>>, status' = "connecting"
    PROVE  \E i \in Conns : Retried(i)
<1>1. PICK i \in FreeConn : conn' = [conn EXCEPT ![i] = [NoConn EXCEPT !.of = route, !.kind = "retry", !.step = "health"]]
  BY DEF StartAttempt
<1>2. i \in Conns /\ conn[i].step = "free" /\ DOMAIN conn = Conns
  BY DEF FreeConn, TypeOK
<1>3. conn'[i] = [NoConn EXCEPT !.of = route, !.kind = "retry", !.step = "health"]
  BY <1>1, <1>2
<1>4. conn'[i].step = "health" /\ conn'[i].of = route /\ \A j \in Conns \ {i} : conn'[j] = conn[j]
  BY <1>1, <1>2, <1>3 DEF NoConn
<1>5. Retried(i)
  BY <1>2, <1>4 DEF Retried, StartAttempt
<1> QED
  BY <1>2, <1>5

(* A change of the route starts one attempt for it, and supersedes all others. *)
LEMMA Goes ==
    ASSUME TypeOK, NEW s \in Sessions, StartAttempt(Cleanup, CancelInits, "init", s), route' = s,
           sseAbort' = None, UNCHANGED <<sessionId, status, refresh>>
    PROVE  \E i \in Conns : WentTo(i)
<1>1. PICK i \in FreeConn : conn' = [Cleanup EXCEPT ![i] = [NoConn EXCEPT !.of = s, !.kind = "init", !.step = "health"]]
  BY DEF StartAttempt
<1>2. i \in Conns /\ conn[i].step = "free" /\ DOMAIN Cleanup = Conns
  BY AbortTyped DEF FreeConn, Cleanup
<1>3. conn'[i] = [NoConn EXCEPT !.of = s, !.kind = "init", !.step = "health"]
  BY <1>1, <1>2
<1>4. conn'[i].step = "health" /\ conn'[i].of = s
  BY <1>3 DEF NoConn
<1>5. \A j \in Conns \ {i} : conn'[j] = Abort(conn)[j]
  BY <1>1, <1>2 DEF Cleanup
<1>6. OthersAborted(i)
  BY <1>5, Aborted DEF OthersAborted
<1>7. PageLeft
  BY DEF PageLeft, StartAttempt
<1>8. WentTo(i)
  BY <1>2, <1>4, <1>6, <1>7 DEF WentTo
<1> QED
  BY <1>2, <1>8

\* connectSession goes on after its tree request, which is over.
LEMMA Proceeds ==
    ASSUME TypeOK, NEW x \in Refreshes, refresh[x] # None, refresh' = [refresh EXCEPT ![x] = None],
           Proceed(refresh[x].waiter), PageStays, status' = status
    PROVE  AttemptsStay \/ TreeDone(x)
<1>1. DOMAIN refresh = Refreshes /\ refresh[x].waiter \in Conns \cup {None}
  BY DEF TypeOK, TreeRequest
<1>2. refresh'[x] = None /\ \A y \in Refreshes \ {x} : refresh'[y] = refresh[y]
  BY <1>1
<1>3. CASE refresh[x].waiter = None
  <2>1. UNCHANGED <<conn, sseAbort>>
    BY <1>3 DEF Proceed
  <2>2. WaitersKept
    BY <1>2 DEF WaitersKept
  <2> QED
    BY <2>1, <2>2 DEF AttemptsStay
<1>4. CASE refresh[x].waiter # None
  <2> DEFINE i == refresh[x].waiter
  <2>1. i \in Conns /\ conn' = [conn EXCEPT ![i].step = "subscribe"] /\ sseAbort' = i
    BY <1>1, <1>4 DEF Proceed
  <2>2. conn'[i].step = "subscribe" /\ OnlyOf(i)
    BY <2>1, StepTaken
  <2> QED
    BY <1>2, <2>1, <2>2 DEF TreeDone
<1> QED
  BY <1>3, <1>4

\* Every step of the page takes the attempts to connect one of these steps.
LEMMA StepsOfAttempts ==
    ASSUME TypeOK, AttemptsInOrder, Next
    PROVE  AttemptStep
<1>1. UNCHANGED refresh => WaitersKept
  BY DEF WaitersKept
<1>2. ASSUME UNCHANGED <<conn, sseAbort, route, sessionId, cancelled, overlap, refresh>>, status' \in {status, "error"}
      PROVE  AttemptsStay
  BY <1>1, <1>2 DEF AttemptsStay, PageStays
<1>3. ASSUME NEW x \in Refreshes, AnswerTree(x) PROVE AttemptsStay
  <2>1. refresh[x] \in TreeRequest /\ DOMAIN refresh = Refreshes
    BY <1>3 DEF TypeOK, AnswerTree
  <2>2. refresh'[x] = [refresh[x] EXCEPT !.answered = TRUE, !.tree = branch[refresh[x].session]]
    BY <1>3, <2>1 DEF AnswerTree
  <2>3. refresh'[x].waiter = refresh[x].waiter
    BY <2>1, <2>2 DEF TreeRequest
  <2>4. \A y \in Refreshes \ {x} : refresh'[y] = refresh[y]
    BY <1>3, <2>1 DEF AnswerTree
  <2>5. WaitersKept
    BY <1>3, <2>3, <2>4 DEF WaitersKept, AnswerTree
  <2> QED
    BY <1>3, <2>5 DEF AnswerTree, AttemptsStay, PageStays, clientVars, history, crossing
<1>4. ASSUME NEW x \in Refreshes, ApplyTree(x) \/ TreeFails(x) PROVE AttemptStep
  <2>1. /\ refresh[x] # None /\ refresh' = [refresh EXCEPT ![x] = None] /\ Proceed(refresh[x].waiter)
        /\ PageStays /\ status' = status
    BY <1>4 DEF ApplyTree, TreeFails, PageStays, history, crossing
  <2> QED
    BY <2>1, Proceeds DEF AttemptStep
<1>5. ASSUME NEW i \in Conns, CheckHealth(i) PROVE GivesUp(i) \/ Healthy(i)
  <2>1. CASE i \in cancelled
    <3>1. conn'[i].step = "ended" /\ OnlyOf(i)
      BY <1>5, <2>1, StepTaken DEF CheckHealth
    <3> QED
      BY <1>5, <2>1, <3>1 DEF CheckHealth, GivesUp, PageStays, crossing
  <2>2. CASE i \notin cancelled
    <3>1. conn' = [Abort(conn) EXCEPT ![i].step = "settings"]
      BY <1>5, <2>2 DEF CheckHealth
    <3>2. Abort(conn)[i] \in Attempt /\ DOMAIN Abort(conn) = Conns
      BY AbortTyped
    <3>3. conn'[i] = [Abort(conn)[i] EXCEPT !.step = "settings"] /\ \A j \in Conns \ {i} : conn'[j] = Abort(conn)[j]
      BY <3>1, <3>2
    <3>4. conn'[i].step = "settings" /\ conn'[i].of = Abort(conn)[i].of
      BY <3>2, <3>3 DEF Attempt
    <3>5. conn'[i].of = conn[i].of /\ OthersAborted(i)
      BY <3>3, <3>4, Aborted DEF OthersAborted
    <3> QED
      BY <1>5, <2>2, <3>4, <3>5 DEF CheckHealth, Healthy, crossing
  <2> QED
    BY <2>1, <2>2
<1>6. ASSUME NEW i \in Conns, LoadSettings(i) PROVE \E x \in Refreshes : SettingsLoaded(i, x)
  <2>1. PICK x \in Refreshes : refresh' = [refresh EXCEPT ![x] = NewRefresh(conn[i].of, FALSE, i)]
    BY <1>6 DEF LoadSettings, refreshTree, FreeRefresh
  <2>2. DOMAIN refresh = Refreshes
    BY DEF TypeOK
  <2>3. refresh'[x].waiter = i /\ \A y \in Refreshes \ {x} : refresh'[y] = refresh[y]
    BY <2>1, <2>2 DEF NewRefresh
  <2>4. conn'[i].step = "tree" /\ OnlyOf(i)
    BY <1>6, StepTaken DEF LoadSettings
  <2>5. SettingsLoaded(i, x)
    BY <1>6, <2>3, <2>4 DEF LoadSettings, SettingsLoaded, PageStays, history, crossing
  <2> QED
    BY <2>5
<1>7. ASSUME NEW i \in Conns, ConnectFails(i) PROVE GivesUp(i)
  <2>1. conn'[i].step = "ended" /\ OnlyOf(i)
    BY <1>7, StepTaken DEF ConnectFails, AttemptFails
  <2> QED
    BY <1>7, <2>1 DEF ConnectFails, AttemptFails, GivesUp, PageStays, screenVars,
          history, crossing
<1>8. ASSUME NEW i \in Conns, Subscribe(i) PROVE StreamMoves(i)
  <2>1. conn'[i].step = "open" /\ OnlyOf(i)
    BY <1>8, StepTaken DEF Subscribe
  <2>2. WaitersKept
    BY <1>1, <1>8, RefreshAlone DEF Subscribe
  <2> QED
    BY <1>8, <2>1, <2>2 DEF Subscribe, StreamMoves, Subscribing, PageStays, history,
          crossing
<1>9. ASSUME NEW i \in Conns, StreamEnds(i) PROVE StreamMoves(i)
  <2>1. conn'[i].step = "sleep" /\ OnlyOf(i)
    BY <1>9, StepTaken DEF StreamEnds
  <2> QED
    BY <1>1, <1>9, <2>1 DEF StreamEnds, StreamMoves, Subscribing, PageStays, screenVars,
          history, crossing
<1>10. ASSUME NEW i \in Conns, Wake(i) PROVE StreamMoves(i)
  <2>1. conn'[i].step = "subscribe" /\ OnlyOf(i)
    BY <1>10, StepTaken DEF Wake
  <2> QED
    BY <1>1, <1>10, <2>1 DEF Wake, StreamMoves, Subscribing, PageStays, screenVars,
          history, crossing
<1>11. ASSUME NEW i \in Conns, Deliver(i) PROVE AttemptsStay
  <2>1. WaitersKept
    BY <1>1, <1>11, RefreshAlone DEF Deliver
  <2> QED
    BY <1>11, <2>1 DEF Deliver, AttemptsStay, PageStays, history, crossing
<1>12. ASSUME RetryConnection PROVE AttemptStep
  <2>1. \E i \in Conns : Retried(i)
    BY <1>12, Retries DEF RetryConnection, screenVars
  <2> QED
    BY <2>1 DEF AttemptStep
<1>13. ASSUME DeviceBack PROVE AttemptStep
  <2>1. UNCHANGED <<route, sessionId, sseAbort>>
    BY <1>13 DEF DeviceBack
  <2>2. CASE /\ route # None /\ StartAttempt(conn, cancelled, "retry", route) /\ status' = "connecting"
             /\ UNCHANGED refresh
    <3>1. \E i \in Conns : Retried(i)
      BY <2>1, <2>2, Retries
    <3> QED
      BY <3>1 DEF AttemptStep
  <2>3. CASE refreshTree(sessionId, TRUE, None) /\ UNCHANGED <<status, conn, cancelled, overlap>>
    <3>1. WaitersKept
      BY <2>3, RefreshAlone
    <3> QED
      BY <2>1, <2>3, <3>1 DEF AttemptStep, AttemptsStay, PageStays
  <2>4. CASE UNCHANGED <<status, conn, cancelled, overlap, refresh>>
    BY <1>2, <2>1, <2>4 DEF AttemptStep
  <2> QED
    BY <1>13, <2>2, <2>3, <2>4 DEF DeviceBack
<1>14. ASSUME NEW r \in Sessions \cup {None}, RouteTo(r) PROVE AttemptStep
  <2>1. CASE r # None
    <3>1. \E i \in Conns : WentTo(i)
      BY <1>14, <2>1, Goes DEF RouteTo, RouteEffect
    <3> QED
      BY <3>1 DEF AttemptStep
  <2>2. CASE r = None
    <3>1. WentToNew
      BY <1>14, <2>2 DEF RouteTo, RouteEffect, WentToNew, PageLeft
    <3> QED
      BY <3>1 DEF AttemptStep
  <2> QED
    BY <2>1, <2>2
<1>15. ASSUME NEW s \in NewSessions, SessionCreated(s) PROVE AttemptStep
  <2>1. \E i \in Conns : WentTo(i)
    BY <1>15, Goes DEF SessionCreated, screenVars
  <2> QED
    BY <2>1 DEF AttemptStep
<1>16. ASSUME CreateFails PROVE AttemptsStay
  BY <1>2, <1>16 DEF CreateFails, screenVars, history, crossing
<1>17. ASSUME NEW k \in Prompts, sendMessage(k) \/ startNewSessionWithMessage(k) PROVE AttemptsStay
  BY <1>2, <1>17 DEF sendMessage, startNewSessionWithMessage, clientVars, screenVars,
        crossing
<1>18. ASSUME SendPending \/ stopGeneration \/ compactContext PROVE AttemptsStay
  BY <1>2, <1>18 DEF SendPending, stopGeneration, compactContext, clientVars, screenVars,
        history, crossing
<1>19. ASSUME NEW p \in posts, PostAnswered(p) \/ PostFails(p) PROVE AttemptsStay
  BY <1>2, <1>19 DEF PostAnswered, PostFails, screenVars, history, crossing
<1>20. ASSUME DeviceLost PROVE AttemptsStay
  BY <1>2, <1>20 DEF DeviceLost, screenVars, history, crossing
<1>21. ASSUME NEW s \in Sessions, Daemon(s) PROVE AttemptsStay
  BY <1>2, <1>21 DEF Daemon, clientVars, screenVars, history, crossing
<1> QED
  <2>1. CASE Client
    BY <1>3, <1>4, <1>5, <1>6, <1>8, <1>10, <1>11, <1>19, <2>1 DEF Client, AttemptStep
  <2>2. CASE Faults
    BY <1>4, <1>7, <1>9, <1>13, <1>16, <1>19, <1>20, <2>2 DEF Faults, AttemptStep
  <2>3. CASE UserStep
    BY <1>12, <1>14, <1>15, <1>17, <1>18, <2>3 DEF UserStep, AttemptStep
  <2> QED
    BY <1>18, <1>21, <2>1, <2>2, <2>3 DEF Next, AttemptStep

-----------------------------------------------------------------------------
(* The connection.                                                         *)

\* An attempt stays of a session; the tree request that it waits for is the only one of
\* its own, and only an attempt in this state can be waited for.
LEMMA OrderStep ==
    ASSUME TypeOK, AttemptsInOrder, AttemptStep, TypeOK'
    PROVE  AttemptsInOrder'
<1>1. \A i \in Conns : conn[i].step # "free" => conn[i].of \in Sessions
  BY DEF AttemptsInOrder
<1>2. sseAbort # None => sseAbort \in Conns /\ conn[sseAbort].step \in Subscribing \cup {"ended"}
  BY DEF AttemptsInOrder, TypeOK, Subscribing
<1>3. \A x \in Refreshes : refresh[x] # None /\ refresh[x].waiter # None =>
        /\ refresh[x].waiter \in Conns /\ conn[refresh[x].waiter].step = "tree"
        /\ \A y \in Refreshes : refresh[y] # None /\ refresh[y].waiter = refresh[x].waiter => x = y
  <2>1. \A x \in Refreshes : refresh[x] # None => refresh[x].waiter \in Conns \cup {None}
    BY DEF TypeOK, TreeRequest
  <2> QED
    BY <2>1 DEF AttemptsInOrder
<1> DEFINE Of == \A i \in Conns : conn[i].step # "free" => conn[i].of \in Sessions
           Abortable == sseAbort # None => conn[sseAbort].step \in Subscribing \cup {"ended"}
           Waiters == \A x \in Refreshes : refresh[x] # None /\ refresh[x].waiter # None =>
             /\ conn[refresh[x].waiter].step = "tree"
             /\ \A y \in Refreshes : refresh[y] # None /\ refresh[y].waiter = refresh[x].waiter => x = y
<1> SUFFICES Of' /\ Abortable' /\ Waiters'
  BY DEF AttemptsInOrder, Subscribing
<1>4. CASE AttemptsStay
  BY <1>1, <1>2, <1>3, <1>4 DEF AttemptsStay, WaitersKept
<1>5. ASSUME NEW x \in Refreshes, TreeDone(x) PROVE Of' /\ Abortable' /\ Waiters'
  BY <1>1, <1>2, <1>3, <1>5 DEF TreeDone, OnlyOf, Subscribing
<1>6. ASSUME NEW i \in Conns, NEW x \in Refreshes, SettingsLoaded(i, x) PROVE Of' /\ Abortable' /\ Waiters'
  BY <1>1, <1>2, <1>3, <1>6 DEF SettingsLoaded, OnlyOf, Subscribing
<1>7. ASSUME NEW i \in Conns, StreamMoves(i) PROVE Of' /\ Abortable' /\ Waiters'
  BY <1>1, <1>2, <1>3, <1>7 DEF StreamMoves, OnlyOf, Subscribing, WaitersKept
<1>8. ASSUME NEW i \in Conns, GivesUp(i) PROVE Of' /\ Abortable' /\ Waiters'
  BY <1>1, <1>2, <1>3, <1>8 DEF GivesUp, OnlyOf, Subscribing
<1>9. ASSUME NEW i \in Conns, Healthy(i) PROVE Of' /\ Abortable' /\ Waiters'
  BY <1>1, <1>2, <1>3, <1>9 DEF Healthy, OthersAborted, Subscribing
<1>10. ASSUME NEW i \in Conns, Retried(i) PROVE Of' /\ Abortable' /\ Waiters'
  <2>1. route \in Sessions
    BY <1>10 DEF Retried, TypeOK
  <2> QED
    BY <1>1, <1>2, <1>3, <1>10, <2>1 DEF Retried, Subscribing
<1>11. ASSUME NEW i \in Conns, WentTo(i) PROVE Of' /\ Abortable' /\ Waiters'
  BY <1>1, <1>2, <1>3, <1>11 DEF WentTo, PageLeft, OthersAborted, Subscribing
<1>12. ASSUME WentToNew PROVE Of' /\ Abortable' /\ Waiters'
  <2>1. \A j \in Conns : conn'[j].of = conn[j].of /\ conn'[j].step = IF j = sseAbort THEN "ended" ELSE conn[j].step
    BY <1>12, Aborted DEF WentToNew, Cleanup
  <2> QED
    BY <1>1, <1>2, <1>3, <1>12, <2>1 DEF WentToNew, PageLeft, Subscribing
<1> QED
  BY <1>4, <1>5, <1>6, <1>7, <1>8, <1>9, <1>10, <1>11, <1>12 DEF AttemptStep

\* As long as attempts did not overlap, one at most connects, for the route's session; it
\* finds no subscription when it comes to its own.
LEMMA ConnectionStep ==
    ASSUME TypeOK, AttemptsInOrder, ConnectedToRoute, OneSubscription, AttemptStep, TypeOK', AttemptsInOrder'
    PROVE  ConnectedToRoute' /\ OneSubscription'
<1> DEFINE On(i) == conn[i].step \in {"settings", "tree"} \/ (conn[i].step = "health" /\ i \notin cancelled)
           Inv == /\ \A i, j \in Conns : On(i) /\ On(j) => i = j
                  /\ \A i \in Conns : On(i) \/ conn[i].step \in Subscribing => conn[i].of = route
                  /\ \A i \in Conns : conn[i].step \in {"settings", "tree"} =>
                       sessionId = conn[i].of /\ \A j \in Conns : conn[j].step \notin Subscribing
                  /\ route = None => sessionId = None /\ status # "ready"
                  /\ \A i \in Conns : conn[i].step \in Subscribing => sseAbort = i /\ sessionId = conn[i].of
<1>1. ~overlap => Inv
  BY DEF ConnectedToRoute, OneSubscription, Connecting, Subscribed, Subscribing
<1>2. (~overlap => Inv)' => ConnectedToRoute' /\ OneSubscription'
  BY DEF ConnectedToRoute, OneSubscription, Connecting, Subscribed, Subscribing
<1> SUFFICES ASSUME ~overlap' PROVE Inv'
  BY <1>2
<1>3. \A i \in Conns : conn[i].step # "free" => conn[i].of \in Sessions
  BY DEF AttemptsInOrder
<1>4. sseAbort # None => conn[sseAbort].step \in Subscribing \cup {"ended"}
  BY DEF AttemptsInOrder, Subscribing
<1>5. CASE AttemptsStay
  <2>1. ~overlap
    BY <1>5 DEF AttemptsStay, PageStays
  <2> QED
    BY <1>1, <1>5, <2>1 DEF AttemptsStay, PageStays
<1>6. ASSUME NEW x \in Refreshes, TreeDone(x) PROVE Inv'
  <2> DEFINE i == refresh[x].waiter
  <2>1. ~overlap /\ i \in Conns /\ conn[i].step = "tree"
    <3>1. refresh[x] # None /\ i \in Conns /\ ~overlap
      BY <1>6 DEF TreeDone, PageStays
    <3> QED
      BY <3>1 DEF AttemptsInOrder
  <2>2. /\ On(i) /\ conn[i].of = route /\ sessionId = conn[i].of
        /\ \A j \in Conns : conn[j].step \notin Subscribing
        /\ \A j \in Conns \ {i} : ~On(j)
    BY <1>1, <2>1
  <2> QED
    BY <1>1, <1>6, <2>1, <2>2 DEF TreeDone, OnlyOf, PageStays, Subscribing
<1>7. ASSUME NEW i \in Conns, NEW x \in Refreshes, SettingsLoaded(i, x) PROVE Inv'
  <2>1. ~overlap
    BY <1>7 DEF SettingsLoaded, PageStays
  <2> QED
    BY <1>1, <1>7, <2>1 DEF SettingsLoaded, OnlyOf, PageStays, Subscribing
<1>8. ASSUME NEW i \in Conns, StreamMoves(i) PROVE Inv'
  <2>1. ~overlap /\ conn[i].of \in Sessions
    BY <1>3, <1>8 DEF StreamMoves, PageStays, Subscribing
  <2>2. route # None
    BY <1>1, <1>8, <2>1 DEF StreamMoves
  <2> QED
    BY <1>1, <1>8, <2>1, <2>2 DEF StreamMoves, OnlyOf, PageStays, Subscribing
<1>9. ASSUME NEW i \in Conns, GivesUp(i) PROVE Inv'
  <2>1. ~overlap
    BY <1>9 DEF GivesUp, PageStays
  <2> QED
    BY <1>1, <1>9, <2>1 DEF GivesUp, OnlyOf, PageStays, Subscribing
<1>10. ASSUME NEW i \in Conns, Healthy(i) PROVE Inv'
  <2>1. ~overlap /\ On(i) /\ conn[i].of = route /\ route # None
    <3>1. ~overlap /\ On(i) /\ conn[i].of \in Sessions
      BY <1>3, <1>10 DEF Healthy
    <3> QED
      BY <1>1, <3>1
  <2>2. \A j \in Conns : conn'[j].step \notin Subscribing
    BY <1>1, <1>10, <2>1 DEF Healthy, OthersAborted, Subscribing
  <2>3. \A j \in Conns \ {i} : ~On(j)'
    BY <1>1, <1>10, <2>1 DEF Healthy, OthersAborted, Subscribing
  <2> QED
    BY <1>10, <2>1, <2>2, <2>3 DEF Healthy, Subscribing
<1>11. ASSUME NEW i \in Conns, Retried(i) PROVE Inv'
  <2>1. ~overlap /\ \A j \in Conns : ~On(j)
    BY <1>11 DEF Retried, MeetsOther, Connecting
  <2> QED
    BY <1>1, <1>11, <2>1 DEF Retried, Subscribing
<1>12. ASSUME NEW i \in Conns, WentTo(i) PROVE Inv'
  <2>1. /\ ~overlap
        /\ \A j \in Conns : ~(Cleanup[j].step \in {"settings", "tree"} \/ (Cleanup[j].step = "health" /\ j \notin cancelled'))
    BY <1>12 DEF WentTo, PageLeft, MeetsOther, Connecting
  <2>2. \A j \in Conns \ {i} : conn'[j].step = Cleanup[j].step
    BY <1>12, Aborted DEF WentTo, OthersAborted, Cleanup
  <2>3. \A j \in Conns \ {i} : ~On(j)'
    BY <2>1, <2>2
  <2>4. \A j \in Conns : conn'[j].step \notin Subscribing
    BY <1>1, <1>12, <2>1 DEF WentTo, OthersAborted, Subscribing
  <2>5. route' # None
    BY <1>12 DEF WentTo
  <2> QED
    BY <1>12, <2>3, <2>4, <2>5 DEF WentTo, Subscribing
<1>13. ASSUME WentToNew PROVE Inv'
  <2>1. /\ ~overlap
        /\ \A j \in Conns : ~(Cleanup[j].step \in {"settings", "tree"} \/ (Cleanup[j].step = "health" /\ j \notin cancelled'))
    BY <1>13 DEF WentToNew, PageLeft, MeetsOther, Connecting
  <2>2. \A j \in Conns : ~On(j)'
    BY <1>13, <2>1 DEF WentToNew
  <2>3. \A j \in Conns : conn'[j].step \notin Subscribing
    BY <1>1, <1>13, <2>1, Aborted DEF WentToNew, Cleanup, Subscribing
  <2> QED
    BY <1>13, <2>2, <2>3 DEF WentToNew
<1> QED
  BY <1>5, <1>6, <1>7, <1>8, <1>9, <1>10, <1>11, <1>12, <1>13 DEF AttemptStep

-----------------------------------------------------------------------------
(* The messages.                                                           *)

\* The steps that no message of the user takes.
PromptsStay == UNCHANGED <<route, creating, pendingInitial, writing, strayed>>
ChatPosts(ps) == {p \in ps : p.kind = "chat"}

\* What the steps do to the messages.
LEMMA StepsOfPrompts ==
    ASSUME TypeOK, Next
    PROVE  \/ PromptsStay /\ ChatPosts(posts') \subseteq ChatPosts(posts)
           \/ \E p \in posts : PostAnswered(p)
           \/ \E r \in Sessions \cup {None} : RouteTo(r)
           \/ \E k \in Prompts : sendMessage(k) \/ startNewSessionWithMessage(k)
           \/ \E s \in NewSessions : SessionCreated(s)
           \/ CreateFails \/ SendPending
<1> DEFINE Stays == PromptsStay /\ ChatPosts(posts') \subseteq ChatPosts(posts)
<1>1. ASSUME NEW x \in Refreshes, AnswerTree(x) \/ ApplyTree(x) \/ TreeFails(x) PROVE Stays
  BY <1>1 DEF AnswerTree, ApplyTree, TreeFails, PromptsStay, ChatPosts, clientVars,
        history, crossing
<1>2. ASSUME NEW i \in Conns, CheckHealth(i) \/ LoadSettings(i) \/ Subscribe(i) \/ Wake(i) \/ Deliver(i) PROVE Stays
  BY <1>2 DEF CheckHealth, LoadSettings, Subscribe, Wake, Deliver, PromptsStay,
        ChatPosts, history, crossing
<1>3. ASSUME NEW i \in Conns, ConnectFails(i) \/ StreamEnds(i) PROVE Stays
  BY <1>3 DEF ConnectFails, StreamEnds, PromptsStay, ChatPosts, history, crossing
<1>4. ASSUME NEW p \in posts, PostFails(p) PROVE Stays
  BY <1>4 DEF PostFails, PromptsStay, ChatPosts, history, crossing
<1>5. ASSUME DeviceLost \/ DeviceBack \/ RetryConnection PROVE Stays
  BY <1>5 DEF DeviceLost, DeviceBack, RetryConnection, PromptsStay, ChatPosts, history,
        crossing
<1>6. ASSUME stopGeneration \/ compactContext PROVE Stays
  BY <1>6 DEF stopGeneration, compactContext, PromptsStay, ChatPosts, clientVars,
        history, crossing
<1>7. ASSUME NEW s \in Sessions, Daemon(s) PROVE Stays
  BY <1>7 DEF Daemon, PromptsStay, ChatPosts, clientVars, history, crossing
<1> QED
  BY <1>1, <1>2, <1>3, <1>4, <1>5, <1>6, <1>7 DEF Next, Client, Faults, UserStep

\* A prompt is posted once, and not before its session is there.
LEMMA PostedStep ==
    ASSUME TypeOK, PostedOnce, Next
    PROVE  PostedOnce'
<1> DEFINE Unposted(k) == (\A p \in posts : p.kind = "chat" => p.prompt # k) /\ (\A a \in reached : a[1] # k)
           Inv == /\ \A p \in posts : p.kind = "chat" => p.prompt \in sent
                  /\ \A a \in reached : a[1] \in sent
                  /\ creating # None => creating \in sent /\ Unposted(creating)
                  /\ pendingInitial # None => pendingInitial \in sent /\ Unposted(pendingInitial)
                  /\ creating # None => creating # pendingInitial
<1>1. PostedOnce <=> Inv
  BY DEF PostedOnce
<1>2. Inv' => PostedOnce'
  BY DEF PostedOnce
<1>3. CASE PromptsStay /\ ChatPosts(posts') \subseteq ChatPosts(posts)
  <2>1. \A p \in posts' : p.kind = "chat" => p \in posts
    BY <1>3 DEF ChatPosts
  <2> QED
    BY <1>1, <1>2, <1>3, <2>1 DEF PromptsStay, writing
<1>4. ASSUME NEW p \in posts, PostAnswered(p) PROVE Inv'
  <2>1. UNCHANGED <<creating, pendingInitial, sent>> /\ posts' = posts \ {p}
    BY <1>4 DEF PostAnswered
  <2>2. CASE p.kind = "chat"
    <3>1. reached' = reached \cup {<<p.prompt, p.session>>}
      BY <1>4, <2>2 DEF PostAnswered
    <3> QED
      BY <1>1, <2>1, <2>2, <3>1
  <2>3. CASE p.kind # "chat"
    <3>1. reached' = reached
      BY <1>4, <2>3 DEF PostAnswered
    <3> QED
      BY <1>1, <2>1, <3>1
  <2> QED
    BY <2>2, <2>3
<1>5. ASSUME NEW r \in Sessions \cup {None}, RouteTo(r) PROVE Inv'
  BY <1>1, <1>5 DEF RouteTo, writing
<1>6. ASSUME NEW k \in Prompts, sendMessage(k) PROVE Inv'
  BY <1>1, <1>6 DEF sendMessage, Post, clientVars
<1>7. ASSUME NEW k \in Prompts, startNewSessionWithMessage(k) PROVE Inv'
  BY <1>1, <1>7 DEF startNewSessionWithMessage
<1>8. ASSUME NEW s \in NewSessions, SessionCreated(s) PROVE Inv'
  BY <1>1, <1>8 DEF SessionCreated
<1>9. CASE CreateFails
  BY <1>1, <1>2, <1>9 DEF CreateFails, history, writing
<1>10. CASE SendPending
  <2>1. /\ pendingInitial # None /\ pendingInitial' = None
        /\ UNCHANGED <<creating, sent, reached>>
        /\ posts' \subseteq posts \cup {[kind |-> "chat", session |-> sessionId, prompt |-> pendingInitial]}
    BY <1>10 DEF SendPending, EffectDue, Post, history, writing
  <2> QED
    BY <1>1, <1>2, <2>1
<1> QED
  BY <1>2, <1>3, <1>4, <1>5, <1>6, <1>7, <1>8, <1>9, <1>10, StepsOfPrompts

\* A page that becomes ready is connected to the session of the route, for which the first
\* message waits; a post names the session for which its prompt was written.
LEMMA MessageStep ==
    ASSUME TypeOK, AttemptsInOrder, ConnectedToRoute, OneSubscription, PostedOnce, FirstMessageWaits,
           MessageReachesItsSession, AttemptStep, Next
    PROVE  FirstMessageWaits' /\ MessageReachesItsSession'
<1> DEFINE Waiting == /\ creating # None => route = None /\ pendingInitial = None
                      /\ pendingInitial # None => /\ route # None /\ intended[pendingInitial] = route
                                                  /\ status = "ready" => sessionId = route
           Meant == /\ \A p \in posts : p.kind = "chat" => p.session = intended[p.prompt]
                    /\ \A a \in reached : a[2] = intended[a[1]]
<1> SUFFICES ASSUME ~strayed', ~overlap' PROVE Waiting' /\ Meant'
  BY DEF FirstMessageWaits, MessageReachesItsSession
<1>1. ~strayed
  BY StepsOfPrompts DEF PromptsStay, PostAnswered, RouteTo, RouteEffect, sendMessage,
        startNewSessionWithMessage,
                        SessionCreated, CreateFails, SendPending, history, crossing
<1>2. ~overlap
  BY DEF AttemptStep, AttemptsStay, TreeDone, SettingsLoaded, StreamMoves, GivesUp,
        Healthy, Retried, WentTo,
         WentToNew, PageLeft, PageStays, MeetsOther
<1>3. Waiting /\ Meant
  BY <1>1, <1>2 DEF FirstMessageWaits, MessageReachesItsSession
<1>4. \A i \in Conns : conn[i].step \in Subscribing => sessionId = conn[i].of /\ conn[i].of = route
  BY <1>2 DEF ConnectedToRoute, OneSubscription, Subscribed, Subscribing
<1>5. ASSUME UNCHANGED <<route, creating, pendingInitial>>,
             pendingInitial # None => intended'[pendingInitial] = intended[pendingInitial]
      PROVE  Waiting'
  <2>1. CASE AttemptsStay
    BY <1>3, <1>5, <2>1 DEF AttemptsStay, PageStays
  <2>2. ASSUME NEW x \in Refreshes, TreeDone(x) PROVE Waiting'
    BY <1>3, <1>5, <2>2 DEF TreeDone, PageStays
  <2>3. ASSUME NEW i \in Conns, NEW x \in Refreshes, SettingsLoaded(i, x) PROVE Waiting'
    BY <1>3, <1>5, <2>3 DEF SettingsLoaded, PageStays
  <2>4. ASSUME NEW i \in Conns, StreamMoves(i) PROVE Waiting'
    BY <1>3, <1>4, <1>5, <2>4 DEF StreamMoves, PageStays
  <2>5. ASSUME NEW i \in Conns, GivesUp(i) PROVE Waiting'
    BY <1>3, <1>5, <2>5 DEF GivesUp, PageStays
  <2>6. ASSUME NEW i \in Conns, Healthy(i) \/ Retried(i) PROVE Waiting'
    BY <1>3, <1>5, <2>6 DEF Healthy, Retried
  <2>7. ASSUME NEW i \in Conns, WentTo(i) PROVE Waiting'
    BY <1>3, <1>5, <2>7 DEF WentTo
  <2>8. CASE WentToNew
    BY <1>3, <1>5, <2>8 DEF WentToNew
  <2> QED
    BY <2>1, <2>2, <2>3, <2>4, <2>5, <2>6, <2>7, <2>8 DEF AttemptStep
<1>6. \A p \in posts : p.kind = "chat" => p.prompt \in Prompts
  BY DEF TypeOK, PostRequest
<1>7. CASE PromptsStay /\ ChatPosts(posts') \subseteq ChatPosts(posts)
  <2>1. \A p \in posts' : p.kind = "chat" => p \in posts
    BY <1>7 DEF ChatPosts
  <2>2. Meant'
    BY <1>3, <1>7, <2>1 DEF PromptsStay, writing
  <2> QED
    BY <1>5, <1>7, <2>2 DEF PromptsStay, writing
<1>8. ASSUME NEW p \in posts, PostAnswered(p) PROVE Waiting' /\ Meant'
  <2>1. UNCHANGED <<route, creating, pendingInitial, intended>> /\ posts' = posts \ {p}
    BY <1>8 DEF PostAnswered
  <2>2. CASE p.kind = "chat"
    <3>1. reached' = reached \cup {<<p.prompt, p.session>>}
      BY <1>8, <2>2 DEF PostAnswered
    <3>2. p.session = intended[p.prompt]
      BY <1>3, <2>2
    <3> QED
      BY <1>3, <1>5, <2>1, <3>1, <3>2
  <2>3. CASE p.kind # "chat"
    <3>1. reached' = reached
      BY <1>8, <2>3 DEF PostAnswered
    <3> QED
      BY <1>3, <1>5, <2>1, <3>1
  <2> QED
    BY <2>2, <2>3
<1>9. ASSUME NEW r \in Sessions \cup {None}, RouteTo(r) PROVE Waiting' /\ Meant'
  <2>1. /\ UNCHANGED <<creating, intended, reached, posts>> /\ route' = r
        /\ pendingInitial' = IF r = None THEN None ELSE pendingInitial
        /\ r # None => pendingInitial = None /\ creating = None
    BY <1>9 DEF RouteTo, RouteEffect, writing
  <2> QED
    BY <1>3, <2>1
<1>10. ASSUME NEW k \in Prompts, sendMessage(k) PROVE Waiting' /\ Meant'
  <2>1. /\ UNCHANGED <<route, creating, pendingInitial, reached>>
        /\ intended' = [intended EXCEPT ![k] = sessionId] /\ k \notin sent
        /\ posts' = posts \cup {[kind |-> "chat", session |-> sessionId, prompt |-> k]}
    BY <1>10 DEF sendMessage, Post, clientVars
  <2>2. intended'[k] = sessionId /\ \A j \in Prompts \ {k} : intended'[j] = intended[j]
    BY <2>1 DEF TypeOK
  <2>3. \A p \in posts : p.kind = "chat" => p.prompt \in Prompts \ {k}
    BY <1>6, <2>1 DEF PostedOnce
  <2>4. \A a \in reached : a[1] \in Prompts \ {k}
    BY <2>1 DEF PostedOnce, TypeOK
  <2>5. pendingInitial # None => pendingInitial \in Prompts \ {k}
    BY <2>1 DEF PostedOnce, TypeOK
  <2>6. Meant'
    BY <1>3, <2>1, <2>2, <2>3, <2>4
  <2> QED
    BY <1>5, <2>1, <2>2, <2>5, <2>6
<1>11. ASSUME NEW k \in Prompts, startNewSessionWithMessage(k) PROVE Waiting' /\ Meant'
  BY <1>3, <1>11 DEF startNewSessionWithMessage
<1>12. ASSUME NEW s \in NewSessions, SessionCreated(s) PROVE Waiting' /\ Meant'
  <2>1. /\ creating # None /\ creating' = None /\ pendingInitial' = creating /\ s \in Sessions
        /\ route' = s /\ UNCHANGED <<status, reached, posts>> /\ intended' = [intended EXCEPT ![creating] = s]
    BY <1>12 DEF SessionCreated
  <2>2. creating \in Prompts
    BY <2>1 DEF TypeOK
  <2>3. intended'[creating] = s /\ \A j \in Prompts \ {creating} : intended'[j] = intended[j]
    BY <2>1, <2>2 DEF TypeOK
  <2>4. status # "ready"
    BY <1>2, <1>3, <2>1 DEF ConnectedToRoute
  <2>5. \A p \in posts : p.kind = "chat" => p.prompt \in Prompts \ {creating}
    BY <1>6, <2>1 DEF PostedOnce
  <2>6. \A a \in reached : a[1] \in Prompts \ {creating}
    BY <2>1 DEF PostedOnce, TypeOK
  <2>7. Meant'
    BY <1>3, <2>1, <2>3, <2>5, <2>6
  <2> QED
    BY <2>1, <2>3, <2>4, <2>7
<1>13. CASE CreateFails
  BY <1>3, <1>13 DEF CreateFails, history, writing
<1>14. CASE SendPending
  <2>1. /\ pendingInitial # None /\ pendingInitial' = None /\ UNCHANGED <<route, creating, intended, reached>>
        /\ status = "ready"
        /\ posts' \subseteq posts \cup {[kind |-> "chat", session |-> sessionId, prompt |-> pendingInitial]}
    BY <1>14 DEF SendPending, EffectDue, canSend, sessionReady, Post, history, writing
  <2>2. sessionId = intended[pendingInitial]
    BY <1>3, <2>1
  <2> QED
    BY <1>3, <2>1, <2>2
<1> QED
  BY <1>7, <1>8, <1>9, <1>10, <1>11, <1>12, <1>13, <1>14, StepsOfPrompts

-----------------------------------------------------------------------------

\* Nothing changes: the parts of the invariant stay.
LEMMA WebChatStays == WebChatInv /\ UNCHANGED vars => WebChatInv'
<1> SUFFICES ASSUME WebChatInv, UNCHANGED vars PROVE WebChatInv'
  OBVIOUS
<1> USE DEF vars, clientVars, screenVars, daemonVars, history, writing, crossing, treeHistory
<1>1. TypeOK'
  BY DEF WebChatInv, TypeOK
<1>2. OneSubscription' /\ ConnectedToRoute'
  BY DEF WebChatInv, OneSubscription, ConnectedToRoute, Subscribed, Connecting
<1>3. MessageReachesItsSession' /\ AttemptsInOrder' /\ PostedOnce' /\ FirstMessageWaits'
  BY DEF WebChatInv, MessageReachesItsSession, AttemptsInOrder, PostedOnce,
        FirstMessageWaits
<1> QED
  BY <1>1, <1>2, <1>3 DEF WebChatInv

\* The page starts without a session, an attempt or a message.
LEMMA WebChatStarts == Init => WebChatInv
<1> SUFFICES ASSUME Init PROVE WebChatInv
  OBVIOUS
<1>1. TypeOK
  <2>1. NoConn \in Attempt /\ \A i \in Conns : conn[i] = NoConn
    BY DEF Init, NoConn, Attempt
  <2>2. Idle \in [job : Prompts \cup {Compaction, None}, stored : BOOLEAN, tool : BOOLEAN] /\ ~Idle.tool
    BY DEF Idle
  <2>3. conn \in [Conns -> Attempt] /\ cancelled \subseteq Conns /\ sseAbort \in Conns \cup {None}
    BY <2>1 DEF Init
  <2>4. /\ wire \in [Conns -> Seq(SseEvent)] /\ pending \in [Sessions -> Seq(SseEvent)]
        /\ branch \in [Sessions -> Seq(Message)] /\ jobs \in [Sessions -> Seq(Prompts \cup {Compaction})]
    BY DEF Init
  <2>5. /\ turn \in [Sessions -> [job : Prompts \cup {Compaction, None}, stored : BOOLEAN, tool : BOOLEAN]]
        /\ \A s \in Sessions : turn[s].tool => turn[s].job \in Prompts
    BY <2>2 DEF Init
  <2>6. messages \in Seq(Message) /\ refresh \in [Refreshes -> TreeRequest \cup {None}]
    BY DEF Init
  <2>7. /\ posts \subseteq PostRequest /\ sent \subseteq Prompts /\ reached \subseteq Prompts \X Sessions
        /\ intended \in [Prompts -> Sessions \cup {None}]
    BY DEF Init
  <2>8. /\ route = None /\ sessionId = None /\ status = "idle" /\ sseStatus = "idle" /\ creating = None
        /\ pendingInitial = None /\ ~compacting /\ ~stopping /\ ~treeError /\ ~overlap /\ ~strayed /\ ~leftover
        /\ {compacting, stopping, treeError, overlap, strayed, leftover} \subseteq BOOLEAN
    BY DEF Init
  <2> QED
    BY <2>3, <2>4, <2>5, <2>6, <2>7, <2>8 DEF TypeOK
<1>2. \A i \in Conns : conn[i].step = "free"
  BY DEF Init, NoConn
<1>3. OneSubscription /\ ConnectedToRoute /\ AttemptsInOrder
  BY <1>2 DEF Init, OneSubscription, ConnectedToRoute, AttemptsInOrder, Subscribed,
        Connecting
<1>4. MessageReachesItsSession /\ PostedOnce /\ FirstMessageWaits
  BY DEF Init, MessageReachesItsSession, PostedOnce, FirstMessageWaits
<1> QED
  BY <1>1, <1>3, <1>4 DEF WebChatInv

\* The page of the web client, for any number of sessions, messages and attempts: as long
\* as attempts to connect did not overlap, one subscription at most is open, which the
\* next route effect aborts and which feeds the session on the screen; and a message,
\* the first one of a new chat included, reaches the session it was written for.
THEOREM WebChatIsSafe == Spec => []WebChatInv
<1>1. WebChatInv /\ [Next]_vars => WebChatInv'
  <2>1. ASSUME WebChatInv, Next PROVE WebChatInv'
    <3>1. TypeOK' /\ AttemptStep
      BY <2>1, TypeStep, StepsOfAttempts DEF WebChatInv
    <3>2. AttemptsInOrder'
      BY <2>1, <3>1, OrderStep DEF WebChatInv
    <3>3. ConnectedToRoute' /\ OneSubscription'
      BY <2>1, <3>1, <3>2, ConnectionStep DEF WebChatInv
    <3>4. PostedOnce' /\ FirstMessageWaits' /\ MessageReachesItsSession'
      BY <2>1, <3>1, PostedStep, MessageStep DEF WebChatInv
    <3> QED
      BY <3>1, <3>2, <3>3, <3>4 DEF WebChatInv
  <2> QED
    BY <2>1, WebChatStays
<1> QED
  BY <1>1, WebChatStarts, PTL DEF Spec

-----------------------------------------------------------------------------
(* The scrolling of the chat.                                              *)

HIDE WebChatAssumption

\* Animations, the oldest first; what a frame makes of them
Animations == [from : 0 .. MaxHeight, target : 0 .. MaxHeight, left : 1 .. Duration]
SteppedOnes == [from : 0 .. MaxHeight, target : 0 .. MaxHeight, left : 0 .. Duration]
OldestFirst(q) == \A i, j \in DOMAIN q : i <= j => q[i].left <= q[j].left

\* Every value stays in its set.
ScrollValues ==
  /\ ScrollTypes
  /\ streaming \in BOOLEAN /\ contentEffect \in BOOLEAN /\ streamingEnded \in BOOLEAN
  /\ scrolled \in BOOLEAN /\ resized \in BOOLEAN /\ unmark \in BOOLEAN
  /\ wants \in BOOLEAN /\ mixed \in BOOLEAN /\ reading \in 0 .. Nowhere
  /\ smooth \in Seq(Animations) /\ OldestFirst(smooth)
  /\ frame \in {"idle", "scroll", "animation", "resize", "intersection"}
  /\ frame = "animation" => ~scrolled

\* The observer tells of changes only, and isAtBottom is what it told last.
ToldLast == observed \in {{}, {isAtBottom}}

\* Nothing that the code has begun can move the page of who reads further up.
ReaderRests ==
  reading # Nowhere => scrollTop = reading /\ ~autoFollow /\ ~isAtBottom /\ smooth = <<>> /\ aligning = {}

\* The page of who wants to see the end
Follower == wants /\ ~mixed
KeepsFollowing == Follower => autoFollow

\* A scroll event that is still to come is marked as the code's own: by an instant scroll, or by a
\* smooth one whose timer is the only one and ends with the mark.
EventIsMarked ==
  Follower /\ scrolled =>
    \/ programmatic /\ timers = {}
    \/ timers = {until} /\ until >= IF frame = "scroll" THEN 1 ELSE 2

\* One animation runs, shorter than its mark, to where the bottom is or a render will follow.
OneAnimation ==
  Follower /\ smooth # <<>> =>
    /\ Len(smooth) = 1 /\ timers = {until}
    /\ until = smooth[1].left + (IF frame \in {"scroll", "animation"} THEN 1 ELSE 2)
    /\ smooth[1].target >= height \/ contentEffect

AtTheEnd == Follower /\ smooth = <<>> => scrollTop = height \/ contentEffect

ScrollInd ==
  /\ ScrollValues /\ ToldLast /\ ReaderRests
  /\ KeepsFollowing /\ EventIsMarked /\ OneAnimation /\ AtTheEnd

-----------------------------------------------------------------------------
(* The animations.                                                         *)

\* A set of numbers that is not empty has a least one.
LEMMA FirstOf ==
    ASSUME NEW T \in SUBSET Nat, T # {}
    PROVE  \E n \in T : \A m \in T : n <= m
<1>1. IsWellFoundedOn(OpToRel(<, Nat), Nat)
  BY NatLessThanWellFounded
<1>2. PICK n \in T : \A m \in T : ~(<<m, n>> \in OpToRel(<, Nat))
  BY <1>1, WFMin
<1>3. \A m \in T : ~(m < n)
  BY <1>2 DEF OpToRel
<1> QED
  BY <1>3

\* The first of a sequence that is not empty is one of its members.
LEMMA FirstIsMember ==
    ASSUME NEW S, NEW q \in Seq(S), Len(q) = 1
    PROVE  q[1] \in S /\ q # <<>>
OBVIOUS

\* Running keeps the animations with frames left, which are the last ones.
LEMMA RunningIs ==
    ASSUME NEW q \in Seq(SteppedOnes), OldestFirst(q)
    PROVE  /\ Running(q) \in Seq(Animations) /\ OldestFirst(Running(q))
           /\ q = <<>> => Running(q) = <<>>
           /\ Len(q) = 1 => Running(q) = IF q[1].left > 0 THEN q ELSE <<>>
<1>1. \A i \in DOMAIN q : q[i] \in SteppedOnes /\ q[i].left \in Nat
  <2> SUFFICES ASSUME NEW i \in DOMAIN q PROVE q[i] \in SteppedOnes /\ q[i].left \in Nat
    OBVIOUS
  <2>1. q[i] \in SteppedOnes
    OBVIOUS
  <2> QED
    BY <2>1, ScrollAssumption DEF SteppedOnes
<1> DEFINE EndsAt(n) == \A i \in DOMAIN q : q[i].left > 0 <=> i > n
           e == CHOOSE n \in 0 .. Len(q) : EndsAt(n)
           T == {i \in DOMAIN q : q[i].left > 0}
<1>2. DOMAIN q = 1 .. Len(q) /\ Len(q) \in Nat
  OBVIOUS
<1>3. \E n \in 0 .. Len(q) : EndsAt(n)
  <2>1. CASE T = {}
    <3>1. EndsAt(Len(q))
      BY <2>1, <1>2
    <3> QED
      BY <3>1, <1>2
  <2>2. CASE T # {}
    <3>1. T \in SUBSET Nat
      BY <1>2
    <3>2. PICK m \in T : \A k \in T : m <= k
      BY <2>2, <3>1, FirstOf
    <3>3. m \in 1 .. Len(q) /\ q[m].left > 0
      BY <3>2, <1>2
    <3>4. ASSUME NEW i \in DOMAIN q PROVE q[i].left > 0 <=> i > m - 1
      <4>1. i \in Nat /\ m \in Nat /\ q[i].left \in Nat /\ q[m].left \in Nat
        BY <1>1, <1>2, <3>3
      <4>2. q[i].left > 0 => m <= i
        BY <3>2
      <4>3. m <= i => q[m].left <= q[i].left
        BY <3>3, <1>2 DEF OldestFirst
      <4> QED
        BY <4>1, <4>2, <4>3, <3>3
    <3>5. m - 1 \in 0 .. Len(q)
      BY <3>3, <1>2
    <3> QED
      BY <3>4, <3>5
  <2> QED
    BY <2>1, <2>2
<1>4. e \in 0 .. Len(q) /\ EndsAt(e)
  BY <1>3
<1>0. e \in Nat /\ e <= Len(q)
  BY <1>4, <1>2
<1>5. Running(q) = SubSeq(q, e + 1, Len(q))
  BY DEF Running
<1> HIDE DEF e
<1> DEFINE r == SubSeq(q, e + 1, Len(q))
<1>6. \A i \in e + 1 .. Len(q) : q[i] \in Animations
  <2> SUFFICES ASSUME NEW i \in e + 1 .. Len(q) PROVE q[i] \in Animations
    OBVIOUS
  <2>1. i \in DOMAIN q /\ i > e
    BY <1>2, <1>4
  <2>2. q[i] \in SteppedOnes /\ q[i].left > 0
    BY <2>1, <1>1, <1>4
  <2> QED
    BY <2>2, ScrollAssumption DEF SteppedOnes, Animations
<1>7. /\ r \in Seq(Animations) /\ Len(r) = Len(q) - e
      /\ \A i \in 1 .. Len(r) : r[i] = q[i + e] /\ i + e \in DOMAIN q
  <2>1. e + 1 \in Int /\ Len(q) \in Int
    BY <1>2, <1>4
  <2>2. /\ r \in Seq(Animations) /\ Len(r) = IF e + 1 <= Len(q) THEN Len(q) - (e + 1) + 1 ELSE 0
        /\ \A i \in 1 .. Len(q) - (e + 1) + 1 : r[i] = q[e + 1 + i - 1]
    BY <2>1, <1>6, SubSeqProperties
  <2> HIDE DEF r
  <2>20. Len(r) = IF e + 1 <= Len(q) THEN Len(q) - (e + 1) + 1 ELSE 0
    BY <2>2
  <2>3. Len(r) = Len(q) - e
    <3>1. Len(q) \in Nat /\ e \in Nat /\ e <= Len(q)
      BY <1>2, <1>0
    <3>2. CASE e + 1 <= Len(q)
      <4>1. Len(r) = Len(q) - (e + 1) + 1
        BY <2>20, <3>2
      <4> QED
        BY <4>1, <3>1
    <3>3. CASE ~(e + 1 <= Len(q))
      <4>1. Len(r) = 0 /\ Len(q) = e
        BY <2>20, <3>3, <3>1
      <4> QED
        BY <4>1, <3>1
    <3> QED
      BY <3>2, <3>3
  <2>4. ASSUME NEW i \in 1 .. Len(r) PROVE r[i] = q[i + e] /\ i + e \in DOMAIN q
    <3>1. i \in 1 .. Len(q) - (e + 1) + 1 /\ e + 1 + i - 1 = i + e /\ i + e \in 1 .. Len(q)
      BY <2>3, <1>2, <1>0
    <3> QED
      BY <3>1, <2>2, <1>2
  <2> QED
    BY <2>2, <2>3, <2>4
<1> HIDE DEF r
<1>8. DOMAIN r = 1 .. Len(r) /\ Len(r) \in Nat
  BY <1>7
<1>9. OldestFirst(r)
  <2> SUFFICES ASSUME NEW i \in 1 .. Len(r), NEW j \in 1 .. Len(r), i <= j PROVE r[i].left <= r[j].left
    BY <1>8 DEF OldestFirst
  <2>1. r[i] = q[i + e] /\ r[j] = q[j + e] /\ i + e \in DOMAIN q /\ j + e \in DOMAIN q /\ i + e <= j + e
    BY <1>7, <1>8, <1>4
  <2> QED
    BY <2>1 DEF OldestFirst
<1>10. ASSUME q = <<>> PROVE r = <<>>
  <2>1. Len(r) = 0
    BY <1>10, <1>4, <1>7
  <2> QED
    BY <2>1, <1>7
<1>11. ASSUME Len(q) = 1 PROVE r = IF q[1].left > 0 THEN q ELSE <<>>
  <2>1. 1 \in DOMAIN q /\ (q[1].left > 0 <=> 1 > e) /\ e \in 0 .. 1
    BY <1>11, <1>2, <1>4
  <2>2. CASE e = 0
    <3>1. r \in Seq(SteppedOnes) /\ Len(r) = 1 /\ r[1] = q[1]
      <4>1. Len(r) = 1 /\ r[1] = q[1]
        BY <2>2, <1>2, <1>7, <1>11
      <4>2. Animations \subseteq SteppedOnes
        BY ScrollAssumption DEF Animations, SteppedOnes
      <4> QED
        BY <4>1, <4>2, <1>7, SeqMonotonic
    <3>2. r = q
      BY <3>1, <1>11
    <3> QED
      BY <3>2, <2>1, <2>2
  <2>3. CASE e = 1
    <3>1. Len(r) = 0
      BY <2>3, <1>7, <1>11
    <3> QED
      BY <3>1, <2>1, <2>3, <1>7
  <2> QED
    BY <2>1, <2>2, <2>3
<1> QED
  BY <1>5, <1>7, <1>9, <1>10, <1>11 DEF r

\* A frame takes one of the frames that an animation has left.
LEMMA OneStep ==
    ASSUME NEW a \in Animations
    PROVE  LET n == [a EXCEPT !.left = a.left - 1]
           IN /\ n \in SteppedOnes /\ n.from = a.from /\ n.target = a.target /\ n.left = a.left - 1
              /\ a.left \in Nat
<1>1. a.from \in 0 .. MaxHeight /\ a.target \in 0 .. MaxHeight /\ a.left \in 1 .. Duration
  BY DEF Animations
<1>2. a.left \in Nat /\ a.left - 1 \in 0 .. Duration
  BY <1>1, ScrollAssumption
<1>3. [a EXCEPT !.left = a.left - 1] = [from |-> a.from, target |-> a.target, left |-> a.left - 1]
  BY DEF Animations
<1> QED
  BY <1>1, <1>2, <1>3 DEF SteppedOnes

\* What a frame makes of the animations
LEMMA SteppedIs ==
    ASSUME smooth \in Seq(Animations), OldestFirst(smooth)
    PROVE  /\ Stepped \in Seq(SteppedOnes) /\ OldestFirst(Stepped) /\ Len(Stepped) = Len(smooth)
           /\ smooth = <<>> => Stepped = <<>>
           /\ \A i \in 1 .. Len(smooth) : /\ Stepped[i].from = smooth[i].from /\ Stepped[i].target = smooth[i].target
                                          /\ Stepped[i].left = smooth[i].left - 1
<1>1. DOMAIN smooth = 1 .. Len(smooth) /\ Len(smooth) \in Nat
  OBVIOUS
<1>2. ASSUME NEW i \in 1 .. Len(smooth)
      PROVE  /\ Stepped[i] \in SteppedOnes /\ Stepped[i].from = smooth[i].from /\ Stepped[i].target = smooth[i].target
             /\ Stepped[i].left = smooth[i].left - 1 /\ smooth[i].left \in Nat
  <2>1. Stepped[i] = [smooth[i] EXCEPT !.left = smooth[i].left - 1] /\ smooth[i] \in Animations
    <3>1. i \in DOMAIN smooth
      BY <1>1
    <3>2. Stepped[i] = [smooth[i] EXCEPT !.left = smooth[i].left - 1]
      BY <3>1 DEF Stepped
    <3> HIDE DEF Stepped
    <3> QED
      BY <3>2
  <2> QED
    BY <2>1, OneStep
<1>3. Stepped \in Seq(SteppedOnes) /\ Len(Stepped) = Len(smooth) /\ DOMAIN Stepped = 1 .. Len(smooth)
  <2>1. Stepped = [i \in 1 .. Len(smooth) |-> Stepped[i]]
    BY <1>1 DEF Stepped
  <2> HIDE DEF Stepped
  <2> QED
    BY <2>1, <1>2, <1>1
<1>4. OldestFirst(Stepped)
  BY <1>1, <1>2, <1>3 DEF OldestFirst
<1>5. smooth = <<>> => Stepped = <<>>
  BY <1>3
<1> QED
  BY <1>2, <1>3, <1>4, <1>5
-----------------------------------------------------------------------------
(* Each action keeps the invariant.                                        *)

\* Content may end below the page: then a render is still to come.
LEMMA ContentKeeps == ScrollInd /\ Content => ScrollInd'
<1> SUFFICES ASSUME ScrollInd, Content PROVE ScrollInd'
  OBVIOUS
<1> USE DEF ScrollInd, Content, BetweenFrames, geometry, refs, marks, effects, frameEvents, memory
<1>1. ScrollValues'
  <2>1. ScrollTypes'
    <3>1. height' \in 0 .. MaxHeight /\ scrollTop' \in 0 .. height'
      BY ScrollAssumption DEF ScrollValues, ScrollTypes
    <3>2. autoFollow' \in BOOLEAN /\ isAtBottom' \in BOOLEAN /\ programmatic' \in BOOLEAN
      BY DEF ScrollValues, ScrollTypes
    <3>3. until' \in 0 .. Duration + 2 /\ timers' \subseteq 1 .. Duration + 2 /\ aligning' \subseteq 1 .. 2
      BY ScrollAssumption DEF ScrollValues, ScrollTypes
    <3> QED
      BY <3>1, <3>2, <3>3 DEF ScrollTypes
  <2>2. streaming' \in BOOLEAN /\ contentEffect' \in BOOLEAN /\ streamingEnded' \in BOOLEAN /\ resized' \in BOOLEAN
    BY DEF ScrollValues, ScrollTypes
  <2>3. scrolled' \in BOOLEAN /\ unmark' \in BOOLEAN /\ wants' \in BOOLEAN /\ mixed' \in BOOLEAN
    BY DEF ScrollValues, ScrollTypes
  <2>4. reading' \in 0 .. Nowhere
    BY ScrollAssumption DEF ScrollValues, ScrollTypes, Nowhere
  <2>5. /\ smooth' \in Seq(Animations) /\ OldestFirst(smooth')
        /\ frame' \in {"idle", "scroll", "animation", "resize", "intersection"} /\ (frame' = "animation" => ~scrolled')
    BY DEF ScrollValues
  <2> QED
    BY <2>1, <2>2, <2>3, <2>4, <2>5 DEF ScrollValues, OldestFirst
<1>2. ToldLast' /\ ReaderRests'
  BY DEF ToldLast, ReaderRests, ScrollValues, ScrollTypes, Nowhere
<1>3. KeepsFollowing'
  BY DEF KeepsFollowing, Follower, EventIsMarked, ScrollValues, ScrollTypes
<1>4. EventIsMarked'
  BY DEF EventIsMarked, KeepsFollowing, Follower, OneAnimation, ScrollValues, ScrollTypes
<1>5. OneAnimation'
  BY DEF OneAnimation, KeepsFollowing, Follower, ScrollValues, ScrollTypes
<1>6. AtTheEnd'
  BY DEF AtTheEnd, KeepsFollowing, Follower, ScrollValues, ScrollTypes
<1> QED
  BY <1>1, <1>2, <1>3, <1>4, <1>5, <1>6

\* The end of the streaming moves nothing by itself.
LEMMA StreamingEndsKeeps == ScrollInd /\ StreamingEnds => ScrollInd'
<1> SUFFICES ASSUME ScrollInd, StreamingEnds PROVE ScrollInd'
  OBVIOUS
<1> USE DEF ScrollInd, StreamingEnds, BetweenFrames, geometry, refs, marks, effects, frameEvents, memory
<1>1. ScrollValues'
  <2>1. ScrollTypes'
    <3>1. height' \in 0 .. MaxHeight /\ scrollTop' \in 0 .. height'
      BY ScrollAssumption DEF ScrollValues, ScrollTypes
    <3>2. autoFollow' \in BOOLEAN /\ isAtBottom' \in BOOLEAN /\ programmatic' \in BOOLEAN
      BY DEF ScrollValues, ScrollTypes
    <3>3. until' \in 0 .. Duration + 2 /\ timers' \subseteq 1 .. Duration + 2 /\ aligning' \subseteq 1 .. 2
      BY ScrollAssumption DEF ScrollValues, ScrollTypes
    <3> QED
      BY <3>1, <3>2, <3>3 DEF ScrollTypes
  <2>2. streaming' \in BOOLEAN /\ contentEffect' \in BOOLEAN /\ streamingEnded' \in BOOLEAN /\ resized' \in BOOLEAN
    BY DEF ScrollValues, ScrollTypes
  <2>3. scrolled' \in BOOLEAN /\ unmark' \in BOOLEAN /\ wants' \in BOOLEAN /\ mixed' \in BOOLEAN
    BY DEF ScrollValues, ScrollTypes
  <2>4. reading' \in 0 .. Nowhere
    BY ScrollAssumption DEF ScrollValues, ScrollTypes, Nowhere
  <2>5. /\ smooth' \in Seq(Animations) /\ OldestFirst(smooth')
        /\ frame' \in {"idle", "scroll", "animation", "resize", "intersection"} /\ (frame' = "animation" => ~scrolled')
    BY DEF ScrollValues
  <2> QED
    BY <2>1, <2>2, <2>3, <2>4, <2>5 DEF ScrollValues, OldestFirst
<1>2. ToldLast' /\ ReaderRests'
  BY DEF ToldLast, ReaderRests, ScrollValues, ScrollTypes, Nowhere
<1>3. KeepsFollowing'
  BY DEF KeepsFollowing, Follower, EventIsMarked, ScrollValues, ScrollTypes
<1>4. EventIsMarked'
  BY DEF EventIsMarked, KeepsFollowing, Follower, OneAnimation, ScrollValues, ScrollTypes
<1>5. OneAnimation'
  BY DEF OneAnimation, KeepsFollowing, Follower, ScrollValues, ScrollTypes
<1>6. AtTheEnd'
  BY DEF AtTheEnd, KeepsFollowing, Follower, ScrollValues, ScrollTypes
<1> QED
  BY <1>1, <1>2, <1>3, <1>4, <1>5, <1>6

\* Content that folds takes who reads below its new end there.
LEMMA ShrinkKeeps == ScrollInd /\ Shrink => ScrollInd'
<1> SUFFICES ASSUME ScrollInd, Shrink PROVE ScrollInd'
  OBVIOUS
<1> USE DEF ScrollInd, Shrink, BetweenFrames, MoveTo, geometry, refs, marks, effects, frameEvents, memory
<1>1. ScrollValues'
  <2>1. ScrollTypes'
    <3>1. height' \in 0 .. MaxHeight /\ scrollTop' \in 0 .. height'
      BY ScrollAssumption DEF ScrollValues, ScrollTypes
    <3>2. autoFollow' \in BOOLEAN /\ isAtBottom' \in BOOLEAN /\ programmatic' \in BOOLEAN
      BY DEF ScrollValues, ScrollTypes
    <3>3. until' \in 0 .. Duration + 2 /\ timers' \subseteq 1 .. Duration + 2 /\ aligning' \subseteq 1 .. 2
      BY ScrollAssumption DEF ScrollValues, ScrollTypes
    <3> QED
      BY <3>1, <3>2, <3>3 DEF ScrollTypes
  <2>2. streaming' \in BOOLEAN /\ contentEffect' \in BOOLEAN /\ streamingEnded' \in BOOLEAN /\ resized' \in BOOLEAN
    BY DEF ScrollValues, ScrollTypes
  <2>3. scrolled' \in BOOLEAN /\ unmark' \in BOOLEAN /\ wants' \in BOOLEAN /\ mixed' \in BOOLEAN
    BY DEF ScrollValues, ScrollTypes
  <2>4. reading' \in 0 .. Nowhere
    BY ScrollAssumption DEF ScrollValues, ScrollTypes, Nowhere
  <2>5. /\ smooth' \in Seq(Animations) /\ OldestFirst(smooth')
        /\ frame' \in {"idle", "scroll", "animation", "resize", "intersection"} /\ (frame' = "animation" => ~scrolled')
    BY DEF ScrollValues
  <2> QED
    BY <2>1, <2>2, <2>3, <2>4, <2>5 DEF ScrollValues, OldestFirst
<1>2. ToldLast' /\ ReaderRests'
  BY DEF ToldLast, ReaderRests, ScrollValues, ScrollTypes, Nowhere
<1>3. KeepsFollowing'
  BY DEF KeepsFollowing, Follower, EventIsMarked, ScrollValues, ScrollTypes
<1>4. EventIsMarked'
  BY DEF EventIsMarked, KeepsFollowing, Follower, OneAnimation, ScrollValues, ScrollTypes
<1>5. OneAnimation'
  <2> SUFFICES ASSUME wants, ~mixed', smooth # <<>>
               PROVE  /\ Len(smooth) = 1 /\ timers = {until}
                      /\ until = smooth[1].left + (IF frame \in {"scroll", "animation"} THEN 1 ELSE 2)
                      /\ smooth[1].target >= height' \/ contentEffect
    BY DEF OneAnimation, Follower
  <2>1. Follower
    BY DEF Follower, ScrollValues
  <2>2. Len(smooth) = 1 => smooth[1] \in Animations
    BY DEF ScrollValues
  <2>3. height \in Nat /\ height' = height - 1 /\ (smooth[1] \in Animations => smooth[1].target \in Nat)
    BY ScrollAssumption DEF ScrollValues, ScrollTypes, Animations
  <2> QED
    BY <2>1, <2>2, <2>3 DEF OneAnimation
<1>6. AtTheEnd'
  BY DEF AtTheEnd, KeepsFollowing, Follower, ScrollValues, ScrollTypes
<1> QED
  BY <1>1, <1>2, <1>3, <1>4, <1>5, <1>6

\* The effect of a render brings the follower to the end and nobody else.
LEMMA ContentEffectKeeps == ScrollInd /\ ContentEffect => ScrollInd'
<1> SUFFICES ASSUME ScrollInd, ContentEffect PROVE ScrollInd'
  OBVIOUS
<1> USE DEF ScrollInd, ContentEffect, BetweenFrames, scrollToBottomInstant, MarkInstant, MoveTo, SmoothMarked, shouldAlignToBottom, geometry, refs, marks, effects, frameEvents, memory
<1>1. ScrollValues'
  <2>1. ScrollTypes'
    <3>1. height' \in 0 .. MaxHeight /\ scrollTop' \in 0 .. height'
      BY ScrollAssumption DEF ScrollValues, ScrollTypes
    <3>2. autoFollow' \in BOOLEAN /\ isAtBottom' \in BOOLEAN /\ programmatic' \in BOOLEAN
      BY DEF ScrollValues, ScrollTypes
    <3>3. until' \in 0 .. Duration + 2 /\ timers' \subseteq 1 .. Duration + 2 /\ aligning' \subseteq 1 .. 2
      <4>1. until' \in {0, until} /\ timers' = timers /\ aligning' \in {aligning, aligning \cup {2}}
        OBVIOUS
      <4>2. 0 \in 0 .. Duration + 2 /\ 2 \in 1 .. 2
        BY ScrollAssumption
      <4>3. until \in 0 .. Duration + 2 /\ timers \subseteq 1 .. Duration + 2 /\ aligning \subseteq 1 .. 2
        BY DEF ScrollValues, ScrollTypes
      <4> QED
        BY <4>1, <4>2, <4>3
    <3> QED
      BY <3>1, <3>2, <3>3 DEF ScrollTypes
  <2>2. streaming' \in BOOLEAN /\ contentEffect' \in BOOLEAN /\ streamingEnded' \in BOOLEAN /\ resized' \in BOOLEAN
    BY DEF ScrollValues, ScrollTypes
  <2>3. scrolled' \in BOOLEAN /\ unmark' \in BOOLEAN /\ wants' \in BOOLEAN /\ mixed' \in BOOLEAN
    BY DEF ScrollValues, ScrollTypes
  <2>4. reading' \in 0 .. Nowhere
    BY ScrollAssumption DEF ScrollValues, ScrollTypes, Nowhere
  <2>5. /\ smooth' \in Seq(Animations) /\ OldestFirst(smooth')
        /\ frame' \in {"idle", "scroll", "animation", "resize", "intersection"} /\ (frame' = "animation" => ~scrolled')
    BY DEF ScrollValues
  <2> QED
    BY <2>1, <2>2, <2>3, <2>4, <2>5 DEF ScrollValues, OldestFirst
<1>2. ToldLast' /\ ReaderRests'
  BY DEF ToldLast, ReaderRests, ScrollValues, ScrollTypes, Nowhere
<1>3. KeepsFollowing'
  BY DEF KeepsFollowing, Follower, EventIsMarked, ScrollValues, ScrollTypes
<1>4. EventIsMarked'
  BY DEF EventIsMarked, KeepsFollowing, Follower, OneAnimation, ScrollValues, ScrollTypes
<1>5. OneAnimation'
  BY DEF OneAnimation, KeepsFollowing, Follower, ScrollValues, ScrollTypes
<1>6. AtTheEnd'
  BY DEF AtTheEnd, KeepsFollowing, Follower, ScrollValues, ScrollTypes
<1> QED
  BY <1>1, <1>2, <1>3, <1>4, <1>5, <1>6

\* A resize is only noted.
LEMMA ResizeKeeps == ScrollInd /\ Resize => ScrollInd'
<1> SUFFICES ASSUME ScrollInd, Resize PROVE ScrollInd'
  OBVIOUS
<1> USE DEF ScrollInd, Resize, BetweenFrames, geometry, refs, marks, effects, frameEvents, memory
<1>1. ScrollValues'
  <2>1. ScrollTypes'
    <3>1. height' \in 0 .. MaxHeight /\ scrollTop' \in 0 .. height'
      BY ScrollAssumption DEF ScrollValues, ScrollTypes
    <3>2. autoFollow' \in BOOLEAN /\ isAtBottom' \in BOOLEAN /\ programmatic' \in BOOLEAN
      BY DEF ScrollValues, ScrollTypes
    <3>3. until' \in 0 .. Duration + 2 /\ timers' \subseteq 1 .. Duration + 2 /\ aligning' \subseteq 1 .. 2
      BY ScrollAssumption DEF ScrollValues, ScrollTypes
    <3> QED
      BY <3>1, <3>2, <3>3 DEF ScrollTypes
  <2>2. streaming' \in BOOLEAN /\ contentEffect' \in BOOLEAN /\ streamingEnded' \in BOOLEAN /\ resized' \in BOOLEAN
    BY DEF ScrollValues, ScrollTypes
  <2>3. scrolled' \in BOOLEAN /\ unmark' \in BOOLEAN /\ wants' \in BOOLEAN /\ mixed' \in BOOLEAN
    BY DEF ScrollValues, ScrollTypes
  <2>4. reading' \in 0 .. Nowhere
    BY ScrollAssumption DEF ScrollValues, ScrollTypes, Nowhere
  <2>5. /\ smooth' \in Seq(Animations) /\ OldestFirst(smooth')
        /\ frame' \in {"idle", "scroll", "animation", "resize", "intersection"} /\ (frame' = "animation" => ~scrolled')
    BY DEF ScrollValues
  <2> QED
    BY <2>1, <2>2, <2>3, <2>4, <2>5 DEF ScrollValues, OldestFirst
<1>2. ToldLast' /\ ReaderRests'
  BY DEF ToldLast, ReaderRests, ScrollValues, ScrollTypes, Nowhere
<1>3. KeepsFollowing'
  BY DEF KeepsFollowing, Follower, EventIsMarked, ScrollValues, ScrollTypes
<1>4. EventIsMarked'
  BY DEF EventIsMarked, KeepsFollowing, Follower, OneAnimation, ScrollValues, ScrollTypes
<1>5. OneAnimation'
  BY DEF OneAnimation, KeepsFollowing, Follower, ScrollValues, ScrollTypes
<1>6. AtTheEnd'
  BY DEF AtTheEnd, KeepsFollowing, Follower, ScrollValues, ScrollTypes
<1> QED
  BY <1>1, <1>2, <1>3, <1>4, <1>5, <1>6

\* Another session is shown from its end.
LEMMA SwitchSessionKeeps == ScrollInd /\ SwitchSession => ScrollInd'
<1> SUFFICES ASSUME ScrollInd, SwitchSession PROVE ScrollInd'
  OBVIOUS
<1> USE DEF ScrollInd, SwitchSession, BetweenFrames, scrollToBottomInstant, MarkInstant, MoveTo, SmoothMarked, geometry, refs, marks, effects, frameEvents, memory
<1>1. ScrollValues'
  <2>1. ScrollTypes'
    <3>1. height' \in 0 .. MaxHeight /\ scrollTop' \in 0 .. height'
      BY ScrollAssumption DEF ScrollValues, ScrollTypes
    <3>2. autoFollow' \in BOOLEAN /\ isAtBottom' \in BOOLEAN /\ programmatic' \in BOOLEAN
      BY DEF ScrollValues, ScrollTypes
    <3>3. until' \in 0 .. Duration + 2 /\ timers' \subseteq 1 .. Duration + 2 /\ aligning' \subseteq 1 .. 2
      BY ScrollAssumption DEF ScrollValues, ScrollTypes
    <3> QED
      BY <3>1, <3>2, <3>3 DEF ScrollTypes
  <2>2. streaming' \in BOOLEAN /\ contentEffect' \in BOOLEAN /\ streamingEnded' \in BOOLEAN /\ resized' \in BOOLEAN
    BY DEF ScrollValues, ScrollTypes
  <2>3. scrolled' \in BOOLEAN /\ unmark' \in BOOLEAN /\ wants' \in BOOLEAN /\ mixed' \in BOOLEAN
    BY DEF ScrollValues, ScrollTypes
  <2>4. reading' \in 0 .. Nowhere
    BY ScrollAssumption DEF ScrollValues, ScrollTypes, Nowhere
  <2>5. /\ smooth' \in Seq(Animations) /\ OldestFirst(smooth')
        /\ frame' \in {"idle", "scroll", "animation", "resize", "intersection"} /\ (frame' = "animation" => ~scrolled')
    BY DEF ScrollValues
  <2> QED
    BY <2>1, <2>2, <2>3, <2>4, <2>5 DEF ScrollValues, OldestFirst
<1>2. ToldLast' /\ ReaderRests'
  BY DEF ToldLast, ReaderRests, ScrollValues, ScrollTypes, Nowhere
<1>3. KeepsFollowing'
  BY DEF KeepsFollowing, Follower, EventIsMarked, ScrollValues, ScrollTypes
<1>4. EventIsMarked'
  BY DEF EventIsMarked, KeepsFollowing, Follower, OneAnimation, ScrollValues, ScrollTypes
<1>5. OneAnimation'
  BY DEF OneAnimation, KeepsFollowing, Follower, ScrollValues, ScrollTypes
<1>6. AtTheEnd'
  BY DEF AtTheEnd, KeepsFollowing, Follower, ScrollValues, ScrollTypes
<1> QED
  BY <1>1, <1>2, <1>3, <1>4, <1>5, <1>6

\* Who scrolls up follows no longer.
LEMMA ScrollUpKeeps == ScrollInd /\ ScrollUp => ScrollInd'
<1> SUFFICES ASSUME ScrollInd, ScrollUp PROVE ScrollInd'
  OBVIOUS
<1> USE DEF ScrollInd, ScrollUp, Act, Leave, BetweenFrames, MoveTo, geometry, refs, marks, effects, frameEvents, memory
<1>1. ScrollValues'
  <2>1. ScrollTypes'
    <3>1. height' \in 0 .. MaxHeight /\ scrollTop' \in 0 .. height'
      BY ScrollAssumption DEF ScrollValues, ScrollTypes
    <3>2. autoFollow' \in BOOLEAN /\ isAtBottom' \in BOOLEAN /\ programmatic' \in BOOLEAN
      BY DEF ScrollValues, ScrollTypes
    <3>3. until' \in 0 .. Duration + 2 /\ timers' \subseteq 1 .. Duration + 2 /\ aligning' \subseteq 1 .. 2
      BY ScrollAssumption DEF ScrollValues, ScrollTypes
    <3> QED
      BY <3>1, <3>2, <3>3 DEF ScrollTypes
  <2>2. streaming' \in BOOLEAN /\ contentEffect' \in BOOLEAN /\ streamingEnded' \in BOOLEAN /\ resized' \in BOOLEAN
    BY DEF ScrollValues, ScrollTypes
  <2>3. scrolled' \in BOOLEAN /\ unmark' \in BOOLEAN /\ wants' \in BOOLEAN /\ mixed' \in BOOLEAN
    BY DEF ScrollValues, ScrollTypes
  <2>4. reading' \in 0 .. Nowhere
    BY ScrollAssumption DEF ScrollValues, ScrollTypes, Nowhere
  <2>5. /\ smooth' \in Seq(Animations) /\ OldestFirst(smooth')
        /\ frame' \in {"idle", "scroll", "animation", "resize", "intersection"} /\ (frame' = "animation" => ~scrolled')
    BY DEF ScrollValues
  <2> QED
    BY <2>1, <2>2, <2>3, <2>4, <2>5 DEF ScrollValues, OldestFirst
<1>2. ToldLast' /\ ReaderRests'
  BY DEF ToldLast, ReaderRests, ScrollValues, ScrollTypes, Nowhere
<1>3. KeepsFollowing'
  BY DEF KeepsFollowing, Follower, EventIsMarked, ScrollValues, ScrollTypes
<1>4. EventIsMarked'
  BY DEF EventIsMarked, KeepsFollowing, Follower, OneAnimation, ScrollValues, ScrollTypes
<1>5. OneAnimation'
  BY DEF OneAnimation, KeepsFollowing, Follower, ScrollValues, ScrollTypes
<1>6. AtTheEnd'
  BY DEF AtTheEnd, KeepsFollowing, Follower, ScrollValues, ScrollTypes
<1> QED
  BY <1>1, <1>2, <1>3, <1>4, <1>5, <1>6

\* Who drags may still be followed, but reads nowhere yet.
LEMMA DragKeeps == ScrollInd /\ Drag => ScrollInd'
<1> SUFFICES ASSUME ScrollInd, Drag PROVE ScrollInd'
  OBVIOUS
<1> USE DEF ScrollInd, Drag, Act, Leave, BetweenFrames, MoveTo, geometry, refs, marks, effects, frameEvents, memory
<1>1. ScrollValues'
  <2>1. ScrollTypes'
    <3>1. height' \in 0 .. MaxHeight /\ scrollTop' \in 0 .. height'
      BY ScrollAssumption DEF ScrollValues, ScrollTypes
    <3>2. autoFollow' \in BOOLEAN /\ isAtBottom' \in BOOLEAN /\ programmatic' \in BOOLEAN
      BY DEF ScrollValues, ScrollTypes
    <3>3. until' \in 0 .. Duration + 2 /\ timers' \subseteq 1 .. Duration + 2 /\ aligning' \subseteq 1 .. 2
      BY ScrollAssumption DEF ScrollValues, ScrollTypes
    <3> QED
      BY <3>1, <3>2, <3>3 DEF ScrollTypes
  <2>2. streaming' \in BOOLEAN /\ contentEffect' \in BOOLEAN /\ streamingEnded' \in BOOLEAN /\ resized' \in BOOLEAN
    BY DEF ScrollValues, ScrollTypes
  <2>3. scrolled' \in BOOLEAN /\ unmark' \in BOOLEAN /\ wants' \in BOOLEAN /\ mixed' \in BOOLEAN
    BY DEF ScrollValues, ScrollTypes
  <2>4. reading' \in 0 .. Nowhere
    BY ScrollAssumption DEF ScrollValues, ScrollTypes, Nowhere
  <2>5. /\ smooth' \in Seq(Animations) /\ OldestFirst(smooth')
        /\ frame' \in {"idle", "scroll", "animation", "resize", "intersection"} /\ (frame' = "animation" => ~scrolled')
    BY DEF ScrollValues
  <2> QED
    BY <2>1, <2>2, <2>3, <2>4, <2>5 DEF ScrollValues, OldestFirst
<1>2. ToldLast' /\ ReaderRests'
  BY DEF ToldLast, ReaderRests, ScrollValues, ScrollTypes, Nowhere
<1>3. KeepsFollowing'
  BY DEF KeepsFollowing, Follower, EventIsMarked, ScrollValues, ScrollTypes
<1>4. EventIsMarked'
  BY DEF EventIsMarked, KeepsFollowing, Follower, OneAnimation, ScrollValues, ScrollTypes
<1>5. OneAnimation'
  BY DEF OneAnimation, KeepsFollowing, Follower, ScrollValues, ScrollTypes
<1>6. AtTheEnd'
  BY DEF AtTheEnd, KeepsFollowing, Follower, ScrollValues, ScrollTypes
<1> QED
  BY <1>1, <1>2, <1>3, <1>4, <1>5, <1>6

\* Following is resumed at the end, by an instant scroll that is marked.
LEMMA resumeFollowingKeeps == ScrollInd /\ resumeFollowing => ScrollInd'
<1> SUFFICES ASSUME ScrollInd, resumeFollowing PROVE ScrollInd'
  OBVIOUS
<1> USE DEF ScrollInd, resumeFollowing, Act, BetweenFrames, MarkInstant, MoveTo, SmoothMarked, geometry, refs, marks, effects, frameEvents, memory
<1>1. ScrollValues'
  <2>1. ScrollTypes'
    <3>1. height' \in 0 .. MaxHeight /\ scrollTop' \in 0 .. height'
      BY ScrollAssumption DEF ScrollValues, ScrollTypes
    <3>2. autoFollow' \in BOOLEAN /\ isAtBottom' \in BOOLEAN /\ programmatic' \in BOOLEAN
      BY DEF ScrollValues, ScrollTypes
    <3>3. until' \in 0 .. Duration + 2 /\ timers' \subseteq 1 .. Duration + 2 /\ aligning' \subseteq 1 .. 2
      BY ScrollAssumption DEF ScrollValues, ScrollTypes
    <3> QED
      BY <3>1, <3>2, <3>3 DEF ScrollTypes
  <2>2. streaming' \in BOOLEAN /\ contentEffect' \in BOOLEAN /\ streamingEnded' \in BOOLEAN /\ resized' \in BOOLEAN
    BY DEF ScrollValues, ScrollTypes
  <2>3. scrolled' \in BOOLEAN /\ unmark' \in BOOLEAN /\ wants' \in BOOLEAN /\ mixed' \in BOOLEAN
    BY DEF ScrollValues, ScrollTypes
  <2>4. reading' \in 0 .. Nowhere
    BY ScrollAssumption DEF ScrollValues, ScrollTypes, Nowhere
  <2>5. /\ smooth' \in Seq(Animations) /\ OldestFirst(smooth')
        /\ frame' \in {"idle", "scroll", "animation", "resize", "intersection"} /\ (frame' = "animation" => ~scrolled')
    BY DEF ScrollValues
  <2> QED
    BY <2>1, <2>2, <2>3, <2>4, <2>5 DEF ScrollValues, OldestFirst
<1>2. ToldLast' /\ ReaderRests'
  BY DEF ToldLast, ReaderRests, ScrollValues, ScrollTypes, Nowhere
<1>3. KeepsFollowing'
  BY DEF KeepsFollowing, Follower, EventIsMarked, ScrollValues, ScrollTypes
<1>4. EventIsMarked'
  BY DEF EventIsMarked, KeepsFollowing, Follower, OneAnimation, ScrollValues, ScrollTypes
<1>5. OneAnimation'
  BY DEF OneAnimation, KeepsFollowing, Follower, ScrollValues, ScrollTypes
<1>6. AtTheEnd'
  BY DEF AtTheEnd, KeepsFollowing, Follower, ScrollValues, ScrollTypes
<1> QED
  BY <1>1, <1>2, <1>3, <1>4, <1>5, <1>6

\* A scroll event that is the code's own leaves the follower followed.
LEMMA OnScrollKeeps == ScrollInd /\ OnScroll => ScrollInd'
<1> SUFFICES ASSUME ScrollInd, OnScroll PROVE ScrollInd'
  OBVIOUS
<1> USE DEF ScrollInd, OnScroll, geometry, refs, marks, effects, frameEvents, memory
<1>1. ScrollValues'
  <2>1. ScrollTypes'
    <3>1. height' \in 0 .. MaxHeight /\ scrollTop' \in 0 .. height'
      BY ScrollAssumption DEF ScrollValues, ScrollTypes
    <3>2. autoFollow' \in BOOLEAN /\ isAtBottom' \in BOOLEAN /\ programmatic' \in BOOLEAN
      BY DEF ScrollValues, ScrollTypes
    <3>3. until' \in 0 .. Duration + 2 /\ timers' \subseteq 1 .. Duration + 2 /\ aligning' \subseteq 1 .. 2
      BY ScrollAssumption DEF ScrollValues, ScrollTypes
    <3> QED
      BY <3>1, <3>2, <3>3 DEF ScrollTypes
  <2>2. streaming' \in BOOLEAN /\ contentEffect' \in BOOLEAN /\ streamingEnded' \in BOOLEAN /\ resized' \in BOOLEAN
    BY DEF ScrollValues, ScrollTypes
  <2>3. scrolled' \in BOOLEAN /\ unmark' \in BOOLEAN /\ wants' \in BOOLEAN /\ mixed' \in BOOLEAN
    BY DEF ScrollValues, ScrollTypes
  <2>4. reading' \in 0 .. Nowhere
    BY ScrollAssumption DEF ScrollValues, ScrollTypes, Nowhere
  <2>5. /\ smooth' \in Seq(Animations) /\ OldestFirst(smooth')
        /\ frame' \in {"idle", "scroll", "animation", "resize", "intersection"} /\ (frame' = "animation" => ~scrolled')
    BY DEF ScrollValues
  <2> QED
    BY <2>1, <2>2, <2>3, <2>4, <2>5 DEF ScrollValues, OldestFirst
<1>2. ToldLast' /\ ReaderRests'
  BY DEF ToldLast, ReaderRests, ScrollValues, ScrollTypes, Nowhere
<1>3. KeepsFollowing'
  <2> SUFFICES ASSUME Follower PROVE autoFollow'
    BY DEF KeepsFollowing, Follower
  <2>1. autoFollow /\ (scrolled => programmatic \/ until >= 1)
    BY DEF KeepsFollowing, EventIsMarked
  <2>2. until >= 1 => until # 0
    BY ScrollAssumption DEF ScrollValues, ScrollTypes
  <2>3. ~(scrolled /\ ~programmatic /\ until = 0 /\ height > scrollTop)
    BY <2>1, <2>2
  <2> QED
    BY <2>1, <2>3
<1>4. EventIsMarked'
  BY DEF EventIsMarked, KeepsFollowing, Follower, OneAnimation, ScrollValues, ScrollTypes
<1>5. OneAnimation'
  BY DEF OneAnimation, KeepsFollowing, Follower, ScrollValues, ScrollTypes
<1>6. AtTheEnd'
  BY DEF AtTheEnd, KeepsFollowing, Follower, ScrollValues, ScrollTypes
<1> QED
  BY <1>1, <1>2, <1>3, <1>4, <1>5, <1>6

\* After a resize only who follows or is at the bottom is moved.
LEMMA OnResizeKeeps == ScrollInd /\ OnResize => ScrollInd'
<1> SUFFICES ASSUME ScrollInd, OnResize PROVE ScrollInd'
  OBVIOUS
<1> USE DEF ScrollInd, OnResize, scrollToBottomInstant, MarkInstant, MoveTo, SmoothMarked, shouldAlignToBottom, geometry, refs, marks, effects, frameEvents, memory
<1>1. ScrollValues'
  <2>1. ScrollTypes'
    <3>1. height' \in 0 .. MaxHeight /\ scrollTop' \in 0 .. height'
      BY ScrollAssumption DEF ScrollValues, ScrollTypes
    <3>2. autoFollow' \in BOOLEAN /\ isAtBottom' \in BOOLEAN /\ programmatic' \in BOOLEAN
      BY DEF ScrollValues, ScrollTypes
    <3>3. until' \in 0 .. Duration + 2 /\ timers' \subseteq 1 .. Duration + 2 /\ aligning' \subseteq 1 .. 2
      <4>1. until' \in {0, until} /\ timers' = timers /\ aligning' \in {aligning, aligning \cup {2}}
        OBVIOUS
      <4>2. 0 \in 0 .. Duration + 2 /\ 2 \in 1 .. 2
        BY ScrollAssumption
      <4>3. until \in 0 .. Duration + 2 /\ timers \subseteq 1 .. Duration + 2 /\ aligning \subseteq 1 .. 2
        BY DEF ScrollValues, ScrollTypes
      <4> QED
        BY <4>1, <4>2, <4>3
    <3> QED
      BY <3>1, <3>2, <3>3 DEF ScrollTypes
  <2>2. streaming' \in BOOLEAN /\ contentEffect' \in BOOLEAN /\ streamingEnded' \in BOOLEAN /\ resized' \in BOOLEAN
    BY DEF ScrollValues, ScrollTypes
  <2>3. scrolled' \in BOOLEAN /\ unmark' \in BOOLEAN /\ wants' \in BOOLEAN /\ mixed' \in BOOLEAN
    BY DEF ScrollValues, ScrollTypes
  <2>4. reading' \in 0 .. Nowhere
    BY ScrollAssumption DEF ScrollValues, ScrollTypes, Nowhere
  <2>5. /\ smooth' \in Seq(Animations) /\ OldestFirst(smooth')
        /\ frame' \in {"idle", "scroll", "animation", "resize", "intersection"} /\ (frame' = "animation" => ~scrolled')
    BY DEF ScrollValues
  <2> QED
    BY <2>1, <2>2, <2>3, <2>4, <2>5 DEF ScrollValues, OldestFirst
<1>2. ToldLast' /\ ReaderRests'
  BY DEF ToldLast, ReaderRests, ScrollValues, ScrollTypes, Nowhere
<1>3. KeepsFollowing'
  BY DEF KeepsFollowing, Follower, EventIsMarked, ScrollValues, ScrollTypes
<1>4. EventIsMarked'
  BY DEF EventIsMarked, KeepsFollowing, Follower, OneAnimation, ScrollValues, ScrollTypes
<1>5. OneAnimation'
  BY DEF OneAnimation, KeepsFollowing, Follower, ScrollValues, ScrollTypes
<1>6. AtTheEnd'
  BY DEF AtTheEnd, KeepsFollowing, Follower, ScrollValues, ScrollTypes
<1> QED
  BY <1>1, <1>2, <1>3, <1>4, <1>5, <1>6

\* The observer makes a follower of who has come to the bottom.
LEMMA OnIntersectionKeeps == ScrollInd /\ OnIntersection => ScrollInd'
<1> SUFFICES ASSUME ScrollInd, OnIntersection PROVE ScrollInd'
  OBVIOUS
<1> USE DEF ScrollInd, OnIntersection, Calm, geometry, refs, marks, effects, frameEvents, memory
<1>1. ScrollValues'
  <2>1. ScrollTypes'
    <3>1. height' \in 0 .. MaxHeight /\ scrollTop' \in 0 .. height'
      BY ScrollAssumption DEF ScrollValues, ScrollTypes
    <3>2. autoFollow' \in BOOLEAN /\ isAtBottom' \in BOOLEAN /\ programmatic' \in BOOLEAN
      BY DEF ScrollValues, ScrollTypes
    <3>3. until' \in 0 .. Duration + 2 /\ timers' \subseteq 1 .. Duration + 2 /\ aligning' \subseteq 1 .. 2
      BY ScrollAssumption DEF ScrollValues, ScrollTypes
    <3> QED
      BY <3>1, <3>2, <3>3 DEF ScrollTypes
  <2>2. streaming' \in BOOLEAN /\ contentEffect' \in BOOLEAN /\ streamingEnded' \in BOOLEAN /\ resized' \in BOOLEAN
    BY DEF ScrollValues, ScrollTypes
  <2>3. scrolled' \in BOOLEAN /\ unmark' \in BOOLEAN /\ wants' \in BOOLEAN /\ mixed' \in BOOLEAN
    BY DEF ScrollValues, ScrollTypes
  <2>4. reading' \in 0 .. Nowhere
    BY ScrollAssumption DEF ScrollValues, ScrollTypes, Nowhere
  <2>5. /\ smooth' \in Seq(Animations) /\ OldestFirst(smooth')
        /\ frame' \in {"idle", "scroll", "animation", "resize", "intersection"} /\ (frame' = "animation" => ~scrolled')
    BY DEF ScrollValues
  <2> QED
    BY <2>1, <2>2, <2>3, <2>4, <2>5 DEF ScrollValues, OldestFirst
<1>2. ToldLast' /\ ReaderRests'
  BY DEF ToldLast, ReaderRests, ScrollValues, ScrollTypes, Nowhere
<1>3. KeepsFollowing'
  BY DEF KeepsFollowing, Follower, EventIsMarked, ScrollValues, ScrollTypes
<1>4. EventIsMarked'
  BY DEF EventIsMarked, KeepsFollowing, Follower, OneAnimation, ScrollValues, ScrollTypes
<1>5. OneAnimation'
  BY DEF OneAnimation, KeepsFollowing, Follower, ScrollValues, ScrollTypes
<1>6. AtTheEnd'
  BY DEF AtTheEnd, KeepsFollowing, Follower, ScrollValues, ScrollTypes
<1> QED
  BY <1>1, <1>2, <1>3, <1>4, <1>5, <1>6

\* smoothScrollTop: an animation with all its frames comes last, unless the page is there.
LEMMA AnimateIs ==
    ASSUME ScrollValues, NEW target \in 0 .. MaxHeight, Animate(target)
    PROVE  /\ smooth' \in Seq(Animations) /\ OldestFirst(smooth')
           /\ smooth' = <<>> => target = scrollTop
           /\ smooth = <<>> /\ smooth' # <<>> =>
                Len(smooth') = 1 /\ smooth'[1].target = target /\ smooth'[1].left = Duration
<1>1. CASE target = scrollTop
  BY <1>1 DEF Animate, ScrollValues
<1>2. CASE target # scrollTop
  <2> DEFINE a == [from |-> scrollTop, target |-> target, left |-> Duration]
  <2>1. scrollTop \in 0 .. MaxHeight /\ Duration \in 1 .. Duration
    BY ScrollAssumption DEF ScrollValues, ScrollTypes
  <2>2. a \in Animations /\ a.target = target /\ a.left = Duration
    BY <2>1 DEF Animations
  <2>3. smooth' = Append(smooth, a)
    BY <1>2 DEF Animate
  <2> HIDE DEF a
  <2>4. smooth \in Seq(Animations) /\ OldestFirst(smooth) /\ Len(smooth) \in Nat
    BY DEF ScrollValues
  <2>5. /\ smooth' \in Seq(Animations) /\ Len(smooth') = Len(smooth) + 1 /\ DOMAIN smooth' = 1 .. Len(smooth) + 1
        /\ smooth'[Len(smooth) + 1] = a
        /\ \A i \in 1 .. Len(smooth) : smooth'[i] = smooth[i] /\ smooth[i] \in Animations
    BY <2>2, <2>3, <2>4
  <2>6. OldestFirst(smooth')
    <3> SUFFICES ASSUME NEW i \in 1 .. Len(smooth) + 1, NEW j \in 1 .. Len(smooth) + 1, i <= j
                 PROVE  smooth'[i].left <= smooth'[j].left
      BY <2>5 DEF OldestFirst
    <3>1. CASE j = Len(smooth) + 1
      <4>1. smooth'[i] \in Animations /\ smooth'[j].left = Duration
        BY <2>2, <2>5, <3>1
      <4> QED
        BY <4>1, ScrollAssumption DEF Animations
    <3>2. CASE j # Len(smooth) + 1
      <4>1. i \in DOMAIN smooth /\ j \in DOMAIN smooth /\ smooth'[i] = smooth[i] /\ smooth'[j] = smooth[j]
        BY <3>2, <2>4, <2>5
      <4> QED
        BY <4>1, <2>4 DEF OldestFirst
    <3> QED
      BY <3>1, <3>2
  <2>7. smooth = <<>> => Len(smooth') = 1 /\ smooth'[1] = a
    BY <2>5
  <2>8. smooth' # <<>>
    BY <2>5, <2>4
  <2> QED
    BY <2>2, <2>5, <2>6, <2>7, <2>8
<1> QED
  BY <1>1, <1>2

\* A smooth scroll lasts less long than its mark.
LEMMA SmoothKeeps == ScrollInd /\ (scrollToBottomSmooth \/ Jump) => ScrollInd'
<1> SUFFICES ASSUME ScrollInd, scrollToBottomSmooth \/ Jump PROVE ScrollInd'
  OBVIOUS
<1> USE DEF ScrollInd
<1>1. PICK target \in 0 .. MaxHeight : Animate(target) /\ (scrollToBottomSmooth => target = height)
  <2>1. CASE scrollToBottomSmooth
    BY <2>1 DEF scrollToBottomSmooth, ScrollValues, ScrollTypes
  <2>2. CASE Jump /\ ~scrollToBottomSmooth
    <3>1. PICK t \in 0 .. height : Animate(t)
      BY <2>2 DEF Jump
    <3>2. t \in 0 .. MaxHeight
      BY ScrollAssumption DEF ScrollValues, ScrollTypes
    <3> QED
      BY <2>2, <3>1, <3>2
  <2> QED
    BY <2>1, <2>2
<1>2. /\ smooth' \in Seq(Animations) /\ OldestFirst(smooth')
      /\ smooth' = <<>> => target = scrollTop
      /\ smooth = <<>> /\ smooth' # <<>> =>
           Len(smooth') = 1 /\ smooth'[1].target = target /\ smooth'[1].left = Duration
  BY <1>1, AnimateIs
<1>3. /\ frame = "idle" /\ programmatic' = TRUE /\ until' = Duration + 2 /\ timers' = timers \cup {Duration + 2}
      /\ reading' = Nowhere /\ autoFollow' \in BOOLEAN /\ wants' \in BOOLEAN
      /\ mixed' = mixed \/ mixed' = SmoothMarked
      /\ UNCHANGED <<unmark, geometry, isAtBottom, streaming, aligning, effects, frameEvents, frame>>
  BY DEF scrollToBottomSmooth, Jump, Act, BetweenFrames, Leave, MarkSmooth
<1>4. Follower' => scrollToBottomSmooth /\ ~SmoothMarked /\ autoFollow'
  BY DEF Follower, scrollToBottomSmooth, Jump, Leave
<1>5. ScrollValues'
  <2>1. height' = height /\ scrollTop' = scrollTop /\ isAtBottom' = isAtBottom /\ aligning' = aligning
    BY <1>3 DEF geometry
  <2>2. until' \in 0 .. Duration + 2 /\ timers' \subseteq 1 .. Duration + 2
    BY <1>3, ScrollAssumption DEF ScrollValues, ScrollTypes
  <2>3. ScrollTypes'
    BY <1>3, <2>1, <2>2 DEF ScrollValues, ScrollTypes
  <2>4. reading' \in 0 .. Nowhere
    BY <1>3, ScrollAssumption DEF Nowhere
  <2>5. mixed' \in BOOLEAN
    BY <1>3 DEF SmoothMarked, ScrollValues
  <2> QED
    BY <1>2, <1>3, <2>3, <2>4, <2>5 DEF ScrollValues, effects, frameEvents, OldestFirst
<1>6. ToldLast' /\ ReaderRests' /\ KeepsFollowing'
  BY <1>3, <1>4 DEF ToldLast, ReaderRests, KeepsFollowing, frameEvents
<1>7. ASSUME Follower'
      PROVE  /\ timers' = {until'} /\ until' = Duration + 2 /\ frame' = "idle" /\ smooth = <<>>
             /\ target = height /\ height' = height /\ scrollTop' = scrollTop
  BY <1>1, <1>3, <1>4, <1>7 DEF SmoothMarked, geometry
<1>8. EventIsMarked'
  <2>1. Duration + 2 >= 2
    BY ScrollAssumption
  <2> QED
    BY <1>7, <2>1 DEF EventIsMarked
<1>9. OneAnimation'
  <2>1. height >= height
    BY ScrollAssumption DEF ScrollValues, ScrollTypes
  <2> QED
    BY <1>2, <1>7, <2>1 DEF OneAnimation
<1>10. AtTheEnd'
  BY <1>2, <1>7 DEF AtTheEnd
<1> QED
  BY <1>5, <1>6, <1>8, <1>9, <1>10

\* A timer that ends takes the mark away only when the scroll is over.
LEMMA StartFrameKeeps == ScrollInd /\ StartFrame => ScrollInd'
<1> SUFFICES ASSUME ScrollInd, StartFrame PROVE ScrollInd'
  OBVIOUS
<1> USE DEF ScrollInd
<1>1. /\ frame = "idle" /\ frame' = "scroll"
      /\ until' = IF until = 0 THEN 0 ELSE until - 1
      /\ timers' = {n - 1 : n \in timers \ {1}}
      /\ programmatic' = (programmatic /\ ~(1 \in timers /\ until' = 0))
      /\ UNCHANGED <<geometry, refs, unmark, smooth, aligning, effects, frameEvents, acts, memory>>
  BY DEF StartFrame, BetweenFrames
<1>2. /\ UNCHANGED <<height, scrollTop, autoFollow, isAtBottom, streaming, unmark, smooth, aligning>>
      /\ UNCHANGED <<contentEffect, streamingEnded, scrolled, resized, observed, reading, wants, mixed>>
  BY <1>1 DEF geometry, refs, effects, frameEvents, memory
<1>3. until \in 0 .. Duration + 2 /\ timers \subseteq 1 .. Duration + 2 /\ Duration \in Nat
  BY ScrollAssumption DEF ScrollValues, ScrollTypes
<1>4. ScrollValues'
  <2>1. until' \in 0 .. Duration + 2
    BY <1>1, <1>3
  <2>2. timers' \subseteq 1 .. Duration + 2
    <3> SUFFICES ASSUME NEW n \in timers \ {1} PROVE n - 1 \in 1 .. Duration + 2
      BY <1>1
    <3> QED
      BY <1>3
  <2>3. programmatic' \in BOOLEAN
    BY <1>1 DEF ScrollValues, ScrollTypes
  <2>4. ScrollTypes'
    BY <1>2, <2>1, <2>2, <2>3 DEF ScrollValues, ScrollTypes
  <2> QED
    BY <1>1, <1>2, <2>4 DEF ScrollValues, OldestFirst
<1>5. ToldLast' /\ ReaderRests' /\ KeepsFollowing' /\ AtTheEnd'
  BY <1>2 DEF ToldLast, ReaderRests, KeepsFollowing, AtTheEnd, Follower
\* A smooth scroll: its timer and its mark count together.
<1>6. ASSUME timers = {until}, until >= 2 PROVE until' = until - 1 /\ until' >= 1 /\ timers' = {until'}
  <2>1. until' = until - 1 /\ until - 1 >= 1 /\ until # 1
    BY <1>1, <1>3, <1>6
  <2>2. timers \ {1} = {until}
    BY <1>6, <2>1
  <2> QED
    BY <1>1, <2>1, <2>2
<1>7. EventIsMarked'
  <2> SUFFICES ASSUME Follower, scrolled
               PROVE  (programmatic' /\ timers' = {}) \/ (timers' = {until'} /\ until' >= 1)
    BY <1>1, <1>2 DEF EventIsMarked, Follower
  <2>1. CASE programmatic /\ timers = {}
    BY <1>1, <2>1
  <2>2. CASE timers = {until} /\ until >= 2
    BY <1>6, <2>2
  <2> QED
    BY <1>1, <2>1, <2>2 DEF EventIsMarked
<1>8. OneAnimation'
  <2> SUFFICES ASSUME Follower, smooth # <<>>
               PROVE  /\ Len(smooth) = 1 /\ timers' = {until'} /\ until' = smooth[1].left + 1
                      /\ smooth[1].target >= height \/ contentEffect
    BY <1>1, <1>2 DEF OneAnimation, Follower
  <2>1. /\ Len(smooth) = 1 /\ timers = {until} /\ until = smooth[1].left + 2
        /\ smooth[1].target >= height \/ contentEffect
    BY <1>1 DEF OneAnimation
  <2>2. smooth[1].left \in 1 .. Duration
    <3>1. smooth[1] \in Animations
      BY <2>1 DEF ScrollValues
    <3> QED
      BY <3>1 DEF Animations
  <2>3. until >= 2 /\ until - 1 = smooth[1].left + 1
    BY <2>1, <2>2, <1>3
  <2> QED
    BY <1>6, <2>1, <2>3
<1> QED
  BY <1>4, <1>5, <1>7, <1>8

\* Where the page may be after a step of the animations
LEMMA AnimationIs ==
    ASSUME ScrollValues, AnimationFrame
    PROVE  /\ smooth' \in Seq(Animations) /\ OldestFirst(smooth')
           /\ smooth = <<>> => smooth' = <<>>
           /\ Len(smooth) = 1 /\ smooth' # <<>> =>
                Len(smooth') = 1 /\ smooth'[1].target = smooth[1].target /\ smooth'[1].left = smooth[1].left - 1
           /\ frame = "animation" /\ frame' = "resize"
           /\ \/ /\ 1 \in aligning /\ MoveTo(height) /\ programmatic' = TRUE /\ until' = 0 /\ unmark' = TRUE
                 /\ mixed' = (mixed \/ SmoothMarked)
              \/ /\ scrollTop' \in 0 .. height /\ scrolled' = (scrolled \/ scrollTop' # scrollTop)
                 /\ programmatic' = (programmatic /\ ~(unmark /\ until = 0)) /\ unmark' = FALSE
                 /\ UNCHANGED <<until, mixed>>
                 /\ smooth = <<>> => scrollTop' = scrollTop
                 /\ Len(smooth) = 1 /\ smooth' = <<>> /\ smooth[1].target >= height => scrollTop' = height
<1> DEFINE last == Stepped[Len(smooth)]
           moved == IF smooth = <<>> THEN {scrollTop}
                    ELSE {IF t > height THEN height ELSE t : t \in IF last.left = 0 THEN {last.target} ELSE Between(last)}
<1>1. smooth \in Seq(Animations) /\ OldestFirst(smooth) /\ Len(smooth) \in Nat /\ DOMAIN smooth = 1 .. Len(smooth)
  BY DEF ScrollValues
<1>2. /\ Stepped \in Seq(SteppedOnes) /\ OldestFirst(Stepped) /\ Len(Stepped) = Len(smooth)
      /\ smooth = <<>> => Stepped = <<>>
      /\ \A i \in 1 .. Len(smooth) : /\ Stepped[i].from = smooth[i].from /\ Stepped[i].target = smooth[i].target
                                     /\ Stepped[i].left = smooth[i].left - 1
  BY <1>1, SteppedIs
<1>3. smooth' = Running(Stepped)
  BY DEF AnimationFrame
<1>4. /\ smooth' \in Seq(Animations) /\ OldestFirst(smooth')
      /\ Stepped = <<>> => smooth' = <<>>
      /\ Len(Stepped) = 1 => smooth' = IF Stepped[1].left > 0 THEN Stepped ELSE <<>>
  BY <1>2, <1>3, RunningIs
<1>5. height \in Nat /\ height <= MaxHeight /\ scrollTop \in 0 .. height /\ MaxHeight \in Nat
  BY ScrollAssumption DEF ScrollValues, ScrollTypes
<1>6. smooth # <<>> => Len(smooth) \in 1 .. Len(smooth) /\ last \in SteppedOnes
  BY <1>1, <1>2
<1>7. moved \subseteq 0 .. height
  <2>1. CASE smooth = <<>>
    BY <2>1, <1>5
  <2>2. CASE smooth # <<>>
    <3>1. last.target \in 0 .. MaxHeight /\ Between(last) \subseteq 0 .. MaxHeight
      BY <1>6, <2>2 DEF SteppedOnes, Between
    <3>2. ASSUME NEW t \in 0 .. MaxHeight PROVE (IF t > height THEN height ELSE t) \in 0 .. height
      BY <1>5
    <3> QED
      BY <2>2, <3>1, <3>2
  <2> QED
    BY <2>1, <2>2
<1>8. ASSUME Len(smooth) = 1, smooth' = <<>>, smooth[1].target >= height PROVE moved = {height}
  <2>1. smooth # <<>> /\ last = Stepped[1] /\ Stepped[1].target = smooth[1].target /\ Stepped[1] \in SteppedOnes
    <3>1. smooth # <<>> /\ last = Stepped[1] /\ Stepped[1].target = smooth[1].target
      <4>1. last = Stepped[1]
        BY <1>8
      <4> HIDE DEF last, moved
      <4>2. 1 \in 1 .. Len(smooth) /\ smooth # <<>>
        <5>1. smooth \in Seq(Animations) /\ Len(smooth) = 1
          BY <1>1, <1>8
        <5> QED
          BY <5>1, FirstIsMember
      <4> QED
        BY <1>2, <4>1, <4>2
    <3> HIDE DEF last, moved
    <3>2. Stepped[1] \in SteppedOnes
      BY <1>2, <1>8, FirstIsMember
    <3> QED
      BY <3>1, <3>2
  <2>2. Stepped # <<>> /\ ~(Stepped[1].left > 0)
    <3>1. Stepped \in Seq(SteppedOnes) /\ Len(Stepped) = 1
      BY <1>2, <1>8
    <3>2. Stepped # <<>>
      BY <3>1, FirstIsMember
    <3>3. <<>> = IF Stepped[1].left > 0 THEN Stepped ELSE <<>>
      BY <1>4, <1>8, <3>1
    <3> QED
      BY <3>2, <3>3
  <2>3. Stepped[1].left \in Nat /\ Stepped[1].target \in Nat
    BY <2>1, ScrollAssumption DEF SteppedOnes
  <2>4. last.left = 0
    BY <2>1, <2>2, <2>3
  <2>5. moved = {IF last.target > height THEN height ELSE last.target}
    BY <2>1, <2>4
  <2> HIDE DEF moved, last
  <2>6. last.target \in Nat /\ last.target >= height
    BY <2>1, <2>3, <1>8
  <2> QED
    BY <2>5, <2>6, <1>5
<1>9. ASSUME Len(smooth) = 1, smooth' # <<>>
      PROVE  Len(smooth') = 1 /\ smooth'[1].target = smooth[1].target /\ smooth'[1].left = smooth[1].left - 1
  BY <1>2, <1>4, <1>9
<1>10. \/ /\ 1 \in aligning /\ MoveTo(height) /\ programmatic' = TRUE /\ until' = 0 /\ unmark' = TRUE
          /\ mixed' = (mixed \/ SmoothMarked)
       \/ /\ \E top \in moved : MoveTo(top)
          /\ programmatic' = (programmatic /\ ~(unmark /\ until = 0)) /\ unmark' = FALSE
          /\ UNCHANGED <<until, mixed>>
  BY DEF AnimationFrame
<1>11. ASSUME \E top \in moved : MoveTo(top)
       PROVE  /\ scrollTop' \in moved /\ scrolled' = (scrolled \/ scrollTop' # scrollTop)
  BY <1>11 DEF MoveTo
<1>12. frame = "animation" /\ frame' = "resize"
  BY DEF AnimationFrame
<1>13. smooth = <<>> => moved = {scrollTop} /\ smooth' = <<>>
  BY <1>2, <1>4
<1> HIDE DEF moved
<1> QED
  BY <1>4, <1>7, <1>8, <1>9, <1>10, <1>11, <1>12, <1>13

\* The animation callbacks move the page of nobody who reads.
LEMMA AnimationFrameKeeps == ScrollInd /\ AnimationFrame => ScrollInd'
<1> SUFFICES ASSUME ScrollInd, AnimationFrame PROVE ScrollInd'
  OBVIOUS
<1> USE DEF ScrollInd
<1> DEFINE Aligned == /\ 1 \in aligning /\ MoveTo(height) /\ programmatic' = TRUE /\ until' = 0 /\ unmark' = TRUE
                      /\ mixed' = (mixed \/ SmoothMarked)
           Moved == /\ scrollTop' \in 0 .. height /\ scrolled' = (scrolled \/ scrollTop' # scrollTop)
                    /\ programmatic' = (programmatic /\ ~(unmark /\ until = 0)) /\ unmark' = FALSE
                    /\ UNCHANGED <<until, mixed>>
                    /\ smooth = <<>> => scrollTop' = scrollTop
                    /\ Len(smooth) = 1 /\ smooth' = <<>> /\ smooth[1].target >= height => scrollTop' = height
<1>1. /\ smooth' \in Seq(Animations) /\ OldestFirst(smooth')
      /\ smooth = <<>> => smooth' = <<>>
      /\ Len(smooth) = 1 /\ smooth' # <<>> =>
           Len(smooth') = 1 /\ smooth'[1].target = smooth[1].target /\ smooth'[1].left = smooth[1].left - 1
      /\ frame = "animation" /\ frame' = "resize"
  BY AnimationIs
<1>2. Aligned \/ Moved
  BY AnimationIs
<1>3. /\ aligning' = {n - 1 : n \in aligning \ {1}}
      /\ UNCHANGED <<height, autoFollow, isAtBottom, streaming, timers, contentEffect, streamingEnded>>
      /\ UNCHANGED <<resized, observed, acts, reading, wants>>
  BY DEF AnimationFrame, refs, effects
<1>4. /\ height \in Nat /\ height <= MaxHeight /\ ~scrolled /\ scrollTop \in 0 .. height
      /\ until \in 0 .. Duration + 2 /\ Duration \in Nat /\ aligning \subseteq 1 .. 2
  BY <1>1, ScrollAssumption DEF ScrollValues, ScrollTypes
<1> HIDE DEF Aligned, Moved
<1>5. scrollTop' \in 0 .. height /\ until' \in {0, until} /\ scrolled' \in BOOLEAN /\ unmark' \in BOOLEAN
  <2>1. CASE Aligned
    <3>1. scrollTop' = height /\ until' = 0 /\ unmark' = TRUE /\ scrolled' = (scrolled \/ height # scrollTop)
      BY <2>1 DEF Aligned, MoveTo
    <3> QED
      BY <3>1, <1>4
  <2>2. CASE Moved
    <3>1. /\ scrollTop' \in 0 .. height /\ until' = until /\ unmark' = FALSE
          /\ scrolled' = (scrolled \/ scrollTop' # scrollTop)
      BY <2>2 DEF Moved
    <3> QED
      BY <3>1, <1>4
  <2> QED
    BY <1>2, <2>1, <2>2
<1>6. programmatic' \in BOOLEAN /\ mixed' \in BOOLEAN
  BY <1>2 DEF Aligned, Moved, SmoothMarked, ScrollValues, ScrollTypes
<1>7. ScrollValues'
  <2>1. until' \in 0 .. Duration + 2
    BY <1>4, <1>5
  <2>2. aligning' \subseteq 1 .. 2
    <3> SUFFICES ASSUME NEW n \in aligning \ {1} PROVE n - 1 \in 1 .. 2
      BY <1>3
    <3> QED
      BY <1>4
  <2>3. ScrollTypes'
    BY <1>3, <1>5, <1>6, <2>1, <2>2 DEF ScrollValues, ScrollTypes
  <2> QED
    BY <1>1, <1>3, <1>5, <1>6, <2>3 DEF ScrollValues, OldestFirst
<1>8. ToldLast' /\ ReaderRests'
  <2>1. ToldLast'
    BY <1>3 DEF ToldLast
  <2>2. ASSUME reading # Nowhere
        PROVE  scrollTop' = reading /\ ~autoFollow /\ ~isAtBottom /\ smooth' = <<>> /\ aligning' = {}
    <3>1. scrollTop = reading /\ ~autoFollow /\ ~isAtBottom /\ smooth = <<>> /\ aligning = {}
      BY <2>2 DEF ReaderRests
    <3>2. Moved
      BY <1>2, <3>1 DEF Aligned
    <3> QED
      BY <1>1, <1>3, <3>1, <3>2 DEF Moved
  <2> QED
    BY <1>3, <2>1, <2>2 DEF ReaderRests
<1>9. Follower' => Follower
  BY <1>2, <1>3 DEF Follower, Aligned, Moved, ScrollValues
<1>10. KeepsFollowing'
  BY <1>3, <1>9 DEF KeepsFollowing
<1>11. CASE Aligned
  <2>1. Follower' => smooth = <<>> /\ timers = {}
    BY <1>11 DEF Follower, Aligned, SmoothMarked
  <2>2. scrollTop' = height /\ programmatic'
    BY <1>11 DEF Aligned, MoveTo
  <2> QED
    BY <1>1, <1>3, <1>7, <1>8, <1>10, <2>1, <2>2 DEF EventIsMarked, OneAnimation, AtTheEnd
<1>12. CASE Moved
  <2>1. ASSUME Follower, smooth # <<>>
        PROVE  /\ Len(smooth) = 1 /\ timers = {until} /\ until = smooth[1].left + 1 /\ smooth[1].left \in 1 .. Duration
               /\ smooth[1].target >= height \/ contentEffect
    <3>1. /\ Len(smooth) = 1 /\ timers = {until} /\ until = smooth[1].left + 1
          /\ smooth[1].target >= height \/ contentEffect
      BY <1>1, <2>1 DEF OneAnimation
    <3>2. smooth[1] \in Animations
      <4>1. smooth \in Seq(Animations)
        BY DEF ScrollValues
      <4> QED
        BY <3>1, <4>1, FirstIsMember
    <3> QED
      BY <3>1, <3>2 DEF Animations
  <2>2. until' = until /\ timers' = timers
    BY <1>3, <1>12 DEF Moved
  <2>3. EventIsMarked'
    <3> SUFFICES ASSUME Follower, scrolled' PROVE timers = {until} /\ until >= 2
      BY <1>1, <1>9, <2>2 DEF EventIsMarked
    <3>1. smooth # <<>>
      BY <1>4, <1>12 DEF Moved
    <3> QED
      BY <2>1, <3>1, <1>4
  <2>4. OneAnimation'
    <3> SUFFICES ASSUME Follower, smooth' # <<>>
                 PROVE  /\ Len(smooth') = 1 /\ timers = {until} /\ until = smooth'[1].left + 2
                        /\ smooth'[1].target >= height \/ contentEffect
      BY <1>1, <1>3, <1>9, <2>2 DEF OneAnimation
    <3>1. smooth # <<>>
      BY <1>1
    <3>2. Len(smooth') = 1 /\ smooth'[1].target = smooth[1].target /\ smooth'[1].left = smooth[1].left - 1
      BY <1>1, <2>1, <3>1
    <3> QED
      BY <2>1, <3>1, <3>2, <1>4
  <2>5. AtTheEnd'
    <3> SUFFICES ASSUME Follower, smooth' = <<>> PROVE scrollTop' = height \/ contentEffect
      BY <1>3, <1>9 DEF AtTheEnd
    <3>1. CASE smooth = <<>>
      BY <1>12, <3>1 DEF AtTheEnd, Moved
    <3>2. CASE smooth # <<>>
      BY <1>12, <2>1, <3>2 DEF Moved
    <3> QED
      BY <3>1, <3>2
  <2> QED
    BY <1>7, <1>8, <1>10, <2>3, <2>4, <2>5
<1> QED
  BY <1>2, <1>11, <1>12

\* The invariant holds as the page is shown.
LEMMA ScrollStart == ScrollInit => ScrollInd
<1> SUFFICES ASSUME ScrollInit PROVE ScrollInd
  OBVIOUS
<1> USE DEF ScrollInit
<1>1. MaxHeight \in Nat \ {0} /\ Duration \in Nat \ {0}
  BY ScrollAssumption
<1>2. height \in 0 .. MaxHeight /\ scrollTop \in 0 .. height /\ until \in 0 .. Duration + 2
  BY <1>1
<1>3. ScrollTypes
  BY <1>2 DEF ScrollTypes
<1>4. smooth \in Seq(Animations) /\ OldestFirst(smooth)
  BY DEF OldestFirst
<1>5. reading \in 0 .. Nowhere
  BY <1>1 DEF Nowhere
<1>6. ScrollValues
  BY <1>3, <1>4, <1>5 DEF ScrollValues
<1> QED
  BY <1>6 DEF ScrollInd, ToldLast, ReaderRests, KeepsFollowing, EventIsMarked,
        OneAnimation, AtTheEnd, Follower

\* Every step keeps the invariant.
LEMMA ScrollStep == ScrollInd /\ [ScrollNext]_scrollVars => ScrollInd'
<1> SUFFICES ASSUME ScrollInd, [ScrollNext]_scrollVars PROVE ScrollInd'
  OBVIOUS
<1>1. CASE UNCHANGED scrollVars
  BY <1>1 DEF scrollVars, geometry, refs, marks, effects, frameEvents, memory, ScrollInd,
        ScrollValues, ScrollTypes,
       OldestFirst, ToldLast, ReaderRests, KeepsFollowing, EventIsMarked, OneAnimation, AtTheEnd, Follower
<1>2. CASE Content \/ StreamingEnds \/ Shrink \/ ContentEffect \/ Resize
  BY <1>2, ContentKeeps, StreamingEndsKeeps, ShrinkKeeps, ContentEffectKeeps, ResizeKeeps
<1>3. CASE ReaderActs
  BY <1>3, SwitchSessionKeeps, ScrollUpKeeps, DragKeeps, resumeFollowingKeeps,
        SmoothKeeps DEF ReaderActs
<1>4. CASE Frame
  BY <1>4, StartFrameKeeps, OnScrollKeeps, AnimationFrameKeeps, OnResizeKeeps,
        OnIntersectionKeeps DEF Frame
<1> QED
  BY <1>1, <1>2, <1>3, <1>4 DEF ScrollNext

\* The invariant says more than the property.
LEMMA ScrollEnd == ScrollInd => ScrollInv
BY DEF ScrollInd, ScrollInv, ScrollValues, ReaderRests, ReaderStays, KeepsFollowing,
      AtTheEnd, Follower,
       FollowerFollows, Calm

\* The chat leaves its reader alone and keeps up with its follower, for any height of the content,
\* any duration of a smooth scroll and any number of acts of the user.
THEOREM ScrollIsJust == ScrollSpec => []ScrollInv
BY ScrollStart, ScrollStep, ScrollEnd, PTL DEF ScrollSpec

-----------------------------------------------------------------------------
(* The providers page                                                      *)

\* The handlers of the page and the form of a custom provider
Tasks == [handler : {"none", "save", "clear", "saveCustom", "deleteCustom"}, id : P!Providers \cup {NoId},
          request : {"none", "key", "advanced", "unkey", "custom", "remove", "fetch"},
          stage : {"sent", "half", "answer", "done"}, content : P!Advanced,
          rows : [P!Providers -> P!Row \cup {NoRow}], keys : SUBSET P!Providers]
Forms == [id : P!Providers \cup {NoId}, content : Values, apiKey : BOOLEAN]

\* Every value is of its type, and the ids of the forms are those of providers.
ProvidersTypes ==
  /\ rows \in [P!Providers -> P!Row \cup {NoRow}] /\ keys \subseteq P!Providers
  /\ config \in [rows : [P!Providers -> P!Row \cup {NoRow}], keys : SUBSET P!Providers]
  /\ apiKeyDrafts \in [Builtins -> BOOLEAN] /\ advancedDrafts \in [Builtins -> P!Advanced]
  /\ expandedProviderId \in Builtins \cup {NoId} /\ expandedCustomId \in Customs \cup {NoId, NewId}
  /\ customForm \in Forms /\ (customForm.apiKey => customForm.id \in P!Providers)
  /\ tasks \in Seq(Tasks)
  /\ fresh \subseteq Builtins
  /\ shown \in 0..Len(tasks) + 1 /\ fetched \in Nat /\ missed \in Nat

\* What the handlers request: those of a built-in provider do not touch a custom one.
HandlersOK ==
  \A i \in P!Running :
    /\ tasks[i].id \in P!Providers
    /\ tasks[i].request # "none"
    /\ tasks[i].id \in Customs => tasks[i].request \in {"custom", "remove", "fetch"}
    /\ tasks[i].stage = "half" => tasks[i].request \in {"custom", "remove", "fetch"}
    /\ shown # i + 1

\* The handlers that have yet to send their fetch
Changing == {i \in P!Running : tasks[i].request # "fetch"}

\* Unless a handler is still changing something or one has failed since, the fetch that was sent
\* last reads what the server has.
LastFetchIsFresh ==
  missed < fetched /\ Changing = {} =>
    /\ shown = fetched => config = [rows |-> rows, keys |-> keys]
    /\ \A i \in P!Running : fetched = i + 1 =>
         /\ tasks[i].stage \in {"half", "answer"} => tasks[i].rows = rows
         /\ tasks[i].stage = "answer" => tasks[i].keys = keys

\* A custom provider whose handlers have neither failed nor overlapped has one handler at most, and a
\* row and a key, or neither, except while that is half served.
HandledAlone ==
  \A c \in Customs \ troubled :
    \/ /\ \A i \in P!Running : tasks[i].id # c
       /\ rows[c] # NoRow <=> c \in keys
    \/ \E i \in P!Running :
         /\ tasks[i].id = c
         /\ \A j \in P!Running : tasks[j].id = c => j = i
         /\ IF tasks[i].stage = "half" /\ tasks[i].request # "fetch"
            THEN rows[c] # NoRow <=> tasks[i].request = "custom"
            ELSE rows[c] # NoRow <=> c \in keys

\* The inductive invariant of the providers page
ProvidersInd == ProvidersTypes /\ HandlersOK /\ LastFetchIsFresh /\ P!OnlyEditsAreSaved /\ HandledAlone

\* One handler goes on to t.
LEMMA HandlerChanged ==
    ASSUME tasks \in Seq(Tasks), NEW i \in DOMAIN tasks, NEW t \in Tasks, tasks' = [tasks EXCEPT ![i] = t]
    PROVE  /\ tasks' \in Seq(Tasks) /\ Len(tasks') = Len(tasks) /\ DOMAIN tasks' = DOMAIN tasks
           /\ tasks'[i] = t /\ \A j \in DOMAIN tasks : j # i => tasks'[j] = tasks[j]
           /\ t.stage = "done" => P!Running' = P!Running \ {i}
           /\ t.stage # "done" => P!Running' = P!Running \cup {i}
<1>1. /\ tasks' \in Seq(Tasks) /\ Len(tasks') = Len(tasks) /\ DOMAIN tasks' = DOMAIN tasks
      /\ tasks'[i] = t /\ \A j \in DOMAIN tasks : j # i => tasks'[j] = tasks[j]
  OBVIOUS
<1> QED
  BY <1>1 DEF P!Running

\* A page that is up to date shows what the server has.
LEMMA UpToDateIsSettled == ProvidersTypes /\ LastFetchIsFresh => P!SettledPage
BY DEF ProvidersTypes, LastFetchIsFresh, P!SettledPage, P!UpToDate, Changing

-----------------------------------------------------------------------------
(* The user                                                                *)

\* What the user does to the forms does not concern the handlers.
LEMMA FormsAreApart ==
    ASSUME ProvidersInd, UNCHANGED <<P!server, config, tasks, troubled, shown, fetched, missed>>,
           ProvidersTypes', P!OnlyEditsAreSaved'
    PROVE  ProvidersInd'
<1>1. HandlersOK' /\ LastFetchIsFresh' /\ HandledAlone'
  BY DEF ProvidersInd, HandlersOK, LastFetchIsFresh, HandledAlone, Changing, P!Running,
        P!server
<1> QED
  BY <1>1 DEF ProvidersInd

\* A form that is opened is filled from what the page shows.
LEMMA ToggleKeeps ==
    ASSUME P!ProvidersAssumption, ProvidersInd, NEW p \in Builtins, P!toggleProvider(p)
    PROVE  ProvidersInd'
<1>1. ProvidersTypes /\ P!OnlyEditsAreSaved /\ P!SettledPage
  BY UpToDateIsSettled DEF ProvidersInd
<1>2. P!AdvancedOf(config.rows[p]) \in P!Advanced
  BY <1>1 DEF ProvidersTypes, P!AdvancedOf, P!emptyProviderAdvanced, P!Advanced, P!Row,
        P!Providers, P!ProvidersAssumption
<1>3. ProvidersTypes'
  <2>1. expandedProviderId' \in Builtins \cup {NoId} /\ advancedDrafts' \in [Builtins -> P!Advanced] /\ fresh' \subseteq Builtins
    BY <1>1, <1>2 DEF P!toggleProvider, ProvidersTypes
  <2> QED
    BY <1>1, <2>1 DEF P!toggleProvider, ProvidersTypes, P!server
<1>4. P!OnlyEditsAreSaved'
  <2> SUFFICES ASSUME NEW q \in fresh'
               PROVE  /\ advancedDrafts'[q].extraModels = P!AdvancedOf(rows[q]).extraModels
                      /\ q \in edited' \/ advancedDrafts'[q].baseUrl = P!AdvancedOf(rows[q]).baseUrl
    BY DEF P!OnlyEditsAreSaved, P!toggleProvider, P!server, P!AdvancedOf
  <2>1. CASE expandedProviderId = p \/ q # p
    BY <1>1, <2>1 DEF P!toggleProvider, P!OnlyEditsAreSaved, ProvidersTypes
  <2>2. CASE expandedProviderId # p /\ q = p
    <3>1. P!UpToDate \/ p \notin fresh'
      BY <2>2 DEF P!toggleProvider
    <3>2. config.rows = rows
      BY <1>1, <2>2, <3>1 DEF P!SettledPage
    <3> QED
      BY <1>1, <2>2, <3>2 DEF P!toggleProvider, ProvidersTypes
  <2> QED
    BY <2>1, <2>2
<1> QED
  BY <1>3, <1>4, FormsAreApart DEF P!toggleProvider

\* An edit changes one field of the form that is open.
LEMMA EditKeeps ==
    ASSUME P!ProvidersAssumption, ProvidersInd, NEW p \in Builtins, P!EditAdvanced(p)
    PROVE  ProvidersInd'
<1>1. ProvidersTypes /\ P!OnlyEditsAreSaved
  BY DEF ProvidersInd
<1>2. PICK v \in Values : advancedDrafts' = [advancedDrafts EXCEPT ![p].baseUrl = v]
  BY DEF P!EditAdvanced
<1>3. advancedDrafts' \in [Builtins -> P!Advanced]
  BY <1>1, <1>2 DEF ProvidersTypes, P!Advanced
<1>4. /\ advancedDrafts'[p].extraModels = advancedDrafts[p].extraModels
      /\ \A q \in Builtins : q # p => advancedDrafts'[q] = advancedDrafts[q]
  BY <1>1, <1>2 DEF ProvidersTypes, P!Advanced
<1>5. ProvidersTypes'
  BY <1>1, <1>3 DEF P!EditAdvanced, ProvidersTypes, P!server
<1>6. P!OnlyEditsAreSaved'
  BY <1>1, <1>4 DEF P!EditAdvanced, ProvidersTypes, P!OnlyEditsAreSaved, P!AdvancedOf,
        P!server
<1> QED
  BY <1>5, <1>6, FormsAreApart DEF P!EditAdvanced

\* The other edits concern no form of a built-in provider.
LEMMA OtherEditsKeep ==
    ASSUME P!ProvidersAssumption, ProvidersInd, P!OpenCustom \/ P!FillCustom \/ \E p \in Builtins : P!TypeKey(p)
    PROVE  ProvidersInd'
<1>1. ProvidersTypes /\ P!OnlyEditsAreSaved
  BY DEF ProvidersInd
<1>2. UNCHANGED <<P!server, config, tasks, troubled, shown, fetched, missed, fresh, edited, advancedDrafts, expandedProviderId>>
  BY DEF P!OpenCustom, P!FillCustom, P!TypeKey, P!history
<1>3. /\ apiKeyDrafts' \in [Builtins -> BOOLEAN] /\ expandedCustomId' \in Customs \cup {NoId, NewId}
      /\ customForm' \in Forms /\ (customForm'.apiKey => customForm'.id \in P!Providers)
  <2>1. CASE P!OpenCustom
    <3>1. P!emptyCustomForm \in Forms /\ ~P!emptyCustomForm.apiKey
      BY DEF P!emptyCustomForm, Forms, P!ProvidersAssumption
    <3>2. ASSUME NEW c \in Customs, config.rows[c] # NoRow, customForm' = [id |-> c, content |-> config.rows[c].baseUrl, apiKey |-> FALSE]
          PROVE  customForm' \in Forms /\ ~customForm'.apiKey
      BY <1>1, <3>2 DEF ProvidersTypes, P!Row, Forms, P!Providers
    <3> QED
      BY <1>1, <2>1, <3>1, <3>2 DEF P!OpenCustom, ProvidersTypes
  <2>2. CASE P!FillCustom
    BY <1>1, <2>2 DEF P!FillCustom, ProvidersTypes, Forms, P!Providers
  <2>3. CASE \E p \in Builtins : P!TypeKey(p)
    BY <1>1, <2>3 DEF P!TypeKey, ProvidersTypes
  <2> QED
    BY <2>1, <2>2, <2>3
<1>4. ProvidersTypes'
  BY <1>1, <1>2, <1>3 DEF ProvidersTypes, P!server
<1>5. P!OnlyEditsAreSaved'
  BY <1>1, <1>2 DEF P!OnlyEditsAreSaved, P!AdvancedOf, P!server
<1> QED
  BY <1>2, <1>4, <1>5, FormsAreApart

\* A handler starts: a second one of the same provider is trouble.
LEMMA StartKeeps ==
    ASSUME ProvidersInd, NEW task \in Tasks, P!Start(task), task.id \in P!Providers, task.stage = "sent",
           task.request \notin {"none", "fetch"}, task.id \in Customs => task.request \in {"custom", "remove"}
    PROVE  ProvidersInd'
<1> DEFINE n == Len(tasks) + 1
<1>1. ProvidersTypes /\ HandlersOK /\ P!OnlyEditsAreSaved /\ HandledAlone /\ tasks \in Seq(Tasks) /\ n \in Nat
  BY DEF ProvidersInd, ProvidersTypes
<1>2. /\ tasks' \in Seq(Tasks) /\ Len(tasks') = n /\ tasks'[n] = task /\ n \notin DOMAIN tasks /\ DOMAIN tasks' = DOMAIN tasks \cup {n}
      /\ \A j \in DOMAIN tasks : tasks'[j] = tasks[j]
  <2>1. tasks' = Append(tasks, task)
    BY DEF P!Start
  <2> QED
    BY <1>1, <2>1
<1> HIDE DEF n
<1>3. P!Running' = P!Running \cup {n} /\ n \notin P!Running /\ P!Running \subseteq DOMAIN tasks
  BY <1>2 DEF P!Running
<1>4. ProvidersTypes'
  <2>1. shown' \in 0..Len(tasks') + 1
    BY <1>1, <1>2 DEF P!Start, ProvidersTypes, n
  <2> QED
    BY <1>1, <1>2, <2>1 DEF P!Start, ProvidersTypes, P!server, P!forms
<1>5. HandlersOK'
  <2>1. shown' # n + 1
    BY <1>1 DEF P!Start, ProvidersTypes, n
  <2> QED
    BY <1>1, <1>2, <1>3, <2>1 DEF P!Start, HandlersOK
<1>6. LastFetchIsFresh'
  <2>1. n \in Changing'
    BY <1>2, <1>3 DEF Changing
  <2> QED
    BY <2>1 DEF LastFetchIsFresh
<1>7. P!OnlyEditsAreSaved'
  BY <1>1 DEF P!Start, P!OnlyEditsAreSaved, P!AdvancedOf, P!server, P!forms
<1>8. HandledAlone'
  <2> DEFINE Whole(c) ==
        \/ /\ \A k \in P!Running' : tasks'[k].id # c
           /\ rows'[c] # NoRow <=> c \in keys'
        \/ \E k \in P!Running' :
             /\ tasks'[k].id = c
             /\ \A j \in P!Running' : tasks'[j].id = c => j = k
             /\ IF tasks'[k].stage = "half" /\ tasks'[k].request # "fetch"
                THEN rows'[c] # NoRow <=> tasks'[k].request = "custom"
                ELSE rows'[c] # NoRow <=> c \in keys'
  <2>1. UNCHANGED <<rows, keys>> /\ troubled \subseteq troubled' /\ (task.id \in troubled' \/ \A i \in P!Running : tasks[i].id # task.id)
    BY DEF P!Start, P!server
  <2>2. ASSUME NEW c \in Customs \ troubled', task.id = c PROVE Whole(c)
    BY <1>1, <1>2, <1>3, <2>1, <2>2 DEF HandledAlone
  <2>3. ASSUME NEW c \in Customs \ troubled', task.id # c PROVE Whole(c)
    BY <1>1, <1>2, <1>3, <2>1, <2>3 DEF HandledAlone
  <2>4. \A c \in Customs \ troubled' : Whole(c)
    BY <2>2, <2>3
  <2> QED
    BY <2>4 DEF HandledAlone
<1> QED
  BY <1>4, <1>5, <1>6, <1>7, <1>8 DEF ProvidersInd

\* The buttons start handlers.
LEMMA ButtonsKeep ==
    ASSUME P!ProvidersAssumption, ProvidersInd,
           P!handleSaveCustom \/ P!handleDeleteCustom \/ \E p \in Builtins : P!handleSaveProvider(p) \/ P!handleDeleteApiKey(p)
    PROVE  ProvidersInd'
<1>1. ProvidersTypes
  BY DEF ProvidersInd
<1>2. 0 \in Values /\ Builtins \cap Customs = {} /\ {NoId, NewId} \cap Customs = {} /\ P!Providers = Builtins \cup Customs
  BY DEF P!ProvidersAssumption, P!Providers
<1>3. CASE P!handleSaveCustom
  <2> DEFINE t == [P!Task("saveCustom", customForm.id, "custom") EXCEPT
                    !.content = [baseUrl |-> customForm.content, extraModels |-> customForm.content]]
  <2>1. t \in Tasks /\ t.id \in P!Providers /\ t.stage = "sent" /\ t.request = "custom" /\ P!Start(t)
    BY <1>1, <1>2, <1>3 DEF P!handleSaveCustom, ProvidersTypes, Forms, Tasks, P!Task,
          P!Advanced
  <2> HIDE DEF t
  <2> QED
    BY <2>1, StartKeeps
<1>4. CASE P!handleDeleteCustom
  <2> DEFINE t == P!Task("deleteCustom", expandedCustomId, "remove")
  <2>1. t \in Tasks /\ t.id \in P!Providers /\ t.stage = "sent" /\ t.request = "remove" /\ P!Start(t)
    BY <1>1, <1>2, <1>4 DEF P!handleDeleteCustom, ProvidersTypes, Tasks, P!Task,
          P!Advanced, P!emptyProviderAdvanced
  <2> HIDE DEF t
  <2> QED
    BY <2>1, StartKeeps
<1>5. ASSUME NEW p \in Builtins, P!handleSaveProvider(p) PROVE ProvidersInd'
  <2> DEFINE t == [P!Task("save", p, IF apiKeyDrafts[p] THEN "key" ELSE "advanced") EXCEPT !.content = advancedDrafts[p]]
  <2>1. t \in Tasks /\ t.id = p /\ t.stage = "sent" /\ t.request \in {"key", "advanced"} /\ P!Start(t)
    BY <1>1, <1>2, <1>5 DEF P!handleSaveProvider, ProvidersTypes, Tasks, P!Task
  <2> HIDE DEF t
  <2> QED
    BY <1>2, <2>1, StartKeeps
<1>6. ASSUME NEW p \in Builtins, P!handleDeleteApiKey(p) PROVE ProvidersInd'
  <2> DEFINE t == P!Task("clear", p, "unkey")
  <2>1. t \in Tasks /\ t.id = p /\ t.stage = "sent" /\ t.request = "unkey" /\ P!Start(t)
    BY <1>1, <1>2, <1>6 DEF P!handleDeleteApiKey, ProvidersTypes, Tasks, P!Task,
          P!Advanced, P!emptyProviderAdvanced
  <2> HIDE DEF t
  <2> QED
    BY <1>2, <2>1, StartKeeps
<1> QED
  BY <1>3, <1>4, <1>5, <1>6

-----------------------------------------------------------------------------
(* The server                                                              *)

\* A request other than a fetch is served, one statement at a time.
LEMMA WrittenKeeps ==
    ASSUME ProvidersInd, NEW i \in P!Running, NEW s \in {"half", "answer"},
           tasks[i].request # "fetch", P!Served(i, s),
           rows' \in [P!Providers -> P!Row \cup {NoRow}], keys' \subseteq P!Providers,
           \A q \in P!Providers \ {tasks[i].id} : rows'[q] = rows[q] /\ (q \in keys' <=> q \in keys),
           s = "half" => tasks[i].request \in {"custom", "remove"},
           tasks[i].id \in Customs \ troubled =>
             IF s = "half" THEN rows'[tasks[i].id] # NoRow <=> tasks[i].request = "custom"
             ELSE rows'[tasks[i].id] # NoRow <=> tasks[i].id \in keys',
           fresh' = {q \in fresh : rows'[q] = rows[q]},
           UNCHANGED <<config, P!forms, busyKey, edited, troubled, shown, fetched, missed>>
    PROVE  ProvidersInd'
<1> DEFINE t == [tasks[i] EXCEPT !.stage = s]
<1>1. ProvidersTypes /\ HandlersOK /\ P!OnlyEditsAreSaved /\ HandledAlone /\ tasks \in Seq(Tasks) /\ i \in DOMAIN tasks
  BY DEF ProvidersInd, ProvidersTypes, P!Running
<1>2. /\ t \in Tasks /\ t.id = tasks[i].id /\ t.request = tasks[i].request /\ t.stage = s
      /\ tasks' = [tasks EXCEPT ![i] = t]
  <2>1. tasks[i] \in Tasks
    BY <1>1
  <2>2. /\ t.id = tasks[i].id /\ t.request = tasks[i].request /\ t.stage = s
        /\ t \in Tasks
    BY <2>1 DEF Tasks
  <2> QED
    BY <2>2 DEF P!Served
<1> HIDE DEF t
<1>3. /\ tasks' \in Seq(Tasks) /\ Len(tasks') = Len(tasks) /\ DOMAIN tasks' = DOMAIN tasks
      /\ tasks'[i] = t /\ \A j \in DOMAIN tasks : j # i => tasks'[j] = tasks[j]
      /\ P!Running' = P!Running /\ P!Running \subseteq DOMAIN tasks
  BY <1>1, <1>2, HandlerChanged DEF P!Running
<1>4. ProvidersTypes'
  BY <1>1, <1>3 DEF ProvidersTypes, P!forms
<1>5. HandlersOK'
  BY <1>1, <1>2, <1>3 DEF HandlersOK
<1>6. LastFetchIsFresh'
  BY <1>2, <1>3 DEF LastFetchIsFresh, Changing
<1>7. P!OnlyEditsAreSaved'
  BY <1>1 DEF P!OnlyEditsAreSaved, P!AdvancedOf, P!forms
<1>8. HandledAlone'
  <2> DEFINE Whole(c) ==
        \/ /\ \A k \in P!Running' : tasks'[k].id # c
           /\ rows'[c] # NoRow <=> c \in keys'
        \/ \E k \in P!Running' :
             /\ tasks'[k].id = c
             /\ \A j \in P!Running' : tasks'[j].id = c => j = k
             /\ IF tasks'[k].stage = "half" /\ tasks'[k].request # "fetch"
                THEN rows'[c] # NoRow <=> tasks'[k].request = "custom"
                ELSE rows'[c] # NoRow <=> c \in keys'
  <2>1. ASSUME NEW c \in Customs \ troubled, c = tasks[i].id PROVE Whole(c)
    <3>1. \A j \in P!Running : tasks[j].id = c => j = i
      BY <1>1, <2>1 DEF HandledAlone
    <3>2. \A j \in P!Running' : tasks'[j].id = c => j = i
      BY <1>2, <1>3, <3>1
    <3> QED
      BY <1>2, <1>3, <2>1, <3>2
  <2>2. ASSUME NEW c \in Customs \ troubled, c # tasks[i].id PROVE Whole(c)
    <3>1. rows'[c] = rows[c] /\ (c \in keys' <=> c \in keys)
      BY <2>2 DEF P!Providers
    <3> QED
      BY <1>1, <1>2, <1>3, <2>2, <3>1 DEF HandledAlone
  <2>3. \A c \in Customs \ troubled' : Whole(c)
    BY <2>1, <2>2
  <2> QED
    BY <2>3 DEF HandledAlone
<1> QED
  BY <1>4, <1>5, <1>6, <1>7, <1>8 DEF ProvidersInd

\* A fetch reads the rows and then the keys.
LEMMA ReadKeeps ==
    ASSUME ProvidersInd, NEW i \in P!Running, NEW t \in Tasks, tasks[i].request = "fetch",
           \/ tasks[i].stage = "sent" /\ t = [tasks[i] EXCEPT !.stage = "half", !.rows = rows]
           \/ tasks[i].stage = "half" /\ t = [tasks[i] EXCEPT !.stage = "answer", !.keys = keys],
           tasks' = [tasks EXCEPT ![i] = t],
           UNCHANGED <<P!server, fresh, config, P!forms, busyKey, edited, troubled, shown, fetched, missed>>
    PROVE  ProvidersInd'
<1>1. /\ ProvidersTypes /\ HandlersOK /\ LastFetchIsFresh /\ P!OnlyEditsAreSaved /\ HandledAlone
      /\ tasks \in Seq(Tasks) /\ i \in DOMAIN tasks
  BY DEF ProvidersInd, ProvidersTypes, P!Running
<1>2. /\ t.id = tasks[i].id /\ t.request = "fetch" /\ t.stage \in {"half", "answer"} /\ t.rows \in {tasks[i].rows, rows}
      /\ tasks[i].stage = "sent" => t.rows = rows /\ t.stage = "half"
      /\ tasks[i].stage # "sent" => t.rows = tasks[i].rows /\ t.keys = keys /\ tasks[i].stage = "half"
  BY <1>1 DEF Tasks
<1>3. /\ tasks' \in Seq(Tasks) /\ Len(tasks') = Len(tasks) /\ DOMAIN tasks' = DOMAIN tasks
      /\ tasks'[i] = t /\ \A j \in DOMAIN tasks : j # i => tasks'[j] = tasks[j]
      /\ P!Running' = P!Running /\ P!Running \subseteq DOMAIN tasks
  BY <1>1, <1>2, HandlerChanged DEF P!Running
<1>4. ProvidersTypes'
  BY <1>1, <1>3 DEF ProvidersTypes, P!forms, P!server
<1>5. HandlersOK'
  BY <1>1, <1>2, <1>3 DEF HandlersOK
<1>6. LastFetchIsFresh'
  <2>1. Changing' = Changing
    BY <1>2, <1>3 DEF Changing
  <2>2. ASSUME missed < fetched, Changing = {}, fetched = i + 1
        PROVE  /\ t.rows = rows
               /\ t.stage = "answer" => t.keys = keys
    BY <1>1, <1>2, <2>2 DEF LastFetchIsFresh
  <2> QED
    BY <1>1, <1>3, <2>1, <2>2 DEF LastFetchIsFresh, P!server
<1>7. P!OnlyEditsAreSaved'
  BY <1>1 DEF P!OnlyEditsAreSaved, P!AdvancedOf, P!forms, P!server
<1>8. HandledAlone'
  BY <1>1, <1>2, <1>3 DEF HandledAlone, P!server
<1> QED
  BY <1>4, <1>5, <1>6, <1>7, <1>8 DEF ProvidersInd

\* What the server does with each request.
LEMMA ServeKeeps ==
    ASSUME P!ProvidersAssumption, ProvidersInd, NEW i \in DOMAIN tasks, P!Serve(i)
    PROVE  ProvidersInd'
<1> DEFINE p == tasks[i].id
<1>1. /\ ProvidersTypes /\ HandlersOK /\ HandledAlone /\ tasks[i] \in Tasks
      /\ rows \in [P!Providers -> P!Row \cup {NoRow}] /\ keys \subseteq P!Providers
  BY DEF ProvidersInd, ProvidersTypes
<1>2. /\ i \in P!Running /\ p \in P!Providers
      /\ fresh' = {q \in fresh : rows'[q] = rows[q]}
      /\ UNCHANGED <<config, P!forms, busyKey, edited, troubled, shown, fetched, missed>>
  <2>1. i \in P!Running
    BY <1>1 DEF P!Serve, P!Running
  <2> QED
    BY <1>1, <2>1 DEF P!Serve, HandlersOK
<1>3. p \in Customs => tasks[i].request \in {"custom", "remove", "fetch"}
  BY <1>1, <1>2 DEF HandlersOK
<1>4. p \in Customs \ troubled =>
        IF tasks[i].stage = "half" /\ tasks[i].request # "fetch"
        THEN rows[p] # NoRow <=> tasks[i].request = "custom"
        ELSE rows[p] # NoRow <=> p \in keys
  BY <1>1, <1>2 DEF HandledAlone
<1>5. CASE tasks[i].stage = "sent" /\ tasks[i].request \in {"key", "advanced", "unkey"}
  <2>1. p \notin Customs
    BY <1>3, <1>5
  <2>2. P!Served(i, "answer")
    BY <1>5 DEF P!Serve
  <2>3. rows' \in [P!Providers -> P!Row \cup {NoRow}] /\ \A q \in P!Providers \ {p} : rows'[q] = rows[q]
    <3>1. CASE tasks[i].request = "advanced"
      <4> DEFINE row == P!Pruned([baseUrl |-> tasks[i].content.baseUrl, extraModels |-> tasks[i].content.extraModels,
                                api |-> rows[p] # NoRow /\ rows[p].api])
      <4>1. rows[p] # NoRow => rows[p].api \in BOOLEAN
        BY <1>1, <1>2 DEF P!Row
      <4>2. row \in P!Row \cup {NoRow}
        BY <1>1, <4>1 DEF P!Pruned, P!Row, Tasks, P!Advanced
      <4>3. rows' = [rows EXCEPT ![p] = row]
        BY <1>1, <1>2, <1>5, <3>1 DEF P!Serve, P!UpsertAdvanced
      <4> HIDE DEF row, p
      <4> QED
        BY <1>1, <4>2, <4>3
    <3>2. CASE tasks[i].request # "advanced"
      BY <1>1, <1>5, <3>2 DEF P!Serve
    <3> QED
      BY <3>1, <3>2
  <2>4. keys' \subseteq P!Providers /\ \A q \in P!Providers \ {p} : q \in keys' <=> q \in keys
    BY <1>1, <1>2, <1>5 DEF P!Serve
  <2> QED
    BY <1>2, <1>5, <2>1, <2>2, <2>3, <2>4, WrittenKeeps
<1>6. CASE tasks[i].stage = "sent" /\ tasks[i].request = "custom"
  <2>1. P!Served(i, "half") /\ keys' = keys /\ P!UpsertCustom(p, tasks[i].content)
    BY <1>6 DEF P!Serve
  <2> DEFINE row == [baseUrl |-> tasks[i].content.baseUrl, extraModels |-> tasks[i].content.extraModels, api |-> TRUE]
  <2>2. row \in P!Row /\ row # NoRow
    <3>1. row \in P!Row
      BY <1>1 DEF P!Row, Tasks, P!Advanced
    <3>2. NoRow \notin P!Row
      BY DEF P!ProvidersAssumption
    <3> QED
      BY <3>1, <3>2
  <2>3. rows' = [rows EXCEPT ![p] = row]
    BY <2>1 DEF P!UpsertCustom
  <2> HIDE DEF row
  <2>4. /\ rows' \in [P!Providers -> P!Row \cup {NoRow}] /\ rows'[p] # NoRow
        /\ \A q \in P!Providers \ {p} : rows'[q] = rows[q]
    BY <1>1, <1>2, <2>2, <2>3
  <2> QED
    BY <1>1, <1>2, <1>6, <2>1, <2>4, WrittenKeeps
<1>7. CASE tasks[i].stage = "sent" /\ tasks[i].request = "remove"
  <2>1. P!Served(i, "half") /\ keys' = keys /\ rows' = [rows EXCEPT ![p] = NoRow]
    BY <1>7 DEF P!Serve
  <2>2. /\ rows' \in [P!Providers -> P!Row \cup {NoRow}] /\ rows'[p] = NoRow
        /\ \A q \in P!Providers \ {p} : rows'[q] = rows[q]
    BY <1>1, <1>2, <2>1
  <2> QED
    BY <1>1, <1>2, <1>7, <2>1, <2>2, WrittenKeeps
<1>8. CASE tasks[i].stage = "half" /\ tasks[i].request = "custom"
  <2>1. P!Served(i, "answer") /\ keys' = keys \cup {p} /\ rows' = rows
    BY <1>8 DEF P!Serve
  <2>2. p \in Customs \ troubled => rows[p] # NoRow
    BY <1>4, <1>8
  <2> QED
    BY <1>1, <1>2, <1>8, <2>1, <2>2, WrittenKeeps
<1>9. CASE tasks[i].stage = "half" /\ tasks[i].request = "remove"
  <2>1. P!Served(i, "answer") /\ keys' = keys \ {p} /\ rows' = rows
    BY <1>9 DEF P!Serve
  <2>2. p \in Customs \ troubled => rows[p] = NoRow
    BY <1>4, <1>9
  <2> QED
    BY <1>1, <1>2, <1>9, <2>1, <2>2, WrittenKeeps
<1>10. CASE tasks[i].request = "fetch"
  <2> DEFINE read == [tasks[i] EXCEPT !.stage = "half", !.rows = rows]
             listed == [tasks[i] EXCEPT !.stage = "answer", !.keys = keys]
  <2>1. \/ tasks[i].stage = "sent" /\ tasks' = [tasks EXCEPT ![i] = read]
        \/ tasks[i].stage = "half" /\ tasks' = [tasks EXCEPT ![i] = listed]
    BY <1>10 DEF P!Serve
  <2>2. UNCHANGED P!server /\ fresh' = fresh
    BY <1>2, <1>10 DEF P!Serve, P!server
  <2>3. read \in Tasks /\ listed \in Tasks
    BY <1>1 DEF Tasks
  <2>4. CASE tasks[i].stage = "sent"
    BY <1>2, <1>10, <2>1, <2>2, <2>3, <2>4, ReadKeeps
  <2>5. CASE tasks[i].stage = "half"
    BY <1>2, <1>10, <2>1, <2>2, <2>3, <2>5, ReadKeeps
  <2> QED
    BY <2>1, <2>4, <2>5
<1> QED
  BY <1>5, <1>6, <1>7, <1>8, <1>9, <1>10 DEF P!Serve

-----------------------------------------------------------------------------
(* The answers                                                             *)

\* A handler sends its next request.
LEMMA RequestedKeeps ==
    ASSUME ProvidersInd, ProvidersTypes', NEW i \in P!Running, NEW request \in {"advanced", "fetch"},
           tasks[i].stage = "answer", P!Request(i, request), UNCHANGED <<P!server, config, troubled, shown, missed>>,
           tasks[i].id \in Customs => request = "fetch",
           request = "fetch" => fetched' = i + 1, P!OnlyEditsAreSaved'
    PROVE  ProvidersInd'
<1> DEFINE t == [tasks[i] EXCEPT !.request = request, !.stage = "sent"]
<1>1. ProvidersTypes /\ HandlersOK /\ HandledAlone /\ tasks \in Seq(Tasks) /\ i \in DOMAIN tasks
  BY DEF ProvidersInd, ProvidersTypes, P!Running
<1>2. /\ t \in Tasks /\ t.id = tasks[i].id /\ t.request = request /\ t.stage = "sent"
      /\ tasks' = [tasks EXCEPT ![i] = t]
  <2>1. tasks[i] \in Tasks
    BY <1>1
  <2>2. t.id = tasks[i].id /\ t.request = request /\ t.stage = "sent" /\ t \in Tasks
    BY <2>1 DEF Tasks
  <2>3. tasks' = [tasks EXCEPT ![i] = t]
    BY <1>1 DEF P!Request
  <2> QED
    BY <2>2, <2>3
<1> HIDE DEF t
<1>3. /\ DOMAIN tasks' = DOMAIN tasks /\ P!Running' = P!Running /\ P!Running \subseteq DOMAIN tasks
      /\ tasks'[i] = t /\ \A j \in DOMAIN tasks : j # i => tasks'[j] = tasks[j]
  BY <1>1, <1>2, HandlerChanged DEF P!Running
<1>4. HandlersOK'
  BY <1>1, <1>2, <1>3 DEF HandlersOK
<1>5. LastFetchIsFresh'
  <2>1. CASE request = "fetch"
    <3>1. shown' # fetched' /\ \A j \in P!Running' : fetched' = j + 1 => j = i
      BY <1>1, <1>3, <2>1 DEF HandlersOK
    <3> QED
      BY <1>2, <1>3, <2>1, <3>1 DEF LastFetchIsFresh
  <2>2. CASE request = "advanced"
    BY <1>2, <1>3, <2>2 DEF LastFetchIsFresh, Changing
  <2> QED
    BY <2>1, <2>2
<1>6. HandledAlone'
  BY <1>1, <1>2, <1>3 DEF HandledAlone, P!server
<1> QED
  BY <1>4, <1>5, <1>6 DEF ProvidersInd

\* A handler ends, and no longer runs.
LEMMA FinishIs ==
    ASSUME P!ProvidersAssumption, ProvidersTypes, NEW i \in P!Running, P!Finish(i)
    PROVE  /\ tasks' \in Seq(Tasks) /\ Len(tasks') = Len(tasks) /\ P!Running' = P!Running \ {i}
           /\ \A j \in P!Running' : tasks'[j] = tasks[j]
<1>1. tasks \in Seq(Tasks) /\ i \in DOMAIN tasks
  BY DEF ProvidersTypes, P!Running
<1>2. P!Done \in Tasks /\ P!Done.stage = "done"
  <2>1. P!emptyProviderAdvanced \in P!Advanced
    BY DEF P!emptyProviderAdvanced, P!Advanced, P!ProvidersAssumption
  <2> QED
    BY <2>1 DEF P!Done, P!Task, Tasks
<1>3. tasks' = [tasks EXCEPT ![i] = P!Done]
  BY DEF P!Finish
<1> QED
  BY <1>1, <1>2, <1>3, HandlerChanged DEF P!Running

\* The answer to a fetch is shown.
LEMMA ShownKeeps ==
    ASSUME P!ProvidersAssumption, ProvidersInd, NEW i \in P!Running, tasks[i].stage = "answer", tasks[i].request = "fetch",
           P!AnswerFetch(i), UNCHANGED <<P!server, edited, fresh, troubled, missed>>
    PROVE  ProvidersInd'
<1>1. /\ ProvidersTypes /\ HandlersOK /\ LastFetchIsFresh /\ P!OnlyEditsAreSaved /\ HandledAlone
      /\ tasks \in Seq(Tasks) /\ i \in DOMAIN tasks /\ tasks[i] \in Tasks
  BY DEF ProvidersInd, ProvidersTypes, P!Running
<1>2. /\ tasks' \in Seq(Tasks) /\ Len(tasks') = Len(tasks) /\ P!Running' = P!Running \ {i}
      /\ \A j \in P!Running' : tasks'[j] = tasks[j]
  BY <1>1, FinishIs DEF P!AnswerFetch
<1>3. config' = [rows |-> tasks[i].rows, keys |-> tasks[i].keys] /\ shown' = i + 1 /\ UNCHANGED <<P!forms, fetched>>
  BY DEF P!AnswerFetch
<1>4. ProvidersTypes'
  <2>1. config' \in [rows : [P!Providers -> P!Row \cup {NoRow}], keys : SUBSET P!Providers] /\ shown' \in 0..Len(tasks') + 1
    BY <1>1, <1>2, <1>3 DEF Tasks
  <2> QED
    BY <1>1, <1>2, <1>3, <2>1 DEF ProvidersTypes, P!forms, P!server
<1>5. HandlersOK'
  <2>1. \A j \in P!Running' : j # i /\ j \in DOMAIN tasks /\ j \in Nat /\ i \in Nat
    BY <1>1, <1>2 DEF P!Running
  <2> QED
    BY <1>1, <1>2, <1>3, <2>1 DEF HandlersOK
<1>6. LastFetchIsFresh'
  <2>1. Changing' = Changing
    BY <1>2 DEF Changing
  <2> QED
    BY <1>1, <1>2, <1>3, <2>1 DEF LastFetchIsFresh, P!server
<1>7. P!OnlyEditsAreSaved'
  BY <1>1, <1>3 DEF P!OnlyEditsAreSaved, P!AdvancedOf, P!forms, P!server
<1>8. HandledAlone'
  BY <1>1, <1>2 DEF HandledAlone, P!server
<1> QED
  BY <1>4, <1>5, <1>6, <1>7, <1>8 DEF ProvidersInd

\* Each answer, and what the handler sends next.
LEMMA AnswerKeeps ==
    ASSUME P!ProvidersAssumption, ProvidersInd, NEW i \in DOMAIN tasks, P!Answer(i)
    PROVE  ProvidersInd'
<1>1. ProvidersTypes /\ HandlersOK /\ P!OnlyEditsAreSaved /\ i \in P!Running /\ tasks[i] \in Tasks /\ tasks \in Seq(Tasks)
  BY DEF ProvidersInd, ProvidersTypes, P!Answer, P!Running
<1>2. UNCHANGED <<P!server, edited, fresh, troubled, missed>> /\ tasks[i].stage = "answer" /\ tasks[i].id \in P!Providers
  BY <1>1 DEF P!Answer, HandlersOK
<1>3. CASE tasks[i].request = "fetch"
  BY <1>1, <1>2, <1>3, ShownKeeps DEF P!Answer
<1>4. CASE tasks[i].request # "fetch"
  <2> DEFINE request == IF tasks[i].request = "key" THEN "advanced" ELSE "fetch"
  <2>1. /\ P!Request(i, request) /\ UNCHANGED <<config, busyKey, shown, advancedDrafts>>
        /\ IF request = "fetch" THEN fetched' = i + 1 ELSE UNCHANGED fetched
    BY <1>4 DEF P!Answer, P!AnswerClear, P!AnswerKey, P!AnswerAdvanced, P!AnswerCustom,
          P!Refresh, P!forms
  <2>2. /\ apiKeyDrafts' \in [Builtins -> BOOLEAN]
        /\ expandedProviderId' \in {expandedProviderId, NoId} /\ expandedCustomId' \in {expandedCustomId, NoId}
        /\ customForm' \in {customForm, P!emptyCustomForm}
    BY <1>1, <1>4 DEF P!Answer, P!AnswerClear, P!AnswerKey, P!AnswerAdvanced,
          P!AnswerCustom, P!Refresh, P!forms, ProvidersTypes, P!resetCustomForm
  <2>3. tasks' \in Seq(Tasks) /\ Len(tasks') = Len(tasks)
    <3> DEFINE t == [tasks[i] EXCEPT !.request = request, !.stage = "sent"]
    <3>1. t \in Tasks /\ tasks' = [tasks EXCEPT ![i] = t]
      BY <1>1, <2>1 DEF P!Request, Tasks
    <3> HIDE DEF t
    <3> QED
      BY <1>1, <3>1, HandlerChanged DEF P!Running
  <2>4. ProvidersTypes'
    <3>1. P!emptyCustomForm \in Forms /\ ~P!emptyCustomForm.apiKey
      BY DEF P!emptyCustomForm, Forms, P!ProvidersAssumption
    <3>2. fetched' \in Nat
      BY <1>1, <2>1 DEF ProvidersTypes, P!Running
    <3> QED
      BY <1>1, <1>2, <2>1, <2>2, <2>3, <3>1, <3>2 DEF ProvidersTypes, P!server
  <2>5. P!OnlyEditsAreSaved'
    BY <1>1, <1>2, <2>1 DEF P!OnlyEditsAreSaved, P!AdvancedOf, P!server
  <2>6. tasks[i].id \in Customs => request = "fetch"
    BY <1>1 DEF HandlersOK
  <2>7. request \in {"advanced", "fetch"}
    OBVIOUS
  <2> HIDE DEF request
  <2> QED
    BY <1>1, <1>2, <2>1, <2>4, <2>5, <2>6, <2>7, RequestedKeeps
<1> QED
  BY <1>3, <1>4

\* A request fails: what is true of its provider is no longer known.
LEMMA FailKeeps ==
    ASSUME P!ProvidersAssumption, ProvidersInd, NEW i \in DOMAIN tasks, P!Fail(i)
    PROVE  ProvidersInd'
<1>1. /\ ProvidersTypes /\ HandlersOK /\ P!OnlyEditsAreSaved /\ HandledAlone /\ i \in P!Running
  BY DEF ProvidersInd, P!Fail, P!Running
<1>2. /\ tasks' \in Seq(Tasks) /\ Len(tasks') = Len(tasks) /\ P!Running' = P!Running \ {i}
      /\ \A j \in P!Running' : tasks'[j] = tasks[j]
  BY <1>1, FinishIs DEF P!Fail
<1>3. ProvidersTypes'
  BY <1>1, <1>2 DEF P!Fail, ProvidersTypes, P!forms, P!server
<1>4. HandlersOK'
  BY <1>1, <1>2 DEF HandlersOK, P!Fail
<1>5. LastFetchIsFresh'
  BY <1>1 DEF LastFetchIsFresh, P!Fail, ProvidersTypes
<1>6. P!OnlyEditsAreSaved'
  BY <1>1 DEF P!OnlyEditsAreSaved, P!AdvancedOf, P!forms, P!server, P!Fail
<1>7. HandledAlone'
  BY <1>1, <1>2 DEF HandledAlone, P!server, P!Fail
<1> QED
  BY <1>3, <1>4, <1>5, <1>6, <1>7 DEF ProvidersInd

-----------------------------------------------------------------------------

\* The invariant holds when the page has loaded.
LEMMA ProvidersStart == P!ProvidersAssumption /\ P!Init => ProvidersInd
<1> SUFFICES ASSUME P!ProvidersAssumption, P!Init PROVE ProvidersInd
  OBVIOUS
<1>1. PICK b \in SUBSET Builtins, c \in SUBSET Customs :
        /\ rows = [p \in P!Providers |-> IF p \in b THEN [baseUrl |-> 1, extraModels |-> 0, api |-> FALSE]
                                      ELSE IF p \in c THEN [baseUrl |-> 1, extraModels |-> 1, api |-> TRUE] ELSE NoRow]
        /\ keys = b \cup c
  BY DEF P!Init
<1>2. rows \in [P!Providers -> P!Row \cup {NoRow}] /\ keys \subseteq P!Providers
  BY <1>1 DEF P!Row, P!Providers, P!ProvidersAssumption
<1>3. \A q \in Customs : rows[q] # NoRow <=> q \in keys
  <2>1. \A q \in Customs : q \notin b /\ q \in P!Providers /\ rows[q] = IF q \in c THEN [baseUrl |-> 1, extraModels |-> 1, api |-> TRUE] ELSE NoRow
    BY <1>1 DEF P!Providers, P!ProvidersAssumption
  <2>2. [baseUrl |-> 1, extraModels |-> 1, api |-> TRUE] # NoRow
    <3>1. [baseUrl |-> 1, extraModels |-> 1, api |-> TRUE] \in P!Row
      BY DEF P!Row, P!ProvidersAssumption
    <3>2. NoRow \notin P!Row
      BY DEF P!ProvidersAssumption
    <3> QED
      BY <3>1, <3>2
  <2> QED
    BY <1>1, <2>1, <2>2
<1>4. P!Running = {} /\ tasks \in Seq(Tasks) /\ Len(tasks) = 0
  BY DEF P!Init, P!Running
<1>5. ProvidersTypes
  <2>1. P!emptyCustomForm \in Forms /\ ~P!emptyCustomForm.apiKey /\ P!emptyProviderAdvanced \in P!Advanced
    BY DEF P!emptyCustomForm, Forms, P!emptyProviderAdvanced, P!Advanced,
          P!ProvidersAssumption
  <2> QED
    BY <1>2, <1>4, <2>1 DEF P!Init, ProvidersTypes
<1>6. HandlersOK /\ P!OnlyEditsAreSaved /\ LastFetchIsFresh
  BY <1>4 DEF P!Init, HandlersOK, P!OnlyEditsAreSaved, LastFetchIsFresh
<1>7. HandledAlone
  BY <1>3, <1>4 DEF HandledAlone
<1> QED
  BY <1>5, <1>6, <1>7 DEF ProvidersInd

\* Every step keeps the invariant.
LEMMA ProvidersStep == P!ProvidersAssumption /\ ProvidersInd /\ [P!Next]_P!vars => ProvidersInd'
<1> SUFFICES ASSUME P!ProvidersAssumption, ProvidersInd, [P!Next]_P!vars PROVE ProvidersInd'
  OBVIOUS
<1>1. CASE UNCHANGED P!vars
  BY <1>1 DEF P!vars, P!server, P!forms, P!history, ProvidersInd, ProvidersTypes,
        HandlersOK, LastFetchIsFresh, P!OnlyEditsAreSaved,
              HandledAlone, Changing, P!Running, P!AdvancedOf
<1>2. CASE P!User
  BY <1>2, ToggleKeeps, EditKeeps, OtherEditsKeep, ButtonsKeep DEF P!User
<1>3. CASE \E i \in DOMAIN tasks : P!Serve(i) \/ P!Answer(i) \/ P!Fail(i)
  BY <1>3, ServeKeeps, AnswerKeeps, FailKeeps
<1> QED
  BY <1>1, <1>2, <1>3 DEF P!Next

\* The invariant says what the property says.
LEMMA ProvidersEnd == ProvidersInd => P!ProvidersInv
<1> SUFFICES ASSUME ProvidersInd PROVE P!ProvidersInv
  OBVIOUS
<1>1. P!TypeOK
  BY DEF ProvidersInd, ProvidersTypes, P!TypeOK
<1>2. P!SettledPage
  BY UpToDateIsSettled DEF ProvidersInd
<1>3. P!CustomsAreWhole
  BY DEF ProvidersInd, HandledAlone, P!CustomsAreWhole
<1> QED
  BY <1>1, <1>2, <1>3 DEF ProvidersInd, P!ProvidersInv

\* The providers page shows what the server has once it is up to date, saves besides what was edited what
\* the server has, and leaves custom providers whole; for any providers, values and number of handlers.
THEOREM ProvidersAreKept == P!ProvidersAssumption => (P!Spec => []P!ProvidersInv)
<1> SUFFICES ASSUME P!ProvidersAssumption PROVE P!Spec => []P!ProvidersInv
  OBVIOUS
<1>1. P!Init => ProvidersInd
  BY ProvidersStart
<1>2. ProvidersInd /\ [P!Next]_P!vars => ProvidersInd'
  BY ProvidersStep
<1>3. ProvidersInd => P!ProvidersInv
  BY ProvidersEnd
<1> QED
  BY <1>1, <1>2, <1>3, PTL DEF P!Spec

-----------------------------------------------------------------------------
(* The models page                                                         *)

\* The saves under way, the reads of the page and what has happened
Saves == [no : Nat, value : M!ModelStrategy]
Loads == [step : {"none", "sent", "storing", "answered"}, value : M!ModelStrategy \cup {NoStrategy},
          options : SUBSET Models, crossed : BOOLEAN]
Pasts == [wish : M!ModelStrategy, issued : Nat, applied : Nat, crossed : BOOLEAN, rival : BOOLEAN]

\* Every value is of its type.
SettingsTypes ==
  /\ timer \in {"none", "armed", "spent"} /\ mounted \in BOOLEAN /\ expelled \in BOOLEAN /\ reader \in BOOLEAN
  /\ catalog \subseteq Models /\ options \subseteq Models
  /\ strategy \in M!ModelStrategy \cup {NoStrategy} /\ draft \in M!ModelStrategy \cup {NoStrategy} /\ pendingPoolsSave \in M!ModelStrategy \cup {NoStrategy}
  /\ load \in Loads
  /\ load.step \in {"storing", "answered"} => load.value \in M!ModelStrategy
  /\ past \in Pasts
  /\ puts \in Seq(Saves)
  /\ seed # NoStrategy => seed.model \in Models /\ seed.base \in M!ModelStrategy \cup {NoStrategy}

\* What there is while the page is open, and what shows that a strategy is stored
PageWhole ==
  /\ ~mounted => draft = NoStrategy /\ load.step = "none" /\ ~expelled
  /\ timer # "none" => draft # NoStrategy
  /\ draft # NoStrategy \/ load.step = "answered" => strategy # NoStrategy
  /\ load.step = "storing" => draft = NoStrategy
  /\ timer = "armed" => pendingPoolsSave # NoStrategy
  /\ pendingPoolsSave # NoStrategy => timer = "armed"

\* A seeding has read what was stored; the page and its saves are its rivals.
SeedIsAlone ==
  seed # NoStrategy =>
    /\ seed.value = IF seed.base = NoStrategy THEN M!DEFAULT_MODEL_STRATEGY ELSE seed.base
    /\ mounted \/ puts # <<>> => past.rival

\* Saves are numbered as they are sent; the last one has every edit.
LastPutHasAll ==
  \A i \in DOMAIN puts :
    /\ puts[i].no <= past.issued
    /\ M!Undisturbed /\ timer # "armed" /\ puts[i].no = past.issued => puts[i].value = past.wish

\* What is stored has every edit once the save that was sent last was the last to be stored.
ServerHasAll ==
  /\ past.applied <= past.issued
  /\ M!Undisturbed /\ timer # "armed" /\ past.applied = past.issued => M!Stored = past.wish

\* A read that no edit and no save has crossed brings the strategy that the user means.
LoadIsFresh ==
  M!Undisturbed /\ load.step \in {"storing", "answered"} /\ ~load.crossed => load.value = past.wish /\ timer # "armed"

\* The inductive invariant of the models page
SettingsInd ==
  /\ SettingsTypes /\ PageWhole /\ SeedIsAlone
  /\ M!ScreenKeepsEdits /\ LastPutHasAll /\ ServerHasAll /\ LoadIsFresh
\* What is left when one of a sequence is removed
LEMMA RemoveAtIs ==
    ASSUME NEW S, NEW q \in Seq(S), NEW i \in 1 .. Len(q)
    PROVE  /\ M!RemoveAt(q, i) \in Seq(S) /\ Len(M!RemoveAt(q, i)) = Len(q) - 1
           /\ \A k \in 1 .. Len(q) - 1 : M!RemoveAt(q, i)[k] = IF k < i THEN q[k] ELSE q[k + 1]
<1> DEFINE a == SubSeq(q, 1, i - 1)
           b == SubSeq(q, i + 1, Len(q))
<1>1. Len(q) \in Nat /\ i \in Nat /\ 1 <= i /\ i <= Len(q) /\ \A k \in 1 .. Len(q) : q[k] \in S
  OBVIOUS
<1>2. a \in Seq(S) /\ Len(a) = i - 1 /\ \A k \in 1 .. i - 1 : a[k] = q[k]
  <2>1. \A k \in 1 .. i - 1 : q[k] \in S
    BY <1>1
  <2>2. /\ a \in Seq(S) /\ Len(a) = IF 1 <= i - 1 THEN i - 1 - 1 + 1 ELSE 0
        /\ \A k \in 1 .. i - 1 - 1 + 1 : a[k] = q[1 + k - 1]
    BY <1>1, <2>1, SubSeqProperties
  <2> HIDE DEF a
  <2>3. i - 1 - 1 + 1 = i - 1 /\ Len(a) = i - 1
    BY <1>1, <2>2
  <2>4. ASSUME NEW k \in 1 .. i - 1 PROVE a[k] = q[k]
    <3>1. 1 + k - 1 = k
      OBVIOUS
    <3> QED
      BY <2>2, <2>3, <3>1
  <2> QED
    BY <2>2, <2>3, <2>4
<1>3. b \in Seq(S) /\ Len(b) = Len(q) - i /\ \A k \in 1 .. Len(q) - i : b[k] = q[k + i]
  <2>1. \A k \in i + 1 .. Len(q) : q[k] \in S
    BY <1>1
  <2>2. /\ b \in Seq(S) /\ Len(b) = IF i + 1 <= Len(q) THEN Len(q) - (i + 1) + 1 ELSE 0
        /\ \A k \in 1 .. Len(q) - (i + 1) + 1 : b[k] = q[i + 1 + k - 1]
    BY <1>1, <2>1, SubSeqProperties
  <2> HIDE DEF b
  <2>3. Len(q) - (i + 1) + 1 = Len(q) - i /\ (i + 1 <= Len(q) \/ Len(q) - i = 0)
    BY <1>1
  <2>4. ASSUME NEW k \in 1 .. Len(q) - i PROVE b[k] = q[k + i]
    <3>1. i + 1 + k - 1 = k + i /\ k \in 1 .. Len(q) - (i + 1) + 1
      BY <1>1
    <3> QED
      BY <2>2, <3>1
  <2>5. Len(b) = Len(q) - i
    BY <1>1, <2>2, <2>3
  <2>6. b \in Seq(S)
    BY <2>2
  <2> QED
    BY <2>4, <2>5, <2>6
<1>4. M!RemoveAt(q, i) = a \o b
  BY DEF M!RemoveAt
<1> HIDE DEF a, b
<1>5. /\ a \o b \in Seq(S) /\ Len(a \o b) = Len(a) + Len(b)
      /\ \A k \in 1 .. Len(a) + Len(b) : (a \o b)[k] = IF k <= Len(a) THEN a[k] ELSE b[k - Len(a)]
  BY <1>2, <1>3, ConcatProperties
<1>6. ASSUME NEW k \in 1 .. Len(q) - 1 PROVE (a \o b)[k] = IF k < i THEN q[k] ELSE q[k + 1]
  <2>1. (a \o b)[k] = IF k <= i - 1 THEN a[k] ELSE b[k - (i - 1)]
    BY <1>1, <1>2, <1>3, <1>5
  <2>2. CASE k < i
    BY <1>1, <1>2, <2>1, <2>2
  <2>3. CASE k >= i
    <3>1. k - (i - 1) \in 1 .. Len(q) - i /\ k - (i - 1) + i = k + 1 /\ ~(k <= i - 1)
      BY <1>1, <2>3
    <3> QED
      BY <1>1, <1>3, <2>1, <2>3, <3>1
  <2>4. k < i \/ k >= i
    BY <1>1
  <2> QED
    BY <2>2, <2>3, <2>4, Zenon
<1> QED
  BY <1>1, <1>2, <1>3, <1>4, <1>5, <1>6

\* What there is when one is inserted
LEMMA InsertAtIs ==
    ASSUME NEW S, NEW q \in Seq(S), NEW i \in 1 .. Len(q) + 1, NEW e \in S
    PROVE  /\ M!InsertAt(q, i, e) \in Seq(S) /\ Len(M!InsertAt(q, i, e)) = Len(q) + 1
           /\ \A k \in 1 .. Len(q) + 1 :
                M!InsertAt(q, i, e)[k] = IF k < i THEN q[k] ELSE IF k = i THEN e ELSE q[k - 1]
<1> DEFINE a == SubSeq(q, 1, i - 1)
           b == SubSeq(q, i, Len(q))
           c == a \o <<e>>
<1>1. Len(q) \in Nat /\ i \in Nat /\ 1 <= i /\ i <= Len(q) + 1 /\ \A k \in 1 .. Len(q) : q[k] \in S
  OBVIOUS
<1>2. a \in Seq(S) /\ Len(a) = i - 1 /\ \A k \in 1 .. i - 1 : a[k] = q[k]
  <2>1. \A k \in 1 .. i - 1 : q[k] \in S
    BY <1>1
  <2>2. /\ a \in Seq(S) /\ Len(a) = IF 1 <= i - 1 THEN i - 1 - 1 + 1 ELSE 0
        /\ \A k \in 1 .. i - 1 - 1 + 1 : a[k] = q[1 + k - 1]
    BY <1>1, <2>1, SubSeqProperties
  <2> HIDE DEF a
  <2>3. i - 1 - 1 + 1 = i - 1 /\ Len(a) = i - 1
    BY <1>1, <2>2
  <2>4. ASSUME NEW k \in 1 .. i - 1 PROVE a[k] = q[k]
    <3>1. 1 + k - 1 = k
      OBVIOUS
    <3> QED
      BY <2>2, <2>3, <3>1
  <2> QED
    BY <2>2, <2>3, <2>4
<1>3. b \in Seq(S) /\ Len(b) = Len(q) - i + 1 /\ \A k \in 1 .. Len(q) - i + 1 : b[k] = q[k + i - 1]
  <2>1. \A k \in i .. Len(q) : q[k] \in S
    BY <1>1
  <2>2. /\ b \in Seq(S) /\ Len(b) = IF i <= Len(q) THEN Len(q) - i + 1 ELSE 0
        /\ \A k \in 1 .. Len(q) - i + 1 : b[k] = q[i + k - 1]
    BY <1>1, <2>1, SubSeqProperties
  <2> HIDE DEF b
  <2>3. i <= Len(q) \/ Len(q) - i + 1 = 0
    BY <1>1
  <2>4. ASSUME NEW k \in 1 .. Len(q) - i + 1 PROVE b[k] = q[k + i - 1]
    <3>1. i + k - 1 = k + i - 1
      BY <1>1
    <3> QED
      BY <2>2, <3>1
  <2>5. Len(b) = Len(q) - i + 1
    BY <1>1, <2>2, <2>3
  <2>6. b \in Seq(S)
    BY <2>2
  <2> QED
    BY <2>4, <2>5, <2>6
<1>4. M!InsertAt(q, i, e) = c \o b
  BY DEF M!InsertAt
<1> HIDE DEF a, b
<1>5. c \in Seq(S) /\ Len(c) = i /\ \A k \in 1 .. i : c[k] = IF k < i THEN q[k] ELSE e
  <2>1. <<e>> \in Seq(S) /\ Len(<<e>>) = 1 /\ <<e>>[1] = e
    OBVIOUS
  <2>2. /\ c \in Seq(S) /\ Len(c) = Len(a) + Len(<<e>>)
        /\ \A k \in 1 .. Len(a) + Len(<<e>>) : c[k] = IF k <= Len(a) THEN a[k] ELSE <<e>>[k - Len(a)]
    BY <1>2, <2>1, ConcatProperties
  <2> HIDE DEF c
  <2>3. ASSUME NEW k \in 1 .. i PROVE c[k] = IF k < i THEN q[k] ELSE e
    <3>1. c[k] = IF k <= i - 1 THEN a[k] ELSE <<e>>[k - (i - 1)]
      <4>1. Len(a) = i - 1 /\ k \in 1 .. Len(a) + Len(<<e>>)
        BY <1>1, <1>2, <2>1
      <4>2. c[k] = IF k <= Len(a) THEN a[k] ELSE <<e>>[k - Len(a)]
        BY <2>2, <4>1
      <4> QED
        BY <4>1, <4>2
    <3>2. k < i => k <= i - 1 /\ k \in 1 .. i - 1
      BY <1>1
    <3>3. ~(k < i) => ~(k <= i - 1) /\ k - (i - 1) = 1
      BY <1>1
    <3> QED
      BY <1>2, <2>1, <3>1, <3>2, <3>3
  <2> QED
    BY <1>1, <1>2, <2>1, <2>2, <2>3
<1> HIDE DEF c
<1>6. /\ c \o b \in Seq(S) /\ Len(c \o b) = Len(c) + Len(b)
      /\ \A k \in 1 .. Len(c) + Len(b) : (c \o b)[k] = IF k <= Len(c) THEN c[k] ELSE b[k - Len(c)]
  BY <1>3, <1>5, ConcatProperties
<1>7. ASSUME NEW k \in 1 .. Len(q) + 1
      PROVE  (c \o b)[k] = IF k < i THEN q[k] ELSE IF k = i THEN e ELSE q[k - 1]
  <2>1. (c \o b)[k] = IF k <= i THEN c[k] ELSE b[k - i]
    BY <1>1, <1>3, <1>5, <1>6
  <2>2. CASE k <= i
    BY <1>1, <1>5, <2>1, <2>2
  <2>3. CASE k > i
    <3>1. k - i \in 1 .. Len(q) - i + 1 /\ k - i + i - 1 = k - 1 /\ ~(k <= i)
      BY <1>1, <2>3
    <3> QED
      BY <1>1, <1>3, <2>1, <2>3, <3>1
  <2>4. k <= i \/ k > i
    BY <1>1
  <2> QED
    BY <2>2, <2>3, <2>4, Zenon
<1> QED
  BY <1>1, <1>3, <1>4, <1>5, <1>6, <1>7

-----------------------------------------------------------------------------
(* Types of what is computed.                                              *)

\* addPoolItem adds no model twice.
LEMMA PoolGrows ==
    ASSUME NEW q \in M!Pools, NEW m \in Models
    PROVE  M!addPoolItem(q, m) \in M!Pools
<1>1. q \in Seq(Models) /\ DOMAIN q = 1 .. Len(q) /\ Len(q) \in Nat /\ \A i, j \in 1 .. Len(q) : q[i] = q[j] => i = j
  BY DEF M!Pools, M!IsInjective
<1>2. CASE M!Contains(q, m)
  BY <1>2 DEF M!addPoolItem
<1>3. CASE ~M!Contains(q, m)
  <2> DEFINE a == Append(q, m)
  <2>1. \A i \in 1 .. Len(q) : q[i] # m
    BY <1>3 DEF M!Contains
  <2>2. a \in Seq(Models) /\ DOMAIN a = 1 .. Len(q) + 1 /\ a[Len(q) + 1] = m /\ \A i \in 1 .. Len(q) : a[i] = q[i]
    BY <1>1
  <2> HIDE DEF a
  <2>3. \A i \in 1 .. Len(q) + 1 : i \in 1 .. Len(q) \/ i = Len(q) + 1
    BY <1>1
  <2>4. ASSUME NEW i \in 1 .. Len(q) + 1, NEW j \in 1 .. Len(q) + 1, a[i] = a[j] PROVE i = j
    BY <1>1, <2>1, <2>2, <2>3, <2>4
  <2>5. a \in M!Pools
    BY <2>2, <2>4 DEF M!Pools, M!IsInjective
  <2> QED
    BY <1>3, <2>5 DEF M!addPoolItem, a
<1> QED
  BY <1>2, <1>3

\* What a drag, a removal or a click in the picker makes of a pool is one.
LEMMA PoolChanged ==
    ASSUME NEW q \in M!Pools, options \subseteq Models
    PROVE  M!PoolChanges(q) \subseteq M!Pools
<1>1. q \in Seq(Models) /\ DOMAIN q = 1 .. Len(q) /\ Len(q) \in Nat /\ \A i, j \in 1 .. Len(q) : q[i] = q[j] => i = j
  BY DEF M!Pools, M!IsInjective
<1>2. ASSUME NEW i \in 1 .. Len(q)
      PROVE  /\ M!RemoveAt(q, i) \in M!Pools /\ Len(M!RemoveAt(q, i)) = Len(q) - 1
             /\ \A k \in 1 .. Len(q) - 1 : M!RemoveAt(q, i)[k] # q[i]
  <2> DEFINE r == M!RemoveAt(q, i)
  <2>1. /\ r \in Seq(Models) /\ Len(r) = Len(q) - 1
        /\ \A k \in 1 .. Len(q) - 1 : r[k] = IF k < i THEN q[k] ELSE q[k + 1]
    BY <1>1, RemoveAtIs
  <2> HIDE DEF r
  <2>2. DOMAIN r = 1 .. Len(q) - 1
    BY <2>1
  <2>3. ASSUME NEW k \in 1 .. Len(q) - 1
        PROVE  /\ k \in Nat /\ k \in 1 .. Len(q) /\ k + 1 \in 1 .. Len(q) /\ i \in Nat
               /\ r[k] = IF k < i THEN q[k] ELSE q[k + 1]
    BY <1>1, <2>1
  <2>4. ASSUME NEW k \in 1 .. Len(q) - 1 PROVE r[k] # q[i]
    BY <1>1, <2>3
  <2>5. ASSUME NEW k \in 1 .. Len(q) - 1, NEW l \in 1 .. Len(q) - 1, r[k] = r[l] PROVE k = l
    <3>1. CASE k < i /\ l < i
      BY <1>1, <2>3, <2>5, <3>1
    <3>2. CASE ~(k < i) /\ ~(l < i)
      <4>1. q[k + 1] = q[l + 1]
        BY <2>3, <2>5, <3>2
      <4>2. k + 1 = l + 1
        BY <1>1, <2>3, <4>1
      <4> QED
        BY <2>3, <4>2
    <3>3. CASE k < i /\ ~(l < i)
      <4>1. q[k] = q[l + 1]
        BY <2>3, <2>5, <3>3
      <4>2. k = l + 1
        BY <1>1, <2>3, <4>1
      <4> QED
        BY <2>3, <3>3, <4>2
    <3>4. CASE ~(k < i) /\ l < i
      <4>1. q[k + 1] = q[l]
        BY <2>3, <2>5, <3>4
      <4>2. k + 1 = l
        BY <1>1, <2>3, <4>1
      <4> QED
        BY <2>3, <3>4, <4>2
    <3> QED
      BY <3>1, <3>2, <3>3, <3>4
  <2> QED
    BY <2>1, <2>2, <2>4, <2>5 DEF M!Pools, M!IsInjective, r
<1>3. ASSUME NEW i \in 1 .. Len(q), NEW j \in 1 .. Len(q) PROVE M!movePoolItem(q, i, j) \in M!Pools
  <2> DEFINE r == M!RemoveAt(q, i)
             e == q[i]
             m == M!InsertAt(r, j, e)
  <2>1. r \in M!Pools /\ Len(r) = Len(q) - 1 /\ \A k \in 1 .. Len(q) - 1 : r[k] # e
    BY <1>2
  <2>2. e \in Models /\ M!movePoolItem(q, i, j) = m
    BY <1>1 DEF M!movePoolItem
  <2> HIDE DEF r, e
  <2>3. r \in Seq(Models) /\ DOMAIN r = 1 .. Len(r) /\ \A k, l \in 1 .. Len(r) : r[k] = r[l] => k = l
    BY <2>1 DEF M!Pools, M!IsInjective
  <2>4. j \in 1 .. Len(r) + 1 /\ Len(r) + 1 = Len(q)
    BY <1>1, <2>1
  <2>5. /\ m \in Seq(Models) /\ Len(m) = Len(r) + 1
        /\ \A k \in 1 .. Len(r) + 1 : m[k] = IF k < j THEN r[k] ELSE IF k = j THEN e ELSE r[k - 1]
    <3>1. r \in Seq(Models) /\ j \in 1 .. Len(r) + 1 /\ e \in Models
      BY <2>2, <2>3, <2>4
    <3> QED
      BY <3>1, InsertAtIs
  <2> HIDE DEF m
  <2>6. DOMAIN m = 1 .. Len(q)
    BY <2>4, <2>5
  <2>7. ASSUME NEW k \in 1 .. Len(q)
        PROVE  /\ k \in Nat /\ j \in Nat /\ m[k] = IF k < j THEN r[k] ELSE IF k = j THEN e ELSE r[k - 1]
               /\ k < j => k \in 1 .. Len(r) /\ r[k] # e
               /\ k > j => k - 1 \in 1 .. Len(r) /\ r[k - 1] # e
    <3>1. k \in Nat /\ j \in Nat /\ Len(q) \in Nat /\ Len(r) = Len(q) - 1 /\ 1 <= j /\ j <= Len(q) /\ 1 <= k /\ k <= Len(q)
      BY <1>1, <2>1
    <3>2. k < j => k \in 1 .. Len(r)
      BY <3>1
    <3>3. k > j => k - 1 \in 1 .. Len(r)
      BY <3>1
    <3> QED
      BY <2>1, <2>4, <2>5, <3>1, <3>2, <3>3
  <2>9. m[j] = e
    BY <2>7
  <2>8. ASSUME NEW k \in 1 .. Len(q), NEW l \in 1 .. Len(q), m[k] = m[l] PROVE k = l
    <3>1. CASE k < j
      <4>1. m[k] = r[k] /\ m[k] # e
        BY <2>7, <3>1
      <4>2. CASE l < j
        BY <2>3, <2>7, <2>8, <3>1, <4>1, <4>2
      <4>3. CASE l = j
        BY <2>8, <2>9, <4>1, <4>3
      <4>4. CASE l > j
        <5>1. m[l] = r[l - 1] /\ l - 1 \in 1 .. Len(r) /\ k \in 1 .. Len(r)
          BY <2>7, <3>1, <4>4
        <5>2. k = l - 1
          BY <2>3, <2>8, <4>1, <5>1
        <5> QED
          BY <2>7, <3>1, <4>4, <5>2
      <4> QED
        BY <2>7, <4>2, <4>3, <4>4
    <3>2. CASE k = j
      BY <2>7, <2>8, <3>2
    <3>3. CASE k > j
      <4>1. m[k] = r[k - 1] /\ m[k] # e /\ k - 1 \in 1 .. Len(r)
        BY <2>7, <3>3
      <4>2. CASE l < j
        <5>1. m[l] = r[l] /\ l \in 1 .. Len(r)
          BY <2>7, <4>2
        <5>2. k - 1 = l
          BY <2>3, <2>8, <4>1, <5>1
        <5> QED
          BY <2>7, <3>3, <4>2, <5>2
      <4>3. CASE l = j
        BY <2>8, <2>9, <4>1, <4>3
      <4>4. CASE l > j
        <5>1. m[l] = r[l - 1] /\ l - 1 \in 1 .. Len(r)
          BY <2>7, <4>4
        <5>2. k - 1 = l - 1
          BY <2>3, <2>8, <4>1, <5>1
        <5> QED
          BY <2>7, <5>2
      <4> QED
        BY <2>7, <4>2, <4>3, <4>4
    <3> QED
      BY <2>7, <3>1, <3>2, <3>3
  <2> QED
    BY <2>2, <2>5, <2>6, <2>8 DEF M!Pools, M!IsInjective
<1>4. ASSUME NEW m \in Models PROVE M!addPoolItem(q, m) \in M!Pools
  BY <1>4, PoolGrows
<1> SUFFICES ASSUME NEW c \in M!PoolChanges(q) PROVE c \in M!Pools
  OBVIOUS
<1>5. \/ \E i, j \in 1 .. Len(q) : c = M!movePoolItem(q, i, j)
      \/ \E i \in 1 .. Len(q) : c = M!RemoveAt(q, i)
      \/ \E m \in Models : c = M!addPoolItem(q, m)
  BY <1>1 DEF M!PoolChanges
<1> QED
  BY <1>2, <1>3, <1>4, <1>5

\* The strategy of a user who has none
LEMMA DefaultTyped == M!ModelSettingsAssumption => M!DEFAULT_MODEL_STRATEGY \in M!ModelStrategy
<1> SUFFICES ASSUME M!ModelSettingsAssumption PROVE M!DEFAULT_MODEL_STRATEGY \in M!ModelStrategy
  OBVIOUS
<1>1. <<>> \in M!Pools
  BY DEF M!Pools, M!IsInjective
<1>2. [t \in Tiers |-> <<>>] \in [Tiers -> M!Pools]
  BY <1>1
<1>3. [f \in TaskFields |-> IF f = "chat" THEN DefaultTier ELSE FollowChat]
        \in [TaskFields -> Tiers \cup Models \cup {FollowChat}]
  BY DEF M!ModelSettingsAssumption
<1> QED
  BY <1>2, <1>3 DEF M!DEFAULT_MODEL_STRATEGY, M!ModelStrategy

\* A strategy of which one pool or one selection is replaced is one.
LEMMA StrategyEdited ==
    ASSUME NEW s \in M!ModelStrategy
    PROVE  /\ \A t \in Tiers, q \in M!Pools : [s EXCEPT !.pools[t] = q] \in M!ModelStrategy
           /\ \A f \in TaskFields, v \in Tiers \cup Models \cup {FollowChat} :
                [s EXCEPT !.routing[f] = v] \in M!ModelStrategy
<1>1. s.pools \in [Tiers -> M!Pools] /\ s.routing \in [TaskFields -> Tiers \cup Models \cup {FollowChat}]
  BY DEF M!ModelStrategy
<1>2. ASSUME NEW t \in Tiers, NEW q \in M!Pools PROVE [s EXCEPT !.pools[t] = q] \in M!ModelStrategy
  <2>1. [s.pools EXCEPT ![t] = q] \in [Tiers -> M!Pools]
    BY <1>1
  <2>2. [s EXCEPT !.pools[t] = q] = [pools |-> [s.pools EXCEPT ![t] = q], routing |-> s.routing]
    BY DEF M!ModelStrategy
  <2> QED
    BY <1>1, <2>1, <2>2 DEF M!ModelStrategy
<1>3. ASSUME NEW f \in TaskFields, NEW v \in Tiers \cup Models \cup {FollowChat}
      PROVE  [s EXCEPT !.routing[f] = v] \in M!ModelStrategy
  <2>1. [s.routing EXCEPT ![f] = v] \in [TaskFields -> Tiers \cup Models \cup {FollowChat}]
    BY <1>1
  <2>2. [s EXCEPT !.routing[f] = v] = [pools |-> s.pools, routing |-> [s.routing EXCEPT ![f] = v]]
    BY DEF M!ModelStrategy
  <2> QED
    BY <1>1, <2>1, <2>2 DEF M!ModelStrategy
<1> QED
  BY <1>2, <1>3

\* appendModelRefsToAllPools
LEMMA Appended ==
    ASSUME NEW s \in M!ModelStrategy, NEW m \in Models
    PROVE  M!appendModelRefsToAllPools(s, m) \in M!ModelStrategy
<1>1. s.pools \in [Tiers -> M!Pools] /\ s.routing \in [TaskFields -> Tiers \cup Models \cup {FollowChat}]
  BY DEF M!ModelStrategy
<1>2. [t \in Tiers |-> M!addPoolItem(s.pools[t], m)] \in [Tiers -> M!Pools]
  BY <1>1, PoolGrows
<1>3. M!appendModelRefsToAllPools(s, m) = [pools |-> [t \in Tiers |-> M!addPoolItem(s.pools[t], m)], routing |-> s.routing]
  BY DEF M!appendModelRefsToAllPools, M!ModelStrategy
<1> QED
  BY <1>1, <1>2, <1>3 DEF M!ModelStrategy

\* The models of a catalog as a pool
LEMMA CatalogAsPool ==
    ASSUME M!ModelSettingsAssumption, NEW c \in SUBSET Models
    PROVE  M!SetToSeq(c) \in M!Pools
<1>1. IsFiniteSet(c)
  <2>1. IsFiniteSet(Models)
    BY DEF M!ModelSettingsAssumption, M!IsFiniteSet, IsFiniteSet
  <2> QED
    BY <2>1, FS_Subset
<1>2. Cardinality(c) \in Nat /\ ExistsBijection(1 .. Cardinality(c), c)
  BY <1>1, FS_CardinalityType
<1>3. PICK f \in [1 .. Cardinality(c) -> c] : \A a, b \in 1 .. Cardinality(c) : f[a] = f[b] => a = b
  BY <1>2 DEF ExistsBijection, Bijection, Injection, IsInjective
<1>4. f \in [1 .. Cardinality(c) -> c] /\ M!IsInjective(f)
  BY <1>3 DEF M!IsInjective
<1>5. M!SetToSeq(c) \in [1 .. Cardinality(c) -> c] /\ M!IsInjective(M!SetToSeq(c))
  <2>1. M!Cardinality(c) = Cardinality(c)
    BY DEF M!Cardinality, Cardinality
  <2> QED
    BY <1>4, <2>1 DEF M!SetToSeq
<1>6. M!SetToSeq(c) \in Seq(Models)
  BY <1>2, <1>5
<1> QED
  BY <1>5, <1>6 DEF M!Pools

\* What the server answers, and what it stores for a user who has none
LEMMA StoredTyped ==
    ASSUME M!ModelSettingsAssumption, SettingsTypes
    PROVE  M!Stored \in M!ModelStrategy /\ NoStrategy \notin M!ModelStrategy /\ M!DEFAULT_MODEL_STRATEGY \in M!ModelStrategy
BY DefaultTyped DEF M!Stored, SettingsTypes, M!ModelSettingsAssumption

-----------------------------------------------------------------------------
(* The saves under way.                                                    *)

\* A save that is sent has the next number and, unless it was disturbed, every edit.
LEMMA SaveSent ==
    ASSUME SettingsTypes, LastPutHasAll, NEW s \in M!ModelStrategy, puts' = M!WithPut(s),
           past'.issued = past.issued + 1, M!Undisturbed' => s = past'.wish
    PROVE  puts' \in Seq(Saves) /\ puts' # <<>> /\ LastPutHasAll'
<1> DEFINE n == [no |-> past.issued + 1, value |-> s]
<1>1. past.issued \in Nat /\ puts \in Seq(Saves) /\ Len(puts) \in Nat /\ DOMAIN puts = 1 .. Len(puts)
  BY DEF SettingsTypes, Saves, Pasts
<1>2. n \in Saves
  BY <1>1 DEF Saves
<1>3. puts' = Append(puts, n)
  BY DEF M!WithPut
<1> HIDE DEF n
<1>4. /\ puts' \in Seq(Saves) /\ DOMAIN puts' = 1 .. Len(puts) + 1 /\ puts' # <<>>
      /\ puts'[Len(puts) + 1] = n /\ \A i \in 1 .. Len(puts) : puts'[i] = puts[i]
  BY <1>1, <1>2, <1>3
<1>5. n.no = past'.issued /\ n.value = s
  BY DEF n
<1>6. ASSUME NEW i \in DOMAIN puts'
      PROVE  /\ puts'[i].no <= past'.issued
             /\ M!Undisturbed' /\ timer' # "armed" /\ puts'[i].no = past'.issued => puts'[i].value = past'.wish
  <2>1. CASE i = Len(puts) + 1
    BY <1>1, <1>4, <1>5, <2>1
  <2>2. CASE i # Len(puts) + 1
    <3>1. i \in 1 .. Len(puts)
      BY <1>1, <1>4, <2>2
    <3>2. puts[i] \in Saves /\ puts[i].no <= past.issued
      BY <1>1, <3>1 DEF LastPutHasAll
    <3>3. puts[i].no \in Nat
      BY <3>2 DEF Saves
    <3> QED
      BY <1>1, <1>4, <3>1, <3>2, <3>3
  <2> QED
    BY <2>1, <2>2
<1> QED
  BY <1>4, <1>6 DEF LastPutHasAll

\* One save less, and the others stay what they were.
LEMMA SaveGone ==
    ASSUME SettingsTypes, NEW i \in DOMAIN puts, puts' = M!RemoveAt(puts, i)
    PROVE  /\ puts' \in Seq(Saves)
           /\ \A k \in DOMAIN puts' : \E j \in DOMAIN puts : puts'[k] = puts[j]
           /\ puts[i].no \in Nat /\ puts[i].value \in M!ModelStrategy
<1>1. puts \in Seq(Saves) /\ DOMAIN puts = 1 .. Len(puts) /\ Len(puts) \in Nat
  BY DEF SettingsTypes, Saves
<1>2. /\ puts' \in Seq(Saves) /\ Len(puts') = Len(puts) - 1
      /\ \A k \in 1 .. Len(puts) - 1 : puts'[k] = IF k < i THEN puts[k] ELSE puts[k + 1]
  BY <1>1, RemoveAtIs
<1>3. ASSUME NEW k \in DOMAIN puts' PROVE \E j \in DOMAIN puts : puts'[k] = puts[j]
  <2>1. k \in 1 .. Len(puts) - 1
    BY <1>2
  <2>2. k \in DOMAIN puts /\ k + 1 \in DOMAIN puts
    BY <1>1, <2>1
  <2> QED
    BY <1>2, <2>1, <2>2
<1>4. puts[i] \in Saves
  BY <1>1
<1> QED
  BY <1>2, <1>3, <1>4 DEF Saves

-----------------------------------------------------------------------------
(* What the page remembers.                                                *)

\* One more save
LEMMA OneMore ==
    ASSUME NEW p \in Pasts
    PROVE  /\ M!Issued(p) \in Pasts /\ M!Issued(p).issued = p.issued + 1
           /\ M!Issued(p).wish = p.wish /\ M!Issued(p).applied = p.applied
           /\ M!Issued(p).crossed = p.crossed /\ M!Issued(p).rival = p.rival
BY DEF M!Issued, Pasts

-----------------------------------------------------------------------------
(* Each action keeps the invariant.                                        *)

\* A save that was waiting for its 600 ms has every edit.
LEMMA TimerFiresKeeps ==
    ASSUME M!ModelSettingsAssumption, SettingsInd, M!TimerFires
    PROVE  SettingsInd'
<1>1. SettingsTypes /\ PageWhole /\ SeedIsAlone /\ M!ScreenKeepsEdits /\ LastPutHasAll /\ ServerHasAll /\ LoadIsFresh
  BY DEF SettingsInd
<1>2. NoStrategy \notin M!ModelStrategy /\ M!Stored \in M!ModelStrategy /\ M!DEFAULT_MODEL_STRATEGY \in M!ModelStrategy
  BY <1>1, StoredTyped
<1>3. /\ timer = "armed" /\ timer' = "none" /\ pendingPoolsSave' = NoStrategy /\ mounted /\ draft # NoStrategy
      /\ pendingPoolsSave \in M!ModelStrategy /\ puts' = M!WithPut(pendingPoolsSave)
      /\ past' \in Pasts /\ past'.issued = past.issued + 1
      /\ past'.wish = past.wish /\ past'.applied = past.applied /\ past'.crossed = past.crossed /\ past'.rival = past.rival
      /\ UNCHANGED <<M!server, mounted, options, draft, load, expelled>>
  BY <1>1, OneMore DEF M!TimerFires, SettingsTypes, PageWhole
<1>4. puts' \in Seq(Saves) /\ LastPutHasAll'
  BY <1>3, <1>1, SaveSent DEF M!ScreenKeepsEdits, M!Undisturbed
<1>5. SettingsTypes'
  BY <1>3, <1>1, <1>4 DEF M!server, SettingsTypes
<1>6. PageWhole'
  BY <1>3, <1>1 DEF M!server, PageWhole
<1>7. SeedIsAlone'
  BY <1>3, <1>1 DEF M!server, SeedIsAlone
<1>8. M!ScreenKeepsEdits'
  BY <1>3, <1>1 DEF M!ScreenKeepsEdits, M!Undisturbed
<1>9. LastPutHasAll'
  BY <1>4
<1>10. ServerHasAll'
  BY <1>3, <1>1 DEF ServerHasAll, SettingsTypes, Pasts
<1>11. LoadIsFresh'
  BY <1>3, <1>1 DEF LoadIsFresh, M!Undisturbed
<1> QED
  BY <1>5, <1>6, <1>7, <1>8, <1>9, <1>10, <1>11 DEF SettingsInd

\* What is stored when the page is opened is what the user means.
LEMMA OpenKeeps ==
    ASSUME M!ModelSettingsAssumption, SettingsInd, M!Open
    PROVE  SettingsInd'
<1>1. SettingsTypes /\ PageWhole /\ SeedIsAlone /\ M!ScreenKeepsEdits /\ LastPutHasAll /\ ServerHasAll /\ LoadIsFresh
  BY DEF SettingsInd
<1>2. NoStrategy \notin M!ModelStrategy /\ M!Stored \in M!ModelStrategy /\ M!DEFAULT_MODEL_STRATEGY \in M!ModelStrategy
  BY <1>1, StoredTyped
<1>3. /\ ~mounted /\ mounted' = TRUE /\ load' = [M!NoLoad EXCEPT !.step = "sent"] /\ draft = NoStrategy /\ timer = "none"
      /\ UNCHANGED <<M!server, options, draft, timer, pendingPoolsSave, puts, expelled>>
      /\ past' \in Pasts
      /\ \/ puts # <<>> /\ past' = past
         \/ /\ puts = <<>> /\ past'.wish = M!Stored /\ past'.applied = past'.issued /\ ~past'.crossed
            /\ past'.rival = (seed # NoStrategy \/ reader)
  BY <1>2, <1>1 DEF M!Open, PageWhole, SettingsTypes, Pasts
<1>4. SettingsTypes'
  <2>1. load' \in Loads /\ load'.step = "sent"
    BY <1>3 DEF M!NoLoad, Loads
  <2> QED
    BY <1>3, <1>1, <2>1 DEF M!server, SettingsTypes
<1>5. PageWhole'
  BY <1>3, <1>1 DEF M!server, PageWhole, M!NoLoad
<1>6. SeedIsAlone'
  BY <1>3, <1>1 DEF M!server, SeedIsAlone
<1>7. M!ScreenKeepsEdits'
  BY <1>3 DEF M!ScreenKeepsEdits
<1>8. LastPutHasAll'
  BY <1>3, <1>1 DEF LastPutHasAll, M!Undisturbed
<1>9. ServerHasAll'
  BY <1>3, <1>1 DEF ServerHasAll, Pasts, M!server, M!Stored, M!Undisturbed
<1>10. LoadIsFresh'
  BY <1>3 DEF LoadIsFresh, M!NoLoad
<1> QED
  BY <1>4, <1>5, <1>6, <1>7, <1>8, <1>9, <1>10 DEF SettingsInd

\* Leaving the page sends what was waiting.
LEMMA LeaveKeeps ==
    ASSUME M!ModelSettingsAssumption, SettingsInd, M!Leave
    PROVE  SettingsInd'
<1>1. SettingsTypes /\ PageWhole /\ SeedIsAlone /\ M!ScreenKeepsEdits /\ LastPutHasAll /\ ServerHasAll /\ LoadIsFresh
  BY DEF SettingsInd
<1>2. NoStrategy \notin M!ModelStrategy /\ M!Stored \in M!ModelStrategy /\ M!DEFAULT_MODEL_STRATEGY \in M!ModelStrategy
  BY <1>1, StoredTyped
<1>3. /\ mounted /\ mounted' = FALSE /\ options' = {} /\ draft' = NoStrategy /\ load' = M!NoLoad /\ timer' = "none"
      /\ pendingPoolsSave' = NoStrategy /\ expelled' = FALSE /\ UNCHANGED M!server
      /\ past' \in Pasts
      /\ past'.wish = past.wish /\ past'.applied = past.applied /\ past'.crossed = past.crossed /\ past'.rival = past.rival
      /\ \/ timer = "none" /\ UNCHANGED <<puts, past>>
         \/ /\ timer # "none" /\ draft \in M!ModelStrategy /\ draft # NoStrategy
            /\ puts' = M!WithPut(draft) /\ past'.issued = past.issued + 1
  <2>1. past \in Pasts
    BY <1>1 DEF SettingsTypes
  <2>2. mounted
    BY <1>2, <1>1 DEF M!Leave, PageWhole, SettingsTypes
  <2> QED
    BY <1>1, <2>1, <2>2, OneMore DEF M!Leave, M!Unmounted, SettingsTypes, PageWhole
<1>4. puts' \in Seq(Saves) /\ LastPutHasAll'
  <2>1. CASE timer = "none"
    BY <1>3, <1>1, <2>1 DEF SettingsTypes, LastPutHasAll, M!Undisturbed
  <2>2. CASE timer # "none"
    <3>1. /\ draft \in M!ModelStrategy /\ draft # NoStrategy /\ puts' = M!WithPut(draft) /\ past'.issued = past.issued + 1
      BY <1>3, <2>2
    <3>2. M!Undisturbed' => draft = past'.wish
      BY <1>3, <1>1, <3>1 DEF M!ScreenKeepsEdits, M!Undisturbed
    <3> QED
      BY <1>1, <3>1, <3>2, SaveSent
  <2> QED
    BY <2>1, <2>2
<1>5. SettingsTypes'
  <2>1. load' \in Loads /\ load'.step = "none"
    BY <1>3 DEF M!NoLoad, Loads
  <2> QED
    BY <1>3, <1>1, <1>4, <2>1 DEF M!server, SettingsTypes
<1>6. PageWhole'
  BY <1>3, <1>1 DEF M!server, PageWhole, M!NoLoad
<1>7. SeedIsAlone'
  BY <1>3, <1>1 DEF M!server, SeedIsAlone
<1>8. M!ScreenKeepsEdits'
  BY <1>3 DEF M!ScreenKeepsEdits
<1>9. LastPutHasAll'
  BY <1>4
<1>10. ServerHasAll'
  BY <1>3, <1>1 DEF ServerHasAll, SettingsTypes, Pasts, M!server, M!Stored, M!Undisturbed
<1>11. LoadIsFresh'
  BY <1>3 DEF LoadIsFresh, M!NoLoad
<1> QED
  BY <1>5, <1>6, <1>7, <1>8, <1>9, <1>10, <1>11 DEF SettingsInd

\* After a refreshed token the last save is not one of those sent.
LEMMA TokenRefreshedKeeps ==
    ASSUME M!ModelSettingsAssumption, SettingsInd, M!TokenRefreshed
    PROVE  SettingsInd'
<1>1. SettingsTypes /\ PageWhole /\ SeedIsAlone /\ M!ScreenKeepsEdits /\ LastPutHasAll /\ ServerHasAll /\ LoadIsFresh
  BY DEF SettingsInd
<1>2. NoStrategy \notin M!ModelStrategy /\ M!Stored \in M!ModelStrategy /\ M!DEFAULT_MODEL_STRATEGY \in M!ModelStrategy
  BY <1>1, StoredTyped
<1>3. /\ load' = [M!NoLoad EXCEPT !.step = "sent"] /\ pendingPoolsSave' = NoStrategy /\ mounted
      /\ UNCHANGED <<M!server, mounted, options, draft, puts>> /\ expelled' \in BOOLEAN
      /\ past' \in Pasts /\ past'.wish = past.wish /\ past'.applied = past.applied /\ past'.crossed = past.crossed /\ past'.rival = past.rival
      /\ \/ timer = "none" /\ UNCHANGED <<timer, past>>
         \/ timer # "none" /\ timer' = "spent" /\ past'.issued = past.issued + 1
  BY <1>1, OneMore DEF M!TokenRefreshed, SettingsTypes
<1>4. SettingsTypes'
  <2>1. load' \in Loads /\ load'.step = "sent"
    BY <1>3 DEF M!NoLoad, Loads
  <2> QED
    BY <1>3, <1>1, <2>1 DEF M!server, SettingsTypes
<1>5. PageWhole'
  BY <1>3, <1>1 DEF M!server, PageWhole, M!NoLoad
<1>6. SeedIsAlone'
  BY <1>3, <1>1 DEF M!server, SeedIsAlone
<1>7. M!ScreenKeepsEdits'
  BY <1>3, <1>1 DEF M!ScreenKeepsEdits, M!Undisturbed
<1>8. LastPutHasAll'
  <2>1. CASE timer = "none" /\ UNCHANGED <<timer, past>>
    BY <1>3, <1>1, <2>1 DEF LastPutHasAll, M!Undisturbed
  <2>2. CASE past'.issued = past.issued + 1
    <3> SUFFICES ASSUME NEW i \in DOMAIN puts PROVE puts[i].no <= past'.issued /\ puts[i].no # past'.issued
      BY <1>3 DEF LastPutHasAll
    <3>1. puts[i] \in Saves /\ puts[i].no <= past.issued
      BY <1>1 DEF SettingsTypes, LastPutHasAll
    <3> QED
      BY <1>1, <2>2, <3>1 DEF SettingsTypes, Saves, Pasts
  <2> QED
    BY <1>3, <2>1, <2>2
<1>9. ServerHasAll'
  BY <1>3, <1>1 DEF ServerHasAll, SettingsTypes, Pasts, M!server, M!Stored, M!Undisturbed
<1>10. LoadIsFresh'
  BY <1>3 DEF LoadIsFresh, M!NoLoad
<1> QED
  BY <1>4, <1>5, <1>6, <1>7, <1>8, <1>9, <1>10 DEF SettingsInd

\* A logout leaves the page like the user does.
LEMMA LoggedOutKeeps ==
    ASSUME M!ModelSettingsAssumption, SettingsInd, M!LoggedOut
    PROVE  SettingsInd'
<1>1. SettingsTypes /\ PageWhole /\ SeedIsAlone /\ M!ScreenKeepsEdits /\ LastPutHasAll /\ ServerHasAll /\ LoadIsFresh
  BY DEF SettingsInd
<1>2. NoStrategy \notin M!ModelStrategy /\ M!Stored \in M!ModelStrategy /\ M!DEFAULT_MODEL_STRATEGY \in M!ModelStrategy
  BY <1>1, StoredTyped
<1>3. /\ mounted /\ mounted' = FALSE /\ options' = {} /\ draft' = NoStrategy /\ load' = M!NoLoad /\ timer' = "none"
      /\ pendingPoolsSave' = NoStrategy /\ expelled' = FALSE /\ UNCHANGED M!server
      /\ past' \in Pasts
      /\ past'.wish = past.wish /\ past'.applied = past.applied /\ past'.crossed = past.crossed /\ past'.rival = past.rival
      /\ \/ timer = "none" /\ UNCHANGED <<puts, past>>
         \/ /\ timer # "none" /\ draft \in M!ModelStrategy /\ draft # NoStrategy
            /\ puts' = M!WithPut(draft) /\ past'.issued = past.issued + 1
  <2>1. past \in Pasts
    BY <1>1 DEF SettingsTypes
  <2>2. mounted
    BY <1>2, <1>1 DEF M!LoggedOut, PageWhole, SettingsTypes
  <2> QED
    BY <1>1, <2>1, <2>2, OneMore DEF M!LoggedOut, M!Unmounted, SettingsTypes, PageWhole
<1>4. puts' \in Seq(Saves) /\ LastPutHasAll'
  <2>1. CASE timer = "none"
    BY <1>3, <1>1, <2>1 DEF SettingsTypes, LastPutHasAll, M!Undisturbed
  <2>2. CASE timer # "none"
    <3>1. /\ draft \in M!ModelStrategy /\ draft # NoStrategy /\ puts' = M!WithPut(draft) /\ past'.issued = past.issued + 1
      BY <1>3, <2>2
    <3>2. M!Undisturbed' => draft = past'.wish
      BY <1>3, <1>1, <3>1 DEF M!ScreenKeepsEdits, M!Undisturbed
    <3> QED
      BY <1>1, <3>1, <3>2, SaveSent
  <2> QED
    BY <2>1, <2>2
<1>5. SettingsTypes'
  <2>1. load' \in Loads /\ load'.step = "none"
    BY <1>3 DEF M!NoLoad, Loads
  <2> QED
    BY <1>3, <1>1, <1>4, <2>1 DEF M!server, SettingsTypes
<1>6. PageWhole'
  BY <1>3, <1>1 DEF M!server, PageWhole, M!NoLoad
<1>7. SeedIsAlone'
  BY <1>3, <1>1 DEF M!server, SeedIsAlone
<1>8. M!ScreenKeepsEdits'
  BY <1>3 DEF M!ScreenKeepsEdits
<1>9. LastPutHasAll'
  BY <1>4
<1>10. ServerHasAll'
  BY <1>3, <1>1 DEF ServerHasAll, SettingsTypes, Pasts, M!server, M!Stored, M!Undisturbed
<1>11. LoadIsFresh'
  BY <1>3 DEF LoadIsFresh, M!NoLoad
<1> QED
  BY <1>5, <1>6, <1>7, <1>8, <1>9, <1>10, <1>11 DEF SettingsInd

\* A read that fails changes nothing.
LEMMA LoadFailsKeeps ==
    ASSUME M!ModelSettingsAssumption, SettingsInd, M!LoadFails
    PROVE  SettingsInd'
<1>1. SettingsTypes /\ PageWhole /\ SeedIsAlone /\ M!ScreenKeepsEdits /\ LastPutHasAll /\ ServerHasAll /\ LoadIsFresh
  BY DEF SettingsInd
<1>2. NoStrategy \notin M!ModelStrategy /\ M!Stored \in M!ModelStrategy /\ M!DEFAULT_MODEL_STRATEGY \in M!ModelStrategy
  BY <1>1, StoredTyped
<1>3. /\ load' = M!NoLoad
      /\ UNCHANGED <<M!server, mounted, options, draft, timer, pendingPoolsSave, puts, expelled, past>>
  BY DEF M!LoadFails
<1>4. SettingsTypes'
  <2>1. load' \in Loads /\ load'.step = "none"
    BY <1>3 DEF M!NoLoad, Loads
  <2> QED
    BY <1>3, <1>1, <2>1 DEF M!server, SettingsTypes
<1>5. PageWhole'
  BY <1>3, <1>1 DEF M!server, PageWhole, M!NoLoad
<1>6. SeedIsAlone'
  BY <1>1, <1>2, <1>3 DEF M!LoadFails, M!server, M!page, SettingsTypes, Pasts, Loads,
        PageWhole, SeedIsAlone, M!Undisturbed
<1>7. M!ScreenKeepsEdits'
  BY <1>1, <1>2, <1>3 DEF M!LoadFails, M!server, M!page, SettingsTypes, Pasts, Loads,
        PageWhole, M!ScreenKeepsEdits, M!Undisturbed
<1>8. LastPutHasAll'
  BY <1>1, <1>2, <1>3 DEF M!LoadFails, M!server, M!page, SettingsTypes, Pasts, Loads,
        PageWhole, LastPutHasAll, M!Undisturbed
<1>9. ServerHasAll'
  BY <1>1, <1>2, <1>3 DEF M!LoadFails, M!server, M!page, SettingsTypes, Pasts, Loads,
        PageWhole, ServerHasAll, M!Undisturbed, M!Stored
<1>10. LoadIsFresh'
  BY <1>3 DEF LoadIsFresh, M!NoLoad
<1> QED
  BY <1>4, <1>5, <1>6, <1>7, <1>8, <1>9, <1>10 DEF SettingsInd

\* An answer that nothing crossed shows what the user means.
LEMMA LoadAnsweredKeeps ==
    ASSUME M!ModelSettingsAssumption, SettingsInd, M!LoadAnswered
    PROVE  SettingsInd'
<1>1. SettingsTypes /\ PageWhole /\ SeedIsAlone /\ M!ScreenKeepsEdits /\ LastPutHasAll /\ ServerHasAll /\ LoadIsFresh
  BY DEF SettingsInd
<1>2. NoStrategy \notin M!ModelStrategy /\ M!Stored \in M!ModelStrategy /\ M!DEFAULT_MODEL_STRATEGY \in M!ModelStrategy
  BY <1>1, StoredTyped
<1>3. /\ load.step = "answered" /\ draft' = load.value /\ options' = load.options /\ load' = M!NoLoad
      /\ load.value \in M!ModelStrategy /\ load \in Loads /\ mounted
      /\ past' \in Pasts /\ past'.crossed = (past.crossed \/ load.crossed) /\ past'.wish = past.wish
      /\ past'.issued = past.issued /\ past'.applied = past.applied /\ past'.rival = past.rival
      /\ UNCHANGED <<M!server, mounted, timer, pendingPoolsSave, puts, expelled>>
  BY <1>1 DEF M!LoadAnswered, SettingsTypes, PageWhole, Pasts, Loads
<1>4. SettingsTypes'
  <2>1. load' \in Loads /\ load'.step = "none"
    BY <1>3 DEF M!NoLoad, Loads
  <2>2. options' \subseteq Models
    BY <1>3 DEF Loads
  <2> QED
    BY <1>3, <1>1, <2>1, <2>2 DEF M!server, SettingsTypes
<1>5. PageWhole'
  BY <1>2, <1>3, <1>1 DEF M!server, PageWhole, M!NoLoad
<1>6. SeedIsAlone'
  BY <1>3, <1>1 DEF M!server, SeedIsAlone
<1>7. M!ScreenKeepsEdits'
  BY <1>3, <1>1 DEF M!ScreenKeepsEdits, LoadIsFresh, M!Undisturbed
<1>8. LastPutHasAll'
  BY <1>3, <1>1 DEF LastPutHasAll, M!Undisturbed
<1>9. ServerHasAll'
  BY <1>3, <1>1 DEF ServerHasAll, M!server, M!Stored, M!Undisturbed
<1>10. LoadIsFresh'
  BY <1>3 DEF LoadIsFresh, M!NoLoad
<1> QED
  BY <1>4, <1>5, <1>6, <1>7, <1>8, <1>9, <1>10 DEF SettingsInd

\* The server reads what the user means unless an edit or a save is on its way.
LEMMA ReadForPageKeeps ==
    ASSUME M!ModelSettingsAssumption, SettingsInd, M!ReadForPage
    PROVE  SettingsInd'
<1>1. SettingsTypes /\ PageWhole /\ SeedIsAlone /\ M!ScreenKeepsEdits /\ LastPutHasAll /\ ServerHasAll /\ LoadIsFresh
  BY DEF SettingsInd
<1>2. NoStrategy \notin M!ModelStrategy /\ M!Stored \in M!ModelStrategy /\ M!DEFAULT_MODEL_STRATEGY \in M!ModelStrategy
  BY <1>1, StoredTyped
<1>3. SettingsTypes'
  BY <1>1, <1>2 DEF M!ReadForPage, M!server, M!page, SettingsTypes, Pasts, Loads, PageWhole
<1>4. PageWhole'
  BY <1>1, <1>2 DEF M!ReadForPage, M!server, M!page, SettingsTypes, Pasts, Loads, PageWhole
<1>5. SeedIsAlone'
  BY <1>1, <1>2 DEF M!ReadForPage, M!server, M!page, SettingsTypes, Pasts, Loads,
        PageWhole, SeedIsAlone, M!Undisturbed
<1>6. M!ScreenKeepsEdits'
  BY <1>1, <1>2 DEF M!ReadForPage, M!server, M!page, SettingsTypes, Pasts, Loads,
        PageWhole, M!ScreenKeepsEdits, M!Undisturbed
<1>7. LastPutHasAll'
  BY <1>1, <1>2 DEF M!ReadForPage, M!server, M!page, SettingsTypes, Pasts, Loads,
        PageWhole, LastPutHasAll, M!Undisturbed
<1>8. ServerHasAll'
  BY <1>1, <1>2 DEF M!ReadForPage, M!server, M!page, SettingsTypes, Pasts, Loads,
        PageWhole, ServerHasAll, M!Undisturbed, M!Stored
<1>9. LoadIsFresh'
  <2>1. /\ load'.step \in {"storing", "answered"} /\ load'.value = M!Stored
        /\ ~load'.crossed => timer # "armed" /\ past.applied = past.issued
        /\ UNCHANGED <<past, timer>>
    BY DEF M!ReadForPage
  <2> QED
    BY <1>1, <2>1 DEF LoadIsFresh, ServerHasAll, M!Undisturbed
<1> QED
  BY <1>3, <1>4, <1>5, <1>6, <1>7, <1>8, <1>9 DEF SettingsInd

\* The default that a read of the page stores is no rival where there was nothing.
LEMMA StoreForPageKeeps ==
    ASSUME M!ModelSettingsAssumption, SettingsInd, M!StoreForPage
    PROVE  SettingsInd'
<1>1. SettingsTypes /\ PageWhole /\ SeedIsAlone /\ M!ScreenKeepsEdits /\ LastPutHasAll /\ ServerHasAll /\ LoadIsFresh
  BY DEF SettingsInd
<1>2. NoStrategy \notin M!ModelStrategy /\ M!Stored \in M!ModelStrategy /\ M!DEFAULT_MODEL_STRATEGY \in M!ModelStrategy
  BY <1>1, StoredTyped
<1>3. SettingsTypes'
  BY <1>1, <1>2 DEF M!StoreForPage, M!StoresDefault, M!server, M!page, SettingsTypes,
        Pasts, Loads, PageWhole
<1>4. PageWhole'
  BY <1>1, <1>2 DEF M!StoreForPage, M!StoresDefault, M!server, M!page, SettingsTypes,
        Pasts, Loads, PageWhole
<1>5. SeedIsAlone'
  BY <1>1, <1>2 DEF M!StoreForPage, M!StoresDefault, M!server, M!page, SettingsTypes,
        Pasts, Loads, PageWhole, SeedIsAlone, M!Undisturbed
<1>6. M!ScreenKeepsEdits'
  BY <1>1, <1>2 DEF M!StoreForPage, M!StoresDefault, M!server, M!page, SettingsTypes,
        Pasts, Loads, PageWhole, M!ScreenKeepsEdits, M!Undisturbed
<1>7. LastPutHasAll'
  BY <1>1, <1>2 DEF M!StoreForPage, M!StoresDefault, M!server, M!page, SettingsTypes,
        Pasts, Loads, PageWhole, LastPutHasAll, M!Undisturbed
<1>8. ServerHasAll'
  BY <1>1, <1>2 DEF M!StoreForPage, M!StoresDefault, M!server, M!page, SettingsTypes,
        Pasts, Loads, PageWhole, ServerHasAll, M!Undisturbed, M!Stored
<1>9. LoadIsFresh'
  BY <1>1, <1>2 DEF M!StoreForPage, M!StoresDefault, M!server, M!page, SettingsTypes,
        Pasts, Loads, PageWhole, LoadIsFresh, M!Undisturbed, M!Stored
<1> QED
  BY <1>3, <1>4, <1>5, <1>6, <1>7, <1>8, <1>9 DEF SettingsInd

\* Another read only looks.
LEMMA ReadForChatKeeps ==
    ASSUME M!ModelSettingsAssumption, SettingsInd, M!ReadForChat
    PROVE  SettingsInd'
<1>1. SettingsTypes /\ PageWhole /\ SeedIsAlone /\ M!ScreenKeepsEdits /\ LastPutHasAll /\ ServerHasAll /\ LoadIsFresh
  BY DEF SettingsInd
<1>2. NoStrategy \notin M!ModelStrategy /\ M!Stored \in M!ModelStrategy /\ M!DEFAULT_MODEL_STRATEGY \in M!ModelStrategy
  BY <1>1, StoredTyped
<1>3. SettingsTypes'
  BY <1>1, <1>2 DEF M!ReadForChat, M!server, M!page, SettingsTypes, Pasts, Loads, PageWhole
<1>4. PageWhole'
  BY <1>1, <1>2 DEF M!ReadForChat, M!server, M!page, SettingsTypes, Pasts, Loads, PageWhole
<1>5. SeedIsAlone'
  BY <1>1, <1>2 DEF M!ReadForChat, M!server, M!page, SettingsTypes, Pasts, Loads,
        PageWhole, SeedIsAlone, M!Undisturbed
<1>6. M!ScreenKeepsEdits'
  BY <1>1, <1>2 DEF M!ReadForChat, M!server, M!page, SettingsTypes, Pasts, Loads,
        PageWhole, M!ScreenKeepsEdits, M!Undisturbed
<1>7. LastPutHasAll'
  BY <1>1, <1>2 DEF M!ReadForChat, M!server, M!page, SettingsTypes, Pasts, Loads,
        PageWhole, LastPutHasAll, M!Undisturbed
<1>8. ServerHasAll'
  BY <1>1, <1>2 DEF M!ReadForChat, M!server, M!page, SettingsTypes, Pasts, Loads,
        PageWhole, ServerHasAll, M!Undisturbed, M!Stored
<1>9. LoadIsFresh'
  BY <1>1, <1>2 DEF M!ReadForChat, M!server, M!page, SettingsTypes, Pasts, Loads,
        PageWhole, LoadIsFresh, M!Undisturbed, M!Stored
<1> QED
  BY <1>3, <1>4, <1>5, <1>6, <1>7, <1>8, <1>9 DEF SettingsInd

\* The default that another read stores is no rival where there was nothing.
LEMMA StoreForChatKeeps ==
    ASSUME M!ModelSettingsAssumption, SettingsInd, M!StoreForChat
    PROVE  SettingsInd'
<1>1. SettingsTypes /\ PageWhole /\ SeedIsAlone /\ M!ScreenKeepsEdits /\ LastPutHasAll /\ ServerHasAll /\ LoadIsFresh
  BY DEF SettingsInd
<1>2. NoStrategy \notin M!ModelStrategy /\ M!Stored \in M!ModelStrategy /\ M!DEFAULT_MODEL_STRATEGY \in M!ModelStrategy
  BY <1>1, StoredTyped
<1>3. SettingsTypes'
  BY <1>1, <1>2 DEF M!StoreForChat, M!StoresDefault, M!server, M!page, SettingsTypes,
        Pasts, Loads, PageWhole
<1>4. PageWhole'
  BY <1>1, <1>2 DEF M!StoreForChat, M!StoresDefault, M!server, M!page, SettingsTypes,
        Pasts, Loads, PageWhole
<1>5. SeedIsAlone'
  BY <1>1, <1>2 DEF M!StoreForChat, M!StoresDefault, M!server, M!page, SettingsTypes,
        Pasts, Loads, PageWhole, SeedIsAlone, M!Undisturbed
<1>6. M!ScreenKeepsEdits'
  BY <1>1, <1>2 DEF M!StoreForChat, M!StoresDefault, M!server, M!page, SettingsTypes,
        Pasts, Loads, PageWhole, M!ScreenKeepsEdits, M!Undisturbed
<1>7. LastPutHasAll'
  BY <1>1, <1>2 DEF M!StoreForChat, M!StoresDefault, M!server, M!page, SettingsTypes,
        Pasts, Loads, PageWhole, LastPutHasAll, M!Undisturbed
<1>8. ServerHasAll'
  BY <1>1, <1>2 DEF M!StoreForChat, M!StoresDefault, M!server, M!page, SettingsTypes,
        Pasts, Loads, PageWhole, ServerHasAll, M!Undisturbed, M!Stored
<1>9. LoadIsFresh'
  BY <1>1, <1>2 DEF M!StoreForChat, M!StoresDefault, M!server, M!page, SettingsTypes,
        Pasts, Loads, PageWhole, LoadIsFresh, M!Undisturbed, M!Stored
<1> QED
  BY <1>3, <1>4, <1>5, <1>6, <1>7, <1>8, <1>9 DEF SettingsInd

\* A seeding that begins beside the page is its rival.
LEMMA SeedReadsKeeps ==
    ASSUME M!ModelSettingsAssumption, SettingsInd, NEW m \in Models, M!SeedReads(m)
    PROVE  SettingsInd'
<1>1. SettingsTypes /\ PageWhole /\ SeedIsAlone /\ M!ScreenKeepsEdits /\ LastPutHasAll /\ ServerHasAll /\ LoadIsFresh
  BY DEF SettingsInd
<1>2. NoStrategy \notin M!ModelStrategy /\ M!Stored \in M!ModelStrategy /\ M!DEFAULT_MODEL_STRATEGY \in M!ModelStrategy
  BY <1>1, StoredTyped
<1>3. SettingsTypes'
  BY <1>1, <1>2 DEF M!SeedReads, M!server, M!page, SettingsTypes, Pasts, Loads, PageWhole
<1>4. PageWhole'
  BY <1>1, <1>2 DEF M!SeedReads, M!server, M!page, SettingsTypes, Pasts, Loads, PageWhole
<1>5. SeedIsAlone'
  <2>1. /\ seed' = [value |-> M!Stored, base |-> strategy, model |-> m]
        /\ past'.rival = (past.rival \/ mounted \/ puts # <<>>) /\ UNCHANGED <<mounted, puts>>
    BY <1>1 DEF M!SeedReads, M!page, SettingsTypes, Pasts
  <2> QED
    BY <2>1 DEF SeedIsAlone, M!Stored
<1>6. M!ScreenKeepsEdits'
  BY <1>1, <1>2 DEF M!SeedReads, M!server, M!page, SettingsTypes, Pasts, Loads,
        PageWhole, M!ScreenKeepsEdits, M!Undisturbed
<1>7. LastPutHasAll'
  BY <1>1, <1>2 DEF M!SeedReads, M!server, M!page, SettingsTypes, Pasts, Loads,
        PageWhole, LastPutHasAll, M!Undisturbed
<1>8. ServerHasAll'
  BY <1>1, <1>2 DEF M!SeedReads, M!server, M!page, SettingsTypes, Pasts, Loads,
        PageWhole, ServerHasAll, M!Undisturbed, M!Stored
<1>9. LoadIsFresh'
  BY <1>1, <1>2 DEF M!SeedReads, M!server, M!page, SettingsTypes, Pasts, Loads,
        PageWhole, LoadIsFresh, M!Undisturbed, M!Stored
<1> QED
  BY <1>3, <1>4, <1>5, <1>6, <1>7, <1>8, <1>9 DEF SettingsInd

\* A seeding alone adds its model to what is stored.
LEMMA SeedStoresKeeps ==
    ASSUME M!ModelSettingsAssumption, SettingsInd, M!SeedStores
    PROVE  SettingsInd'
<1>1. SettingsTypes /\ PageWhole /\ SeedIsAlone /\ M!ScreenKeepsEdits /\ LastPutHasAll /\ ServerHasAll /\ LoadIsFresh
  BY DEF SettingsInd
<1>2. NoStrategy \notin M!ModelStrategy /\ M!Stored \in M!ModelStrategy /\ M!DEFAULT_MODEL_STRATEGY \in M!ModelStrategy
  BY <1>1, StoredTyped
<1>3. /\ seed # NoStrategy /\ seed' = NoStrategy /\ strategy' = M!Seeded
      /\ past' \in Pasts /\ past'.rival = (past.rival \/ strategy # seed.base)
      /\ past'.wish = M!appendModelRefsToAllPools(past.wish, seed.model)
      /\ past'.issued = past.issued /\ past'.applied = past.applied /\ past'.crossed = past.crossed
      /\ UNCHANGED <<catalog, reader, M!page, puts>>
  <2>1. past.wish \in M!ModelStrategy /\ seed.model \in Models /\ past \in Pasts
    BY <1>1 DEF M!SeedStores, SettingsTypes, Pasts
  <2>2. M!appendModelRefsToAllPools(past.wish, seed.model) \in M!ModelStrategy
    BY <2>1, Appended
  <2> QED
    BY <2>1, <2>2 DEF M!SeedStores, Pasts
<1>4. M!Seeded \in M!ModelStrategy
  <2>1. seed.value \in M!ModelStrategy /\ seed.model \in Models
    BY <1>2, <1>3, <1>1 DEF SeedIsAlone, SettingsTypes
  <2> QED
    BY <2>1, Appended DEF M!Seeded
<1>5. M!Undisturbed' => M!Undisturbed /\ ~mounted /\ puts = <<>> /\ seed.value = M!Stored
  BY <1>3, <1>1 DEF M!Undisturbed, SeedIsAlone, M!Stored
<1>6. SettingsTypes'
  BY <1>3, <1>1, <1>4 DEF M!page, SettingsTypes
<1>7. PageWhole'
  BY <1>2, <1>3, <1>1, <1>4 DEF M!page, PageWhole
<1>8. SeedIsAlone'
  BY <1>3 DEF SeedIsAlone
<1>9. M!ScreenKeepsEdits'
  BY <1>3, <1>5 DEF M!page, M!ScreenKeepsEdits
<1>10. LastPutHasAll'
  BY <1>3, <1>1, <1>5 DEF LastPutHasAll
<1>11. ServerHasAll'
  <2>1. M!Stored' = M!Seeded
    BY <1>2, <1>3, <1>4 DEF M!Stored
  <2> QED
    BY <1>3, <1>1, <1>5, <2>1 DEF M!page, ServerHasAll, M!Seeded
<1>12. LoadIsFresh'
  BY <1>3, <1>1, <1>5 DEF M!page, LoadIsFresh, PageWhole
<1> QED
  BY <1>6, <1>7, <1>8, <1>9, <1>10, <1>11, <1>12 DEF SettingsInd

\* A seeding that is refused changes nothing.
LEMMA SeedRefusedKeeps ==
    ASSUME M!ModelSettingsAssumption, SettingsInd, M!SeedRefused
    PROVE  SettingsInd'
<1>1. SettingsTypes /\ PageWhole /\ SeedIsAlone /\ M!ScreenKeepsEdits /\ LastPutHasAll /\ ServerHasAll /\ LoadIsFresh
  BY DEF SettingsInd
<1>2. NoStrategy \notin M!ModelStrategy /\ M!Stored \in M!ModelStrategy /\ M!DEFAULT_MODEL_STRATEGY \in M!ModelStrategy
  BY <1>1, StoredTyped
<1>3. SettingsTypes'
  BY <1>1, <1>2 DEF M!SeedRefused, M!Seeded, M!server, M!page, SettingsTypes, Pasts,
        Loads, PageWhole
<1>4. PageWhole'
  BY <1>1, <1>2 DEF M!SeedRefused, M!Seeded, M!server, M!page, SettingsTypes, Pasts,
        Loads, PageWhole
<1>5. SeedIsAlone'
  BY <1>1, <1>2 DEF M!SeedRefused, M!Seeded, M!server, M!page, SettingsTypes, Pasts,
        Loads, PageWhole, SeedIsAlone, M!Undisturbed
<1>6. M!ScreenKeepsEdits'
  BY <1>1, <1>2 DEF M!SeedRefused, M!Seeded, M!server, M!page, SettingsTypes, Pasts,
        Loads, PageWhole, M!ScreenKeepsEdits, M!Undisturbed
<1>7. LastPutHasAll'
  BY <1>1, <1>2 DEF M!SeedRefused, M!Seeded, M!server, M!page, SettingsTypes, Pasts,
        Loads, PageWhole, LastPutHasAll, M!Undisturbed
<1>8. ServerHasAll'
  BY <1>1, <1>2 DEF M!SeedRefused, M!Seeded, M!server, M!page, SettingsTypes, Pasts,
        Loads, PageWhole, ServerHasAll, M!Undisturbed, M!Stored
<1>9. LoadIsFresh'
  BY <1>1, <1>2 DEF M!SeedRefused, M!Seeded, M!server, M!page, SettingsTypes, Pasts,
        Loads, PageWhole, LoadIsFresh, M!Undisturbed, M!Stored
<1> QED
  BY <1>3, <1>4, <1>5, <1>6, <1>7, <1>8, <1>9 DEF SettingsInd

\* The route of older clients is a rival.
LEMMA OldRouteKeeps ==
    ASSUME M!ModelSettingsAssumption, SettingsInd, NEW m \in Models, M!updateModelsConfig(m)
    PROVE  SettingsInd'
<1>1. SettingsTypes /\ PageWhole /\ SeedIsAlone /\ M!ScreenKeepsEdits /\ LastPutHasAll /\ ServerHasAll /\ LoadIsFresh
  BY DEF SettingsInd
<1>2. NoStrategy \notin M!ModelStrategy /\ M!Stored \in M!ModelStrategy /\ M!DEFAULT_MODEL_STRATEGY \in M!ModelStrategy
  BY <1>1, StoredTyped
<1>3. strategy' \in M!ModelStrategy
  <2>1. <<m>> \in M!Pools
    BY DEF M!Pools, M!IsInjective
  <2>2. [M!DEFAULT_MODEL_STRATEGY EXCEPT !.pools[DefaultTier] = <<m>>] \in M!ModelStrategy
    BY <1>2, <2>1, StrategyEdited DEF M!ModelSettingsAssumption
  <2>3. [[M!DEFAULT_MODEL_STRATEGY EXCEPT !.pools[DefaultTier] = <<m>>] EXCEPT !.routing["chat"] = m] \in M!ModelStrategy
    BY <2>2, StrategyEdited DEF M!ModelSettingsAssumption
  <2> QED
    BY <2>3 DEF M!updateModelsConfig
<1>4. /\ past' \in Pasts /\ UNCHANGED <<catalog, seed, reader, M!page, puts>>
  BY <1>1 DEF M!updateModelsConfig, SettingsTypes, Pasts
<1>5. SettingsTypes'
  BY <1>3, <1>1, <1>4 DEF M!page, SettingsTypes
<1>6. PageWhole'
  BY <1>2, <1>3, <1>1, <1>4 DEF M!page, PageWhole
<1>7. SeedIsAlone'
  BY <1>1, <1>2, <1>3 DEF M!updateModelsConfig, M!server, M!page, SettingsTypes, Pasts,
        Loads, PageWhole, SeedIsAlone, M!Undisturbed
<1>8. M!ScreenKeepsEdits'
  BY <1>1, <1>2, <1>3 DEF M!updateModelsConfig, M!server, M!page, SettingsTypes, Pasts,
        Loads, PageWhole, M!ScreenKeepsEdits, M!Undisturbed
<1>9. LastPutHasAll'
  BY <1>1, <1>2, <1>3 DEF M!updateModelsConfig, M!server, M!page, SettingsTypes, Pasts,
        Loads, PageWhole, LastPutHasAll, M!Undisturbed
<1>10. ServerHasAll'
  BY <1>1, <1>2, <1>3 DEF M!updateModelsConfig, M!server, M!page, SettingsTypes, Pasts,
        Loads, PageWhole, ServerHasAll, M!Undisturbed, M!Stored
<1>11. LoadIsFresh'
  BY <1>1, <1>2, <1>3 DEF M!updateModelsConfig, M!server, M!page, SettingsTypes, Pasts,
        Loads, PageWhole, LoadIsFresh, M!Undisturbed, M!Stored
<1> QED
  BY <1>5, <1>6, <1>7, <1>8, <1>9, <1>10, <1>11 DEF SettingsInd

\* A provider without key keeps its models in the pools.
LEMMA ProviderDeletedKeeps ==
    ASSUME M!ModelSettingsAssumption, SettingsInd, NEW m \in Models, M!ProviderDeleted(m)
    PROVE  SettingsInd'
<1>1. SettingsTypes /\ PageWhole /\ SeedIsAlone /\ M!ScreenKeepsEdits /\ LastPutHasAll /\ ServerHasAll /\ LoadIsFresh
  BY DEF SettingsInd
<1>2. NoStrategy \notin M!ModelStrategy /\ M!Stored \in M!ModelStrategy /\ M!DEFAULT_MODEL_STRATEGY \in M!ModelStrategy
  BY <1>1, StoredTyped
<1>3. SettingsTypes'
  BY <1>1, <1>2 DEF M!ProviderDeleted, M!server, M!page, SettingsTypes, Pasts, Loads,
        PageWhole
<1>4. PageWhole'
  BY <1>1, <1>2 DEF M!ProviderDeleted, M!server, M!page, SettingsTypes, Pasts, Loads,
        PageWhole
<1>5. SeedIsAlone'
  BY <1>1, <1>2 DEF M!ProviderDeleted, M!server, M!page, SettingsTypes, Pasts, Loads,
        PageWhole, SeedIsAlone, M!Undisturbed
<1>6. M!ScreenKeepsEdits'
  BY <1>1, <1>2 DEF M!ProviderDeleted, M!server, M!page, SettingsTypes, Pasts, Loads,
        PageWhole, M!ScreenKeepsEdits, M!Undisturbed
<1>7. LastPutHasAll'
  BY <1>1, <1>2 DEF M!ProviderDeleted, M!server, M!page, SettingsTypes, Pasts, Loads,
        PageWhole, LastPutHasAll, M!Undisturbed
<1>8. ServerHasAll'
  BY <1>1, <1>2 DEF M!ProviderDeleted, M!server, M!page, SettingsTypes, Pasts, Loads,
        PageWhole, ServerHasAll, M!Undisturbed, M!Stored
<1>9. LoadIsFresh'
  BY <1>1, <1>2 DEF M!ProviderDeleted, M!server, M!page, SettingsTypes, Pasts, Loads,
        PageWhole, LoadIsFresh, M!Undisturbed, M!Stored
<1> QED
  BY <1>3, <1>4, <1>5, <1>6, <1>7, <1>8, <1>9 DEF SettingsInd

\* A changed pool is shown and waits.
LEMMA PoolsChangeKeeps ==
    ASSUME M!ModelSettingsAssumption, SettingsInd, NEW t \in Tiers, NEW pool \in M!PoolChanges(draft.pools[t]), M!handlePoolsChange(t, pool)
    PROVE  SettingsInd'
<1>1. SettingsTypes /\ PageWhole /\ SeedIsAlone /\ M!ScreenKeepsEdits /\ LastPutHasAll /\ ServerHasAll /\ LoadIsFresh
  BY DEF SettingsInd
<1>2. NoStrategy \notin M!ModelStrategy /\ M!Stored \in M!ModelStrategy /\ M!DEFAULT_MODEL_STRATEGY \in M!ModelStrategy
  BY <1>1, StoredTyped
<1>3. /\ mounted /\ draft # NoStrategy /\ draft \in M!ModelStrategy /\ pool \in M!Pools
  <2>1. mounted /\ draft \in M!ModelStrategy /\ draft # NoStrategy /\ options \subseteq Models
    BY <1>1 DEF M!handlePoolsChange, M!Shown, SettingsTypes
  <2>2. draft.pools[t] \in M!Pools
    BY <2>1 DEF M!ModelStrategy
  <2> QED
    BY <2>1, <2>2, PoolChanged
<1>4. /\ draft' = [draft EXCEPT !.pools[t] = pool] /\ draft' \in M!ModelStrategy
       /\ timer' = "armed" /\ pendingPoolsSave' = draft'
       /\ past' \in Pasts /\ past'.wish = [past.wish EXCEPT !.pools[t] = pool]
       /\ past'.issued = past.issued /\ past'.applied = past.applied
       /\ past'.crossed = past.crossed /\ past'.rival = past.rival
       /\ UNCHANGED <<M!server, mounted, options, puts, expelled>>
  <2>1. past \in Pasts /\ past.wish \in M!ModelStrategy
    BY <1>1 DEF SettingsTypes, Pasts
  <2>2. [past.wish EXCEPT !.pools[t] = pool] \in M!ModelStrategy /\ [draft EXCEPT !.pools[t] = pool] \in M!ModelStrategy
    BY <1>3, <2>1, StrategyEdited
  <2>3. past' = [past EXCEPT !.wish = [past.wish EXCEPT !.pools[t] = pool]]
    BY <2>1 DEF M!handlePoolsChange, Pasts
  <2>4. /\ draft' = [draft EXCEPT !.pools[t] = pool] /\ timer' = "armed" /\ pendingPoolsSave' = draft'
        /\ UNCHANGED <<M!server, mounted, options, puts, expelled>>
    BY DEF M!handlePoolsChange
  <2> QED
    BY <2>1, <2>2, <2>3, <2>4 DEF Pasts
<1>5. /\ load' \in Loads /\ load'.step = load.step /\ load'.value = load.value
       /\ load'.crossed = (load.step = "answered")
  BY <1>1 DEF M!handlePoolsChange, M!Overtaken, SettingsTypes, Loads
<1>6. SettingsTypes'
  BY <1>3, <1>1, <1>4, <1>5 DEF M!server, SettingsTypes
<1>7. PageWhole'
  BY <1>2, <1>3, <1>1, <1>4, <1>5 DEF M!server, PageWhole
<1>8. SeedIsAlone'
  BY <1>1, <1>4 DEF M!server, SeedIsAlone
<1>9. M!ScreenKeepsEdits'
  BY <1>3, <1>1, <1>4 DEF M!ScreenKeepsEdits, M!Undisturbed
<1>10. LastPutHasAll'
  BY <1>1, <1>4 DEF LastPutHasAll, M!Undisturbed
<1>11. ServerHasAll'
  BY <1>1, <1>4 DEF ServerHasAll
<1>12. LoadIsFresh'
  BY <1>3, <1>1, <1>4, <1>5 DEF LoadIsFresh, PageWhole
<1> QED
  BY <1>6, <1>7, <1>8, <1>9, <1>10, <1>11, <1>12 DEF SettingsInd

\* A changed selection is sent with the pools as shown.
LEMMA RoutingChangeKeeps ==
    ASSUME M!ModelSettingsAssumption, SettingsInd, NEW f \in TaskFields, NEW v \in M!Decodable(f), M!handleTaskRoutingChange(f, v)
    PROVE  SettingsInd'
<1>1. SettingsTypes /\ PageWhole /\ SeedIsAlone /\ M!ScreenKeepsEdits /\ LastPutHasAll /\ ServerHasAll /\ LoadIsFresh
  BY DEF SettingsInd
<1>2. NoStrategy \notin M!ModelStrategy /\ M!Stored \in M!ModelStrategy /\ M!DEFAULT_MODEL_STRATEGY \in M!ModelStrategy
  BY <1>1, StoredTyped
<1>3. /\ mounted /\ draft # NoStrategy /\ draft \in M!ModelStrategy /\ v \in Tiers \cup Models \cup {FollowChat}
  BY <1>1 DEF M!handleTaskRoutingChange, M!Shown, SettingsTypes, M!Decodable
<1>4. /\ draft' = [draft EXCEPT !.routing[f] = v] /\ draft' \in M!ModelStrategy /\ puts' = M!WithPut(draft')
       /\ timer' = "none" /\ pendingPoolsSave' = NoStrategy
       /\ past' \in Pasts /\ past'.wish = [past.wish EXCEPT !.routing[f] = v]
       /\ past'.issued = past.issued + 1 /\ past'.applied = past.applied
       /\ past'.crossed = past.crossed /\ past'.rival = past.rival
       /\ UNCHANGED <<M!server, mounted, options, expelled>>
  <2> DEFINE w == [past EXCEPT !.wish = [past.wish EXCEPT !.routing[f] = v]]
  <2>1. past \in Pasts /\ past.wish \in M!ModelStrategy
    BY <1>1 DEF SettingsTypes, Pasts
  <2>2. [past.wish EXCEPT !.routing[f] = v] \in M!ModelStrategy /\ [draft EXCEPT !.routing[f] = v] \in M!ModelStrategy
    BY <1>3, <2>1, StrategyEdited
  <2>3. past' = M!Issued(w)
    BY <2>1 DEF M!handleTaskRoutingChange, Pasts
  <2>4. /\ w \in Pasts /\ w.wish = [past.wish EXCEPT !.routing[f] = v] /\ w.issued = past.issued
        /\ w.applied = past.applied /\ w.crossed = past.crossed /\ w.rival = past.rival
    BY <2>1, <2>2 DEF Pasts
  <2> HIDE DEF w
  <2>5. /\ draft' = [draft EXCEPT !.routing[f] = v] /\ timer' = "none" /\ pendingPoolsSave' = NoStrategy
        /\ puts' = M!WithPut(draft') /\ UNCHANGED <<M!server, mounted, options, expelled>>
    BY DEF M!handleTaskRoutingChange
  <2> QED
    BY <2>2, <2>3, <2>4, <2>5, OneMore
<1>5. /\ load' \in Loads /\ load'.step = load.step /\ load'.value = load.value
       /\ load'.crossed = (load.step = "answered")
  BY <1>1 DEF M!handleTaskRoutingChange, M!Overtaken, SettingsTypes, Loads
<1>6. M!ScreenKeepsEdits'
  BY <1>3, <1>1, <1>4 DEF M!ScreenKeepsEdits, M!Undisturbed
<1>7. puts' \in Seq(Saves) /\ LastPutHasAll'
  <2>1. M!Undisturbed' => draft' = past'.wish
    BY <1>3, <1>1, <1>4 DEF M!ScreenKeepsEdits, M!Undisturbed
  <2> HIDE DEF M!WithPut
  <2> QED
    BY <1>1, <1>4, <2>1, SaveSent
<1>8. SettingsTypes'
  BY <1>3, <1>1, <1>4, <1>5, <1>7 DEF M!server, SettingsTypes
<1>9. PageWhole'
  BY <1>2, <1>3, <1>1, <1>4, <1>5 DEF M!server, PageWhole
<1>10. SeedIsAlone'
  BY <1>3, <1>1, <1>4 DEF M!server, SeedIsAlone
<1>11. M!ScreenKeepsEdits'
  BY <1>6
<1>12. LastPutHasAll'
  BY <1>7
<1>13. ServerHasAll'
  BY <1>1, <1>4 DEF ServerHasAll, SettingsTypes, Pasts
<1>14. LoadIsFresh'
  BY <1>3, <1>1, <1>4, <1>5 DEF LoadIsFresh, PageWhole
<1> QED
  BY <1>8, <1>9, <1>10, <1>11, <1>12, <1>13, <1>14 DEF SettingsInd

\* The server stores a save.
LEMMA PutKeeps ==
    ASSUME M!ModelSettingsAssumption, SettingsInd, NEW i \in DOMAIN puts, M!Put(i)
    PROVE  SettingsInd'
<1>1. SettingsTypes /\ PageWhole /\ SeedIsAlone /\ M!ScreenKeepsEdits /\ LastPutHasAll /\ ServerHasAll /\ LoadIsFresh
  BY DEF SettingsInd
<1>2. NoStrategy \notin M!ModelStrategy /\ M!Stored \in M!ModelStrategy /\ M!DEFAULT_MODEL_STRATEGY \in M!ModelStrategy
  BY <1>1, StoredTyped
<1>3. /\ puts' \in Seq(Saves) /\ \A k \in DOMAIN puts' : \E j \in DOMAIN puts : puts'[k] = puts[j]
      /\ puts[i].no \in Nat /\ puts[i].value \in M!ModelStrategy
  BY <1>1, SaveGone DEF M!Put
<1>4. /\ strategy' = puts[i].value /\ past' \in Pasts /\ past'.applied = puts[i].no
       /\ past'.wish = past.wish /\ past'.issued = past.issued
       /\ past'.crossed = past.crossed /\ past'.rival = past.rival
       /\ UNCHANGED <<catalog, seed, reader, M!page>>
  BY <1>3, <1>1 DEF M!Put, SettingsTypes, Pasts
<1>5. SettingsTypes'
  BY <1>3, <1>1, <1>4 DEF M!page, SettingsTypes
<1>6. PageWhole'
  BY <1>2, <1>3, <1>1, <1>4 DEF M!page, PageWhole
<1>7. SeedIsAlone'
  <2>1. puts # <<>>
    OBVIOUS
  <2> QED
    BY <1>1, <1>4, <2>1 DEF SeedIsAlone
<1>8. M!ScreenKeepsEdits'
  BY <1>1, <1>4 DEF M!page, M!ScreenKeepsEdits, M!Undisturbed
<1>9. LastPutHasAll'
  <2> SUFFICES ASSUME NEW k \in DOMAIN puts'
               PROVE  /\ puts'[k].no <= past.issued
                      /\ M!Undisturbed /\ timer # "armed" /\ puts'[k].no = past.issued => puts'[k].value = past.wish
    BY <1>4 DEF M!page, LastPutHasAll, M!Undisturbed
  <2>1. PICK j \in DOMAIN puts : puts'[k] = puts[j]
    BY <1>3
  <2> QED
    BY <1>1, <2>1 DEF LastPutHasAll
<1>10. ServerHasAll'
  <2>1. M!Stored' = puts[i].value
    BY <1>2, <1>3, <1>4 DEF M!Stored
  <2> QED
    BY <1>1, <1>4, <2>1 DEF M!page, ServerHasAll, LastPutHasAll, M!Undisturbed
<1>11. LoadIsFresh'
  BY <1>1, <1>4 DEF M!page, LoadIsFresh, M!Undisturbed
<1> QED
  BY <1>5, <1>6, <1>7, <1>8, <1>9, <1>10, <1>11 DEF SettingsInd

\* A save that is refused is gone.
LEMMA PutRefusedKeeps ==
    ASSUME M!ModelSettingsAssumption, SettingsInd, NEW i \in DOMAIN puts, M!PutRefused(i)
    PROVE  SettingsInd'
<1>1. SettingsTypes /\ PageWhole /\ SeedIsAlone /\ M!ScreenKeepsEdits /\ LastPutHasAll /\ ServerHasAll /\ LoadIsFresh
  BY DEF SettingsInd
<1>2. NoStrategy \notin M!ModelStrategy /\ M!Stored \in M!ModelStrategy /\ M!DEFAULT_MODEL_STRATEGY \in M!ModelStrategy
  BY <1>1, StoredTyped
<1>3. /\ puts' \in Seq(Saves) /\ \A k \in DOMAIN puts' : \E j \in DOMAIN puts : puts'[k] = puts[j]
      /\ UNCHANGED <<M!server, M!page, past>>
  BY <1>1, SaveGone DEF M!PutRefused
<1>4. SettingsTypes'
  BY <1>3, <1>1 DEF M!server, M!page, SettingsTypes
<1>5. PageWhole'
  BY <1>1, <1>2, <1>3 DEF M!PutRefused, M!server, M!page, SettingsTypes, Pasts, Loads,
        PageWhole
<1>6. SeedIsAlone'
  <2>1. puts # <<>>
    OBVIOUS
  <2> QED
    BY <1>3, <1>1, <2>1 DEF M!server, M!page, SeedIsAlone
<1>7. M!ScreenKeepsEdits'
  BY <1>1, <1>2, <1>3 DEF M!PutRefused, M!server, M!page, SettingsTypes, Pasts, Loads,
        PageWhole, M!ScreenKeepsEdits, M!Undisturbed
<1>8. LastPutHasAll'
  <2> SUFFICES ASSUME NEW k \in DOMAIN puts'
               PROVE  /\ puts'[k].no <= past.issued
                      /\ M!Undisturbed /\ timer # "armed" /\ puts'[k].no = past.issued => puts'[k].value = past.wish
    BY <1>3 DEF M!page, LastPutHasAll, M!Undisturbed
  <2>1. PICK j \in DOMAIN puts : puts'[k] = puts[j]
    BY <1>3
  <2> QED
    BY <1>1, <2>1 DEF LastPutHasAll
<1>9. ServerHasAll'
  BY <1>1, <1>2, <1>3 DEF M!PutRefused, M!server, M!page, SettingsTypes, Pasts, Loads,
        PageWhole, ServerHasAll, M!Undisturbed, M!Stored
<1>10. LoadIsFresh'
  BY <1>1, <1>2, <1>3 DEF M!PutRefused, M!server, M!page, SettingsTypes, Pasts, Loads,
        PageWhole, LoadIsFresh, M!Undisturbed, M!Stored
<1> QED
  BY <1>4, <1>5, <1>6, <1>7, <1>8, <1>9, <1>10 DEF SettingsInd

\* A save that is lost is gone.
LEMMA PutLostKeeps ==
    ASSUME M!ModelSettingsAssumption, SettingsInd, NEW i \in DOMAIN puts, M!PutLost(i)
    PROVE  SettingsInd'
<1>1. SettingsTypes /\ PageWhole /\ SeedIsAlone /\ M!ScreenKeepsEdits /\ LastPutHasAll /\ ServerHasAll /\ LoadIsFresh
  BY DEF SettingsInd
<1>2. NoStrategy \notin M!ModelStrategy /\ M!Stored \in M!ModelStrategy /\ M!DEFAULT_MODEL_STRATEGY \in M!ModelStrategy
  BY <1>1, StoredTyped
<1>3. /\ puts' \in Seq(Saves) /\ \A k \in DOMAIN puts' : \E j \in DOMAIN puts : puts'[k] = puts[j]
      /\ UNCHANGED <<M!server, M!page, past>>
  BY <1>1, SaveGone DEF M!PutLost
<1>4. SettingsTypes'
  BY <1>3, <1>1 DEF M!server, M!page, SettingsTypes
<1>5. PageWhole'
  BY <1>1, <1>2, <1>3 DEF M!PutLost, M!server, M!page, SettingsTypes, Pasts, Loads,
        PageWhole
<1>6. SeedIsAlone'
  <2>1. puts # <<>>
    OBVIOUS
  <2> QED
    BY <1>3, <1>1, <2>1 DEF M!server, M!page, SeedIsAlone
<1>7. M!ScreenKeepsEdits'
  BY <1>1, <1>2, <1>3 DEF M!PutLost, M!server, M!page, SettingsTypes, Pasts, Loads,
        PageWhole, M!ScreenKeepsEdits, M!Undisturbed
<1>8. LastPutHasAll'
  <2> SUFFICES ASSUME NEW k \in DOMAIN puts'
               PROVE  /\ puts'[k].no <= past.issued
                      /\ M!Undisturbed /\ timer # "armed" /\ puts'[k].no = past.issued => puts'[k].value = past.wish
    BY <1>3 DEF M!page, LastPutHasAll, M!Undisturbed
  <2>1. PICK j \in DOMAIN puts : puts'[k] = puts[j]
    BY <1>3
  <2> QED
    BY <1>1, <2>1 DEF LastPutHasAll
<1>9. ServerHasAll'
  BY <1>1, <1>2, <1>3 DEF M!PutLost, M!server, M!page, SettingsTypes, Pasts, Loads,
        PageWhole, ServerHasAll, M!Undisturbed, M!Stored
<1>10. LoadIsFresh'
  BY <1>1, <1>2, <1>3 DEF M!PutLost, M!server, M!page, SettingsTypes, Pasts, Loads,
        PageWhole, LoadIsFresh, M!Undisturbed, M!Stored
<1> QED
  BY <1>4, <1>5, <1>6, <1>7, <1>8, <1>9, <1>10 DEF SettingsInd
-----------------------------------------------------------------------------

\* The invariant holds before the page is opened.
LEMMA SettingsStart == M!ModelSettingsAssumption /\ M!Init => SettingsInd
<1> SUFFICES ASSUME M!ModelSettingsAssumption, M!Init PROVE SettingsInd
  OBVIOUS
<1>1. M!DEFAULT_MODEL_STRATEGY \in M!ModelStrategy /\ NoStrategy \notin M!ModelStrategy
  BY DefaultTyped DEF M!ModelSettingsAssumption
<1>2. strategy \in M!ModelStrategy \cup {NoStrategy} /\ catalog \subseteq Models
  <2>1. PICK c \in SUBSET Models :
          /\ catalog = c
          /\ strategy = IF c = {} THEN NoStrategy
                        ELSE [M!DEFAULT_MODEL_STRATEGY EXCEPT !.pools = [t \in Tiers |-> M!SetToSeq(c)]]
    BY DEF M!Init
  <2>2. [t \in Tiers |-> M!SetToSeq(c)] \in [Tiers -> M!Pools]
    BY CatalogAsPool
  <2> DEFINE p == [t \in Tiers |-> M!SetToSeq(c)]
  <2> HIDE DEF p
  <2>3. p \in [Tiers -> M!Pools] => [M!DEFAULT_MODEL_STRATEGY EXCEPT !.pools = p] \in M!ModelStrategy
    BY <1>1 DEF M!ModelStrategy
  <2> USE DEF p
  <2> QED
    BY <2>1, <2>2, <2>3
<1>3. M!Stored \in M!ModelStrategy
  BY <1>1, <1>2 DEF M!Stored
<1>4. SettingsTypes
  <2>1. load \in Loads /\ load.step = "none"
    BY DEF M!Init, M!NoLoad, Loads
  <2>2. past \in Pasts
    BY <1>3 DEF M!Init, Pasts
  <2>3. puts \in Seq(Saves)
    BY DEF M!Init
  <2> QED
    BY <1>2, <2>1, <2>2, <2>3 DEF M!Init, SettingsTypes
<1>5. PageWhole
  BY DEF M!Init, PageWhole, M!NoLoad
<1>6. SeedIsAlone /\ M!ScreenKeepsEdits /\ LoadIsFresh
  BY DEF M!Init, SeedIsAlone, M!ScreenKeepsEdits, LoadIsFresh, M!NoLoad
<1>7. LastPutHasAll
  BY DEF M!Init, LastPutHasAll
<1>8. ServerHasAll
  BY DEF M!Init, ServerHasAll
<1> QED
  BY <1>4, <1>5, <1>6, <1>7, <1>8 DEF SettingsInd

\* Every step keeps the invariant.
LEMMA SettingsStep == M!ModelSettingsAssumption /\ SettingsInd /\ [M!Next]_M!vars => SettingsInd'
<1> SUFFICES ASSUME M!ModelSettingsAssumption, SettingsInd, [M!Next]_M!vars PROVE SettingsInd'
  OBVIOUS
<1>1. CASE UNCHANGED M!vars
  BY <1>1 DEF M!vars, M!server, M!page, SettingsInd, SettingsTypes, PageWhole,
        SeedIsAlone, M!ScreenKeepsEdits, LastPutHasAll,
       ServerHasAll, LoadIsFresh, M!Undisturbed, M!Stored
<1>2. CASE M!Page
  BY <1>2, PoolsChangeKeeps, RoutingChangeKeeps, TimerFiresKeeps, OpenKeeps, LeaveKeeps,
        TokenRefreshedKeeps,
     LoggedOutKeeps, LoadFailsKeeps, LoadAnsweredKeeps DEF M!Page
<1>3. CASE M!Server
  BY <1>3, ReadForPageKeeps, StoreForPageKeeps, ReadForChatKeeps, StoreForChatKeeps,
        PutKeeps, PutRefusedKeeps,
     PutLostKeeps, SeedStoresKeeps, SeedRefusedKeeps, SeedReadsKeeps, OldRouteKeeps, ProviderDeletedKeeps DEF M!Server
<1> QED
  BY <1>1, <1>2, <1>3 DEF M!Next

\* The invariant says what the property says.
LEMMA SettingsEnd == M!ModelSettingsAssumption /\ SettingsInd => M!ModelSettingsInv
<1> SUFFICES ASSUME M!ModelSettingsAssumption, SettingsInd PROVE M!ModelSettingsInv
  OBVIOUS
<1>1. SettingsTypes /\ M!ScreenKeepsEdits /\ ServerHasAll
  BY DEF SettingsInd
<1>2. M!Stored \in M!ModelStrategy
  BY <1>1, StoredTyped
<1>3. M!TypeOK
  BY <1>1, <1>2 DEF SettingsTypes, M!TypeOK, Loads, Pasts
<1>4. M!EditsReachServer
  BY <1>1 DEF ServerHasAll, M!EditsReachServer
<1> QED
  BY <1>1, <1>3, <1>4 DEF M!ModelSettingsInv

\* The models page loses no edit: the screen shows every one and a save that waits carries all;
\* and the server has them when the last save was the last to be stored, unless a rival
\* stored another strategy beside it or a read crossed an edit; for any models, tiers and tasks.
THEOREM EditsAreKept == M!ModelSettingsAssumption => (M!Spec => []M!ModelSettingsInv)
<1> SUFFICES ASSUME M!ModelSettingsAssumption PROVE M!Spec => []M!ModelSettingsInv
  OBVIOUS
<1>1. M!Init => SettingsInd
  BY SettingsStart
<1>2. SettingsInd /\ [M!Next]_M!vars => SettingsInd'
  BY SettingsStep
<1>3. SettingsInd => M!ModelSettingsInv
  BY SettingsEnd
<1> QED
  BY <1>1, <1>2, <1>3, PTL DEF M!Spec

\* Both pages keep what the user meant, whatever the providers, models, tiers, tasks and bounds.
THEOREM SettingsAreKept == P!Spec /\ M!Spec => []SettingsInv
<1>1. P!Spec => []P!ProvidersInv
  BY ProvidersAreKept, PagesAssumption
<1>2. M!Spec => []M!ModelSettingsInv
  BY EditsAreKept, PagesAssumption
<1>3. P!ProvidersInv /\ M!ModelSettingsInv => SettingsInv
  BY DEF SettingsInv
<1> QED
  BY <1>1, <1>2, <1>3, PTL

=============================================================================
