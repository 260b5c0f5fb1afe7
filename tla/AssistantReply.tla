--------------------------- MODULE AssistantReply ---------------------------
(***************************************************************************)
(* One reply of the agent, as the user watches it and as the session tree  *)
(* shows it afterwards.                                                    *)
(*                                                                         *)
(* The reply reaches the screen twice, through code that shares nothing:   *)
(* while it streams, chat-reducer.ts and assistant-message-helpers.ts fold *)
(* SSE events into blocks (thinking, text, tool calls); when it is over,   *)
(* core's session-tree.ts folds the stored messages into blocks, and       *)
(* branch-messages.ts shows those instead.  The module runs both beside a  *)
(* harness that produces any reply: several messages, tools that run in    *)
(* parallel, messages the user sends meanwhile, a stop, an LLM error.      *)
(*                                                                         *)
(* A delta of text is a number; texts are the sequences of their deltas.   *)
(* Ids, times, durations and token usage are left out, save that a         *)
(* thinking block is open until it has been given its duration.            *)
(***************************************************************************)
EXTENDS Integers, Sequences, SequencesExt

CONSTANTS MaxParts,      \* deltas and tool calls of the reply
          MaxMessages,   \* assistant messages of the reply
          MaxSteers      \* messages the user sends while it runs

ASSUME ReplyAssumption == MaxParts \in Nat /\ MaxMessages \in Nat /\ MaxSteers \in Nat

VARIABLES
    phase,     \* of the harness, see Phases
    partial,   \* content of the message the LLM is streaming
    log,       \* the branch of the session tree since the prompt
    waiting,   \* tool calls of the last message that have not started
    running,   \* tool calls under way
    steers,    \* steering messages the harness holds
    parts,     \* deltas and calls so far
    sent,      \* steering messages sent so far
    stopped,   \* the user has pressed stop
    shown      \* the web client's messages

vars == <<phase, partial, log, waiting, running, steers, parts, sent, stopped, shown>>

Phases == {"prompted",   \* the prompt has been sent
           "streaming",  \* the LLM produces a message
           "tools",      \* its tool calls run
           "between",    \* the next message, or the end
           "closing",    \* agent_end is out, the LLM's error is not
           "ended"}

NoResult == 0       \* the result of a tool call that has none
Interrupted == -1   \* the text of the client's `toolStopped`
-----------------------------------------------------------------------------
(* Blocks: SessionBranchBlock and AssistantContentBlock.                   *)

Thinking(text, open) == [type |-> "thinking", text |-> text, tools |-> <<>>, open |-> open]
Text(text)           == [type |-> "text", text |-> text, tools |-> <<>>, open |-> FALSE]
Tools(calls)         == [type |-> "tools", text |-> <<>>, tools |-> calls, open |-> FALSE]
Tool(call, result)   == [call |-> call, result |-> result]

LastIs(blocks, type) == blocks # <<>> /\ Last(blocks).type = type

\* Content joins the last block if that is of the same type.
Join(blocks, block) ==
    IF LastIs(blocks, block.type)
    THEN [blocks EXCEPT ![Len(blocks)].text = @ \o block.text,
                        ![Len(blocks)].tools = @ \o block.tools]
    ELSE Append(blocks, block)

\* Every tool t of the blocks becomes Update(t).
MapTools(blocks, Update(_)) ==
    [i \in DOMAIN blocks |->
        [blocks[i] EXCEPT !.tools = [k \in DOMAIN @ |-> Update(@[k])]]]
-----------------------------------------------------------------------------
(* The web client's reducer.                                               *)

UserMessage == [role |-> "user", blocks |-> <<>>, streaming |-> FALSE, error |-> FALSE]
AssistantMessage(blocks, streaming, error) ==
    [role |-> "assistant", blocks |-> blocks, streaming |-> streaming, error |-> error]
createAssistantMessage == AssistantMessage(<<>>, TRUE, FALSE)

findLastAssistantIndex(messages) == SelectLastInSeq(messages, LAMBDA m : m.role = "assistant")

updateLastAssistant(messages, Update(_)) ==
    LET index == findLastAssistantIndex(messages)
    IN  IF index = 0
        THEN Append(messages, Update(createAssistantMessage))
        ELSE [messages EXCEPT ![index] = Update(@)]

appendThinkingDelta(blocks, delta) == Join(blocks, Thinking(<<delta>>, TRUE))

finalizeOpenThinkingBlock(blocks) ==
    IF LastIs(blocks, "thinking") THEN [blocks EXCEPT ![Len(blocks)].open = FALSE]
    ELSE blocks

appendTextDelta(blocks, delta) == Join(finalizeOpenThinkingBlock(blocks), Text(<<delta>>))

appendToolStart(blocks, call) ==
    Join(finalizeOpenThinkingBlock(blocks), Tools(<<Tool(call, NoResult)>>))

\* Faulty updateToolEnd: the first tool that is still running.
UpdateFirstRunning(blocks, call, result) ==
    LET open == {i \in DOMAIN blocks : \E k \in DOMAIN blocks[i].tools :
                                            blocks[i].tools[k].result = NoResult}
    IN  IF open = {} THEN blocks
        ELSE LET i == CHOOSE i \in open : \A j \in open : i <= j
                 k == SelectInSeq(blocks[i].tools, LAMBDA t : t.result = NoResult)
             IN  [blocks EXCEPT ![i].tools[k].result = result]

updateToolEnd(blocks, call, result) ==
    MapTools(blocks, LAMBDA t : IF t.call = call THEN Tool(call, result) ELSE t)

\* Only the last open thinking block is closed.
finalizeOpenThinkingBlocks(blocks) ==
    LET index == SelectLastInSeq(blocks, LAMBDA b : b.type = "thinking" /\ b.open)
    IN  IF index = 0 THEN blocks ELSE [blocks EXCEPT ![index].open = FALSE]

finalizeRunningTools(blocks) ==
    MapTools(blocks, LAMBDA t : IF t.result = NoResult THEN Tool(t.call, Interrupted) ELSE t)

finalizeAssistantTurnBlocks(blocks) == finalizeRunningTools(finalizeOpenThinkingBlocks(blocks))

\* agent_end, and the stop button before it.
Finalized(m) == [m EXCEPT !.streaming = FALSE, !.blocks = finalizeAssistantTurnBlocks(@)]

isStreaming(messages) == Last(messages).role = "assistant" /\ Last(messages).streaming

ShowBlocks(Update(_)) ==
    shown' = updateLastAssistant(shown, LAMBDA m : [m EXCEPT !.blocks = Update(@)])
-----------------------------------------------------------------------------
(* The session tree's fold over the stored messages.                       *)

Delta(type, d)   == [type |-> type, text |-> <<d>>, call |-> 0]
CallPart(call)   == [type |-> "toolCall", text |-> <<>>, call |-> call]

User             == [role |-> "user", content |-> <<>>, call |-> 0, error |-> FALSE]
ToolResult(call) == [role |-> "toolResult", content |-> <<>>, call |-> call, error |-> FALSE]
Assistant(content, error) ==
    [role |-> "assistant", content |-> content, call |-> 0, error |-> error]

\* AssistantTurnAccum; openThinkingBlockIndex is 0 for null.
NoTurn == [active |-> FALSE, blocks |-> <<>>, openThinkingBlockIndex |-> 0, error |-> FALSE]

finalizeOpenThinkingInTurn(turn) ==
    IF turn.openThinkingBlockIndex = 0 THEN turn
    ELSE [turn EXCEPT !.blocks[turn.openThinkingBlockIndex].open = FALSE,
                      !.openThinkingBlockIndex = 0]

appendThinkingBlock(turn, text) ==
    LET blocks == Join(turn.blocks, Thinking(text, TRUE))
    IN  [turn EXCEPT !.blocks = blocks,
                     !.openThinkingBlockIndex =
                        IF LastIs(turn.blocks, "thinking") THEN @ ELSE Len(blocks)]

appendTextBlock(turn, text) ==
    [finalizeOpenThinkingInTurn(turn) EXCEPT !.blocks = Join(@, Text(text))]

appendToolCallBlock(turn, call) ==
    [finalizeOpenThinkingInTurn(turn) EXCEPT !.blocks = Join(@, Tools(<<Tool(call, NoResult)>>))]

appendAssistantContent(turn, content) ==
    FoldLeft(LAMBDA t, part :
                CASE part.type = "thinking" -> appendThinkingBlock(t, part.text)
                  [] part.type = "text"     -> appendTextBlock(t, part.text)
                  [] part.type = "toolCall" -> appendToolCallBlock(t, part.call),
             turn, content)

\* createAssistantTurn is the merge into an empty turn.
mergeAssistantTurn(turn, message) ==
    LET startsWithThinking == message.content # <<>> /\ message.content[1].type = "thinking"
        base == IF startsWithThinking THEN turn ELSE finalizeOpenThinkingInTurn(turn)
    IN  [appendAssistantContent(base, message.content) EXCEPT
            !.active = TRUE, !.error = turn.error \/ message.error]

applyToolResultToTurn(turn, call) ==
    [turn EXCEPT !.blocks = MapTools(@, LAMBDA t : IF t.call = call THEN Tool(call, call) ELSE t)]

flushAssistantTurn(turn, result) ==
    LET blocks == finalizeOpenThinkingInTurn(turn).blocks
    IN  IF turn.active /\ (blocks # <<>> \/ turn.error)
        THEN Append(result, AssistantMessage(blocks, FALSE, turn.error))
        ELSE result

mapBranchMessages(messages) ==
    LET Step(acc, m) ==
            CASE m.role = "user" ->
                    [turn |-> NoTurn, result |-> Append(flushAssistantTurn(acc.turn, acc.result), UserMessage)]
              [] m.role = "toolResult" ->
                    IF acc.turn.active THEN [acc EXCEPT !.turn = applyToolResultToTurn(@, m.call)] ELSE acc
              [] m.role = "assistant" ->
                    [acc EXCEPT !.turn = mergeAssistantTurn(@, m)]
        last == FoldLeft(Step, [turn |-> NoTurn, result |-> <<>>], messages)
    IN  flushAssistantTurn(last.turn, last.result)
-----------------------------------------------------------------------------
(* The harness, its events, and the user.                                  *)

Init ==
    /\ phase = "prompted"
    /\ partial = <<>> /\ log = <<>>
    /\ waiting = <<>> /\ running = {}
    /\ steers = 0 /\ parts = 0 /\ sent = 0
    /\ stopped = FALSE
    /\ shown = <<UserMessage>>

AssistantMessages == SelectSeq(log, LAMBDA m : m.role = "assistant")

\* agent_start
AgentStart ==
    /\ phase = "prompted"
    /\ phase' = "streaming"
    /\ log' = <<User>>
    /\ shown' = Append(shown, createAssistantMessage)
    /\ UNCHANGED <<partial, waiting, running, steers, parts, sent, stopped>>

\* A delta of thinking or text, in the part it continues or in a new one.
StreamDelta(type) ==
    /\ phase = "streaming"
    /\ parts < MaxParts
    /\ parts' = parts + 1
    /\ \/ partial' = Append(partial, Delta(type, parts'))
       \/ /\ LastIs(partial, type)
          /\ partial' = [partial EXCEPT ![Len(partial)].text = Append(@, parts')]
    /\ ShowBlocks(LAMBDA b : IF type = "text" THEN appendTextDelta(b, parts')
                             ELSE appendThinkingDelta(b, parts'))
    /\ UNCHANGED <<phase, log, waiting, running, steers, sent, stopped>>

\* A tool call is streamed; mapHarnessEventToSse has no event for it.
StreamCall ==
    /\ phase = "streaming"
    /\ parts < MaxParts
    /\ parts' = parts + 1
    /\ partial' = Append(partial, CallPart(parts'))
    /\ UNCHANGED <<phase, log, waiting, running, steers, sent, stopped, shown>>

\* The message is complete and is stored; an LLM error ends the reply.
MessageEnd(error) ==
    /\ phase = "streaming"
    /\ log' = Append(log, Assistant(partial, error))
    /\ partial' = <<>>
    /\ waiting' = IF error THEN <<>>
                  ELSE LET calls == SelectSeq(partial, LAMBDA p : p.type = "toolCall")
                       IN  [i \in DOMAIN calls |-> calls[i].call]
    /\ phase' = IF waiting' = <<>> THEN "between" ELSE "tools"
    /\ UNCHANGED <<running, steers, parts, sent, stopped, shown>>

\* tool_execution_start
ToolStart ==
    /\ phase = "tools"
    /\ waiting # <<>>
    /\ waiting' = Tail(waiting)
    /\ running' = running \cup {Head(waiting)}
    /\ ShowBlocks(LAMBDA b : appendToolStart(b, Head(waiting)))
    /\ UNCHANGED <<phase, partial, log, steers, parts, sent, stopped>>

\* tool_execution_end; the result is stored.
ToolEnd(call) ==
    /\ phase = "tools"
    /\ call \in running
    /\ running' = running \ {call}
    /\ log' = Append(log, ToolResult(call))
    /\ phase' = IF running' = {} /\ waiting = <<>> THEN "between" ELSE phase
    /\ ShowBlocks(LAMBDA b : updateToolEnd(b, call, call))
    /\ UNCHANGED <<partial, waiting, steers, parts, sent, stopped>>

\* The tools' results go to the LLM, or a message of the user's.
NextMessage ==
    /\ phase = "between"
    /\ Len(AssistantMessages) < MaxMessages
    /\ ~Last(log).error
    /\ \/ steers > 0 /\ steers' = steers - 1 /\ log' = Append(log, User)
       \/ Last(log).role = "toolResult" /\ UNCHANGED <<steers, log>>
    /\ phase' = "streaming"
    /\ UNCHANGED <<partial, waiting, running, parts, sent, stopped, shown>>

\* sendMessage in mode steer: shown at once, delivered between messages.
Steer ==
    /\ phase \in {"streaming", "tools", "between"}
    /\ sent < MaxSteers
    /\ sent' = sent + 1
    /\ steers' = steers + 1
    /\ shown' = Append(shown, UserMessage)
    /\ UNCHANGED <<phase, partial, log, waiting, running, parts, stopped>>

\* stopGeneration: finalizeStoppedAssistantTail before the daemon is told.
\* A steering message at the end of the screen hides the button (canStop).
Stop ==
    /\ isStreaming(shown)
    /\ ~stopped
    /\ stopped' = TRUE
    /\ shown' = updateLastAssistant(shown, Finalized)
    /\ UNCHANGED <<phase, partial, log, waiting, running, steers, parts, sent>>

\* abort reaches the harness: what has been streamed is stored, tools end
\* without a result, and the reply is over.
Aborted ==
    /\ stopped
    /\ \/ phase = "streaming" /\ log' = Append(log, Assistant(partial, FALSE))
       \/ phase = "tools" /\ UNCHANGED log
    /\ partial' = <<>> /\ waiting' = <<>> /\ running' = {}
    /\ phase' = "between"
    /\ UNCHANGED <<steers, parts, sent, stopped, shown>>

\* agent_end; the refresh of the tree that it starts is StreamEqualsReload's.
AgentEnd ==
    /\ phase = "between"
    /\ Last(log).role = "toolResult" => stopped \/ Len(AssistantMessages) = MaxMessages
    /\ phase' = IF Last(log).error THEN "closing" ELSE "ended"
    /\ shown' = updateLastAssistant(shown, Finalized)
    /\ UNCHANGED <<partial, log, waiting, running, steers, parts, sent, stopped>>

\* error, with which dispatchTurn reports the LLM's failure.
ReportError ==
    /\ phase = "closing"
    /\ phase' = "ended"
    /\ shown' = updateLastAssistant(shown, LAMBDA m : [m EXCEPT !.streaming = FALSE, !.error = TRUE])
    /\ UNCHANGED <<partial, log, waiting, running, steers, parts, sent, stopped>>

Next ==
    \/ AgentStart
    \/ \E type \in {"thinking", "text"} : StreamDelta(type)
    \/ StreamCall
    \/ \E error \in BOOLEAN : MessageEnd(error)
    \/ ToolStart
    \/ \E call \in running : ToolEnd(call)
    \/ NextMessage
    \/ Steer
    \/ Stop
    \/ Aborted
    \/ AgentEnd
    \/ ReportError

Spec == Init /\ [][Next]_vars
-----------------------------------------------------------------------------
TypeOK ==
    /\ phase \in Phases
    /\ parts \in 0..MaxParts /\ sent \in 0..MaxSteers /\ steers \in 0..sent
    /\ stopped \in BOOLEAN
    /\ running \subseteq 1..parts
    /\ \A i \in DOMAIN waiting : waiting[i] \in 1..parts

\* A block that counts time is the last of its message: whatever follows
\* thinking has closed it.
OpenIsLast(message) ==
    \A i \in DOMAIN message.blocks : message.blocks[i].open =>
        message.blocks[i].type = "thinking" /\ i = Len(message.blocks)

\* What the messages of a branch contain, in order: the reference against
\* which the tree's fold is checked.
Results == {log[i].call : i \in {i \in DOMAIN log : log[i].role = "toolResult"}}
Items(content) ==
    FlattenSeq([i \in DOMAIN content |->
        IF content[i].type = "toolCall"
        THEN <<<<"tools", content[i].call,
                 IF content[i].call \in Results THEN content[i].call ELSE NoResult>>>>
        ELSE [k \in DOMAIN content[i].text |-> <<content[i].type, content[i].text[k], NoResult>>]])
StoredItems ==
    FlattenSeq([i \in DOMAIN log |-> Items(log[i].content)])

\* The same of the messages on a screen.
BlockItems(block) ==
    IF block.type = "tools"
    THEN [k \in DOMAIN block.tools |-> <<"tools", block.tools[k].call, block.tools[k].result>>]
    ELSE [k \in DOMAIN block.text |-> <<block.type, block.text[k], NoResult>>]
ScreenItems(messages) ==
    FlattenSeq([i \in DOMAIN messages |->
        FlattenSeq([k \in DOMAIN messages[i].blocks |-> BlockItems(messages[i].blocks[k])])])

\* The tree's view loses, invents and reorders nothing, gives each result to
\* its call, joins what belongs together and leaves no clock running.
ReloadIsFaithful ==
    LET view == mapBranchMessages(log)
    IN  /\ ScreenItems(view) = StoredItems
        /\ \A i \in DOMAIN view : \A k \in DOMAIN view[i].blocks :
                /\ ~view[i].blocks[k].open
                /\ k > 1 => view[i].blocks[k].type # view[i].blocks[k - 1].type

\* No two clocks run on the screen, and none after the end of the reply
\* (finalizeOpenThinkingBlocks closes one block only).
OneClock ==
    /\ \A i \in DOMAIN shown : OpenIsLast(shown[i])
    /\ phase \in {"closing", "ended"} =>
            \A i \in DOMAIN shown : \A k \in DOMAIN shown[i].blocks : ~shown[i].blocks[k].open

\* A message whose tool calls come after its thinking and text, as LLMs write them.
CallsLast(content) ==
    \A i, k \in DOMAIN content : i < k /\ content[i].type = "toolCall" => content[k].type = "toolCall"
Orderly ==
    /\ \A i \in DOMAIN log : CallsLast(log[i].content)
    /\ \A i \in DOMAIN log : \A k \in DOMAIN log[i].content :
            log[i].content[k].type = "toolCall" => log[i].content[k].call \in Results

Plain(message) == [message EXCEPT !.streaming = FALSE]
Visible(messages) ==
    LET kept == SelectSeq(messages, LAMBDA m : m.role = "user" \/ m.blocks # <<>> \/ m.error)
    IN  [i \in DOMAIN kept |-> Plain(kept[i])]

\* At the end of a reply the screen shows what the session tree will show:
\* the refresh that agent_end starts changes nothing.  With messages of the
\* user in between, the contents are the same, in the same order.
StreamEqualsReload ==
    phase = "ended" /\ Orderly =>
        /\ ScreenItems(shown) = ScreenItems(mapBranchMessages(log))
        /\ sent = 0 => Visible(shown) = mapBranchMessages(log)

\* The clocks of the screen, what a reload makes of the stored branch at any moment, and what
\* the screen shows when the reply has ended.
ReplyInv == TypeOK /\ OneClock /\ ReloadIsFaithful /\ StreamEqualsReload
=============================================================================
