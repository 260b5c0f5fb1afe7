------------------------------ MODULE SessionTree ------------------------------
(***************************************************************************)
(* The tree of a session: the entries of its JSONL file, each under its    *)
(* parent, and the leaf at which the next entry goes.  Every operation     *)
(* opens the file anew (session-store.ts) and appends with the leaf it has *)
(* read: the turn, a change of the thinking level                          *)
(* (session-settings-service.ts) and a navigation know nothing of each     *)
(* other.  What the screen shows is computed from the file                 *)
(* (session-tree.ts), and once more from that (session-tree-utils.ts).     *)
(*                                                                         *)
(* The file and the leaf are pi's: an entry goes under the leaf in memory  *)
(* and becomes the leaf, and a move appends an entry that names the new    *)
(* leaf.  An entry's position stands for its id and its timestamp.         *)
(***************************************************************************)
EXTENDS Naturals, Sequences, FiniteSets

CONSTANTS MaxEntries,  \* the length of the file
          MaxMoves,    \* navigations and changes of the level together
          None

VARIABLES
  file,     \* sequence of [kind, parent, leaf]; 0 is no entry
  turn,     \* the turn's session: None or [leaf, last], last being the entry it appended last
  patch,    \* the session opened by PATCH settings: None or its leaf
  goal,     \* the leaf that a navigation has resolved: None or an entry
  moves,
  stale,    \* an entry was appended under a leaf that was not the file's
  moved     \* a navigation was carried out

vars == <<file, turn, patch, goal, moves, stale, moved>>

Init == file = <<>> /\ turn = None /\ patch = None /\ goal = None /\ moves = 0 /\ stale = FALSE /\ moved = FALSE

Kind(i) == file[i].kind
Parent(i) == file[i].parent
Leaf == IF file = <<>> THEN 0 ELSE file[Len(file)].leaf
Entries == DOMAIN file
MaxOf(S) == IF S = {} THEN 0 ELSE CHOOSE x \in S : \A y \in S : y <= x
MinOf(S) == CHOOSE x \in S : \A y \in S : x <= y

\* The entries from i up to the root
Path(i) == LET up[j \in 0 .. Len(file)] == IF j = 0 THEN {} ELSE {j} \cup up[Parent(j)] IN up[i]
Messages(S) == {j \in S : Kind(j) \in {"user", "assistant"}}

-----------------------------------------------------------------------------
(* session-tree.ts *)

isInternalConfigEntry(i) == Kind(i) = "level"

findConversationTipEntryId == MaxOf({i \in Entries : Kind(i) \in {"user", "assistant", "toolResult"}})

\* resolveBranchLeafId: where the branch on the screen ends
resolveBranchLeafId ==
  IF Leaf = 0 \/ isInternalConfigEntry(Leaf) THEN findConversationTipEntryId ELSE Leaf

Children(i) == {j \in Entries : Parent(j) = i}

\* isTurnWalkContinuationEntry
Continuations(i) == {j \in Children(i) : Kind(j) \notin {"leaf", "user"}}

\* findLatestAssistantTimestampInTurnSubtree; 0 is before everything
LatestAssistant(i) ==
  MaxOf({j \in Entries : /\ Kind(j) = "assistant" /\ i \in Path(j) \ {j}
                         /\ \A k \in Path(j) \ Path(i) : Kind(k) # "user"})

\* Faulty pickTurnContinuationChild: the oldest of them.
PickOldest(i, prefer) == IF Continuations(i) = {} THEN 0 ELSE MinOf(Continuations(i))

\* pickTurnContinuationChild: the one towards prefer, else the one with the latest answer
\* below it, else the oldest
pickTurnContinuationChild(i, prefer) ==
  LET cs == Continuations(i)
      towards == cs \cap Path(prefer)
      from == IF towards # {} THEN towards ELSE cs
      latest == MaxOf({LatestAssistant(c) : c \in from})
  IN IF cs = {} THEN 0 ELSE MinOf({c \in from : LatestAssistant(c) = latest})

\* findTurnTipEntryId: the last assistant on the way down, else the user entry itself
findTurnTipEntryId(user, prefer) ==
  LET last[n \in 0 .. Len(file)] ==
        IF n = 0 THEN 0
        ELSE LET next == pickTurnContinuationChild(n, prefer) IN
             IF next = 0 THEN 0
             ELSE IF last[next] # 0 THEN last[next]
             ELSE IF Kind(next) = "assistant" THEN next ELSE 0
  IN IF last[user] = 0 THEN user ELSE last[user]

\* findTurnUserEntryId
findTurnUserEntryId(i) == MaxOf({j \in Path(i) : Kind(j) = "user"})

\* resolveNavigateLeafId, resolveNavigateTargetLeafId: before a question, or at the end of
\* the turn that an answer belongs to
resolveNavigateTargetLeafId(i) ==
  IF Kind(i) = "user" THEN Parent(i)
  ELSE IF Kind(i) # "assistant" \/ findTurnUserEntryId(i) = 0 THEN i
  ELSE findTurnTipEntryId(findTurnUserEntryId(i), i)

-----------------------------------------------------------------------------
(* session-tree-utils.ts: the turns of the panel, from the visible entries. *)

Users == {i \in Entries : Kind(i) = "user"}
VisibleChildren(i) == {j \in Children(i) : Kind(j) = "assistant"}

\* buildSessionTurns: entryId, the entry to which a click on the turn navigates
TurnEntry(user) == IF VisibleChildren(user) = {} THEN user ELSE MinOf(VisibleChildren(user))

\* buildSessionTurns: resolveParentTurnId, which knows the visible entries only
ParentTurn(user) ==
  LET up[j \in 0 .. Len(file)] ==
        IF j = 0 \/ Kind(j) \notin {"user", "assistant"} THEN 0
        ELSE IF Kind(j) = "user" THEN j ELSE up[Parent(j)]
  IN up[Parent(user)]

-----------------------------------------------------------------------------
(* The daemon. *)

Room == Len(file) < MaxEntries
Write(kind, parent) == file' = Append(file, [kind |-> kind, parent |-> parent, leaf |-> Len(file) + 1])

\* An entry under the leaf that an open session has in memory
AppendUnder(kind, leaf) == Room /\ Write(kind, leaf) /\ stale' = (stale \/ leaf # Leaf)

\* dispatchTurn opens the session; its prompt comes next.
StartTurn ==
  /\ turn = None /\ Room
  /\ turn' = [leaf |-> Leaf, last |-> 0]
  /\ UNCHANGED <<file, patch, goal, moves, stale, moved>>

\* The harness stores the question, then answers and tool results in turn, at the end the
\* statistics of agent_end; a turn may be cut short before any of them but the first.
AppendTurn(kind) ==
  /\ turn # None
  /\ LET last == IF turn.last = 0 THEN "none" ELSE Kind(turn.last) IN
     \/ kind = "user" /\ last = "none"
     \/ kind = "assistant" /\ last \in {"user", "toolResult"}
     \/ kind = "toolResult" /\ last = "assistant"
     \/ kind = "stats" /\ last \notin {"none", "stats"}
  /\ AppendUnder(kind, turn.leaf)
  /\ turn' = [leaf |-> Len(file'), last |-> Len(file')]
  /\ UNCHANGED <<patch, goal, moves, moved>>

EndTurn ==
  /\ turn # None /\ turn.last # 0
  /\ turn' = None
  /\ UNCHANGED <<file, patch, goal, moves, stale, moved>>

\* PATCH /sessions/:sessionId/settings opens the session, and after some awaits the harness
\* that it builds for this stores the level.
PatchOpens ==
  /\ patch = None /\ moves < MaxMoves /\ moves' = moves + 1
  /\ patch' = Leaf
  /\ UNCHANGED <<file, turn, goal, stale, moved>>

setThinkingLevel ==
  /\ patch # None /\ AppendUnder("level", patch)
  /\ patch' = None
  /\ UNCHANGED <<turn, goal, moves, moved>>

\* POST /sessions/:sessionId/navigate resolves the leaf, then moves there; whether the
\* session is busy nobody asks.
navigate(i) ==
  /\ goal = None /\ moves < MaxMoves /\ moves' = moves + 1
  /\ goal' = resolveNavigateTargetLeafId(i)
  /\ UNCHANGED <<file, turn, patch, stale, moved>>

moveTo ==
  /\ goal # None /\ Room
  /\ file' = Append(file, [kind |-> "leaf", parent |-> Leaf, leaf |-> goal])
  /\ goal' = None /\ moved' = TRUE
  /\ UNCHANGED <<turn, patch, moves, stale>>

Next ==
  \/ StartTurn \/ EndTurn \/ PatchOpens \/ setThinkingLevel \/ moveTo
  \/ \E kind \in {"user", "assistant", "toolResult", "stats"} : AppendTurn(kind)
  \/ \E i \in Messages(Entries) : navigate(i)

Spec == Init /\ [][Next]_vars

-----------------------------------------------------------------------------

\* Parents come before their children, and the leaf is an entry that can have children.
TypeOK ==
  \A i \in Entries : /\ Parent(i) < i /\ file[i].leaf <= i
                     /\ file[i].leaf # 0 => Kind(file[i].leaf) # "leaf"

\* The branch that is shown is the one that the next question continues, as long as nobody
\* has navigated and nothing was appended under a leaf that was not the file's any more.
ShownIsContinued ==
  ~moved /\ ~stale => Messages(Path(resolveBranchLeafId)) = Messages(Path(Leaf))

\* A click on an answered turn of the panel leads to a branch with that turn in it, up to
\* its last answer: below the new leaf there is no other answer of that turn.
ClickShowsTurn ==
  ~stale => \A u \in Users : TurnEntry(u) # u =>
    LET tip == resolveNavigateTargetLeafId(TurnEntry(u)) IN
    /\ {u, TurnEntry(u)} \subseteq Path(tip)
    /\ findTurnUserEntryId(tip) = u
    /\ LatestAssistant(tip) = 0

\* An answer that is clicked is on the branch to which it leads, in every tree.
ClickedIsShown ==
  \A i \in Entries : Kind(i) = "assistant" => i \in Path(resolveNavigateTargetLeafId(i))

\* In the panel a turn stands below the turn whose branch its question continues, or alone if
\* an entry that the panel does not see lies between them.
TurnsNest ==
  \A u \in Users :
    LET above == findTurnUserEntryId(Parent(u))
        between == {i \in Path(Parent(u)) : i > above}
    IN ParentTurn(u) = IF \A i \in between : Kind(i) = "assistant" THEN above ELSE 0

TreeInv == TypeOK /\ TurnsNest /\ ShownIsContinued /\ ClickShowsTurn /\ ClickedIsShown
=============================================================================
