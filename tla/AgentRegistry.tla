----------------------------- MODULE AgentRegistry -----------------------------
(***************************************************************************)
(* The agents, personas and skills that the daemon and the commands read   *)
(* from the directories below ~/.muse (agent-registry.ts,                  *)
(* harness-factory.ts, commands/agent.ts), file by file and without a      *)
(* lock, while a package operation removes and copies the same files       *)
(* (market-installer.ts, install-musepack-assets.ts).                      *)
(*                                                                         *)
(* One package with one persona, some skills and one agent, and one agent  *)
(* of a user that names its persona; one package operation at a time       *)
(* (MarketInstaller has several, and the file that registers them).  A     *)
(* file holds the number of its version, negative while it is not          *)
(* complete: cut off, or a persona.json that has not been given its id.    *)
(***************************************************************************)
EXTENDS Integers, Sequences, FiniteSets

CONSTANTS SkillsOf,  \* version -> the sequence of its skills
          Calls,     \* requests and commands under way, numbered
          Budgets    \* bounds: how many operations, calls and kills there can be

Releases == DOMAIN SkillsOf
Elements(s) == {s[i] : i \in DOMAIN s}
Skills == UNION {Elements(SkillsOf[v]) : v \in Releases}

ASSUME AgentRegistryAssumption ==
    /\ Releases \subseteq Nat \ {0} /\ Calls \subseteq Nat
    /\ Budgets \subseteq [{"operations", "calls", "kills"} -> Nat]
    /\ \A v \in Releases : SkillsOf[v] \in Seq(Skills)
    /\ Skills \cap {"agents", "agent", "persona", "persona.json", "system.md", "user"} = {}

VARIABLES
    files,      \* file -> version, negative if incomplete, 0 if not there
    userSkills, \* the skills that the user's agent.json names
    installed,  \* the registered version of the package, 0 for none
    writer,     \* the package operation: [step, to, todo]
    calls,      \* call -> what it does, see BeginCall
    killed,     \* a process has been killed in the middle of its writes
    budget      \* what is left of the bounds

agentVars == <<files, userSkills, installed, writer, calls, killed, budget>>

\* The package's agent.json, the files of its persona, the SKILL.md of each skill, and
\* the agent.json of the user
Files == {"agent", "persona.json", "system.md", "user"} \cup Skills

\* An asset is a directory, in the order in which they are installed.
FilesOf(asset) == IF asset = "persona" THEN {"persona.json", "system.md"} ELSE {asset}
AssetList(v) == IF v = 0 THEN <<>> ELSE <<"persona">> \o SkillsOf[v] \o <<"agent">>
Installed(v) == UNION {FilesOf(a) : a \in Elements(AssetList(v))}

NoOp == [step |-> "idle", to |-> 0, todo |-> <<>>]

NoCall == [step |-> "idle"]

AgentsInit ==
    /\ installed \in {0} \cup Releases
    /\ \E user \in {0} \cup ({1} \cap {installed}) :
         /\ files = [f \in Files |-> IF f = "user" THEN user ELSE IF f \in Installed(installed) THEN installed ELSE 0]
         /\ userSkills = IF user = 1 THEN SkillsOf[1] ELSE <<>>
    /\ writer = NoOp
    /\ calls = [c \in Calls |-> NoCall]
    /\ killed = FALSE
    /\ budget \in Budgets

Active(c) == calls[c].step \in {"read", "write"}
Writing == {c \in Calls : calls[c].step = "write"}

\* Nothing is half done, and what is there is the registered version.
Whole ==
    /\ writer.step = "idle" /\ Writing = {} /\ files["user"] \in {0, 1}
    /\ \A f \in Files \ {"user"} : files[f] = IF f \in Installed(installed) THEN installed ELSE 0

Spend(what) == budget[what] > 0 /\ budget' = [budget EXCEPT ![what] = @ - 1]

\* A writer begins: the calls under way have met it.
Met(others, to) == [c \in Calls |-> IF c \in others /\ Active(c) THEN [calls[c] EXCEPT !.overlap = @ + 1, !.to = to] ELSE calls[c]]

-----------------------------------------------------------------------------
(* The package operation: an installation or an update to a version. *)

\* Faulty InstallPackage: it relies on the removal that each new asset begins with.
ReplaceInPlace(v) ==
    /\ writer.step = "idle" /\ Spend("operations")
    /\ writer' = [step |-> "remove", to |-> v, todo |-> <<>>]
    /\ calls' = Met(Calls, v)
    /\ UNCHANGED <<files, userSkills, installed, killed>>

\* installMarketPackageFromExtract: what is registered goes first, then the new assets.
InstallPackage(v) ==
    /\ writer.step = "idle" /\ Spend("operations")
    /\ writer' = [step |-> "remove", to |-> v, todo |-> AssetList(installed)]
    /\ calls' = Met(Calls, v)
    /\ UNCHANGED <<files, userSkills, installed, killed>>

\* removeInstalledAssets, and the rm with which each installation of an asset begins: the
\* files of a directory go one by one.
RemoveFiles ==
    /\ writer.step \in {"remove", "clear"} /\ writer.todo # <<>>
    /\ LET there == {f \in FilesOf(Head(writer.todo)) : files[f] # 0} IN
       IF there = {}
       THEN /\ writer' = IF writer.step = "clear" THEN [writer EXCEPT !.step = "copy"] ELSE [writer EXCEPT !.todo = Tail(@)]
            /\ UNCHANGED files
       ELSE \E f \in there : files' = [files EXCEPT ![f] = 0] /\ UNCHANGED writer
    /\ UNCHANGED <<userSkills, installed, calls, killed, budget>>

BeginAssets ==
    /\ writer.step = "remove" /\ writer.todo = <<>>
    /\ writer' = [writer EXCEPT !.step = "clear", !.todo = AssetList(writer.to)]
    /\ UNCHANGED <<files, userSkills, installed, calls, killed, budget>>

\* installPersonaFromDir, installSkillFromDir, installAgentFromDir: a file is created and
\* filled; persona.json is written once more, with its id, when cp has returned.
CopyFile(f) ==
    /\ writer.step = "copy" /\ f \in FilesOf(Head(writer.todo))
    /\ \/ files[f] = 0 /\ files' = [files EXCEPT ![f] = -writer.to]
       \/ /\ files[f] < 0 /\ (f = "persona.json" => files["system.md"] = writer.to)
          /\ files' = [files EXCEPT ![f] = writer.to]
    /\ writer' = IF \A g \in FilesOf(Head(writer.todo)) : files'[g] = writer.to
             THEN [writer EXCEPT !.todo = Tail(@), !.step = IF Len(writer.todo) = 1 THEN "register" ELSE "clear"]
             ELSE writer
    /\ UNCHANGED <<userSkills, installed, calls, killed, budget>>

\* upsertInstalledPackage
RegisterPackage ==
    /\ writer.step = "register"
    /\ installed' = writer.to /\ writer' = NoOp
    /\ UNCHANGED <<files, userSkills, calls, killed, budget>>

\* The operation throws or its process is killed.
KillOperation ==
    /\ writer.step # "idle" /\ Spend("kills")
    /\ writer' = NoOp /\ killed' = TRUE
    /\ UNCHANGED <<files, userSkills, installed, calls>>

-----------------------------------------------------------------------------
(* Calls: each reads file by file. *)

\* todo: what the call reads next, seen: the versions it has read in this order.  whole,
\* version, userSkills, user: the disk when it began, overlap: how many writers it has met,
\* to: the version that the last one installs.  Calls that only read do not touch each
\* other, so a bound: one beside a creation.
BeginCall(kind, agent, skills, reads) ==
    \E c \in Calls :
      /\ ~Active(c) /\ \A d \in Calls : ~Active(d) => c <= d
      /\ \A d \in Calls : Active(d) => (calls[d].kind = "create") # (kind = "create")
      /\ Spend("calls")
      /\ calls' = [calls EXCEPT ![c] =
           [kind |-> kind, agent |-> agent, step |-> "read", skills |-> skills, todo |-> reads, seen |-> <<>>,
            whole |-> Whole, version |-> installed, userSkills |-> userSkills, user |-> files["user"],
            overlap |-> IF writer.step = "idle" /\ Writing = {} THEN 0 ELSE 1, to |-> writer.to]]
      /\ UNCHANGED <<files, userSkills, installed, writer, killed>>

\* The skills of the agent follow when it is known.
Context == <<"agents", "persona.json", "system.md">>

\* Of the settings of a session, for example
resolveRuntimeContext(agent) == BeginCall("context", agent, <<>>, Context)

\* createHarnessWithEvents: the context for the harness options, and another for the tools
StartTurn(agent) == BeginCall("turn", agent, <<>>, Context)

\* muse agent use and the route that creates a session
getAgent(agent) == BeginCall("get", agent, <<>>, <<"agents">>)

listPersonas == BeginCall("personas", "user", <<>>, <<"persona.json">>)
listSkills(v) == SkillsOf[v] # <<>> /\ BeginCall("skills", "user", <<>>, SkillsOf[v])

\* createAgent of the route and of muse agent: the persona and the skills are tried first.
createUserAgent(v) ==
    /\ files["user"] = 0
    /\ BeginCall("create", "user", SkillsOf[v], <<"persona.json", "system.md">> \o SkillsOf[v])

\* A call that has read what it wanted
Taken(r) ==
    IF r.todo # <<>> THEN r
    ELSE IF r.kind = "create" THEN [r EXCEPT !.step = "write"]
    ELSE IF r.kind = "turn" THEN [r EXCEPT !.kind = "turn again", !.todo = Context]
    ELSE [r EXCEPT !.step = "done"]

Took(r, v) == Taken([r EXCEPT !.todo = Tail(@), !.seen = IF v = 0 THEN @ ELSE Append(@, v)])
Fails(r) == [r EXCEPT !.step = "failed"]

\* loadAgentFromDir: a directory without agent.json is no agent, one that does not parse throws.
Readable(f) == files[f] >= 0

\* listAgents in one step, and getAgent: the agent must be among them.
TakeAgents(r) ==
    LET v == files[r.agent] named == IF r.agent = "user" THEN userSkills ELSE SkillsOf[v] IN
    IF ~Readable("agent") \/ ~Readable("user") \/ v = 0 THEN {Fails(r)}
    ELSE {Took([r EXCEPT !.todo = IF r.kind = "get" THEN @ ELSE @ \o named], IF r.agent = "user" THEN 0 ELSE v)}

\* collectPersonaDirs: what is not there is passed over.
ListPersona(r) == {IF Readable("persona.json") THEN Took(r, files["persona.json"]) ELSE Fails(r)}

\* loadPersona
TakePersona(r) == {IF files["persona.json"] > 0 THEN Took(r, files["persona.json"]) ELSE Fails(r)}

\* Its system.md is any text, also one that is cut off.
TakePrompt(r) == {IF files["system.md"] = 0 THEN Fails(r) ELSE Took(r, files["system.md"])}

\* listSkills passes over what is not a skill; the head of a file that is cut off may be there.
ListSkill(r, s) == {Took(r, v) : v \in IF files[s] < 0 THEN {0, -files[s]} ELSE {files[s]}}

\* loadSkillsForAgent needs a SKILL.md with its head.
TakeSkill(r, s) ==
    LET v == files[s] IN
    CASE v > 0 -> {Took(r, v)}
      [] v = 0 -> {Fails(r)}
      [] v < 0 -> {Took(r, -v), Fails(r)}

\* createAgent: the directory of a skill is enough.
FindSkill(r, s) == {IF files[s] = 0 THEN Fails(r) ELSE Took(r, IF files[s] < 0 THEN -files[s] ELSE files[s])}

\* What can come of the next read
After(r) ==
    LET f == Head(r.todo) IN
    CASE f = "agents" -> TakeAgents(r)
      [] f = "persona.json" -> IF r.kind = "personas" THEN ListPersona(r) ELSE TakePersona(r)
      [] f = "system.md" -> TakePrompt(r)
      [] f \in Skills -> IF r.kind = "skills" THEN ListSkill(r, f)
                         ELSE IF r.kind = "create" THEN FindSkill(r, f) ELSE TakeSkill(r, f)

\* A creation goes on to open its agent.json for writing.
ReadNext(c) ==
    /\ calls[c].step = "read"
    /\ \E after \in After(calls[c]) :
         IF after.step = "write"
         THEN /\ calls' = [Met(Calls \ {c}, 0) EXCEPT ![c] = after]
              /\ files' = [files EXCEPT !["user"] = -1] /\ userSkills' = after.skills
         ELSE /\ calls' = [calls EXCEPT ![c] = after]
              /\ UNCHANGED <<files, userSkills>>
    /\ UNCHANGED <<installed, writer, killed, budget>>

\* createAgent: agent.json is written, or its process is killed meanwhile.
WriteAgent(c) ==
    /\ calls[c].step = "write"
    /\ \/ /\ files' = [files EXCEPT !["user"] = 1] /\ calls' = [calls EXCEPT ![c].step = "done"]
          /\ UNCHANGED <<killed, budget>>
       \/ Spend("kills") /\ calls' = [calls EXCEPT ![c] = NoCall] /\ killed' = TRUE /\ UNCHANGED files
    /\ UNCHANGED <<userSkills, installed, writer>>

-----------------------------------------------------------------------------

AgentsNext ==
    \/ \E v \in Releases : InstallPackage(v) \/ listSkills(v) \/ createUserAgent(v)
    \/ RemoveFiles \/ BeginAssets \/ RegisterPackage \/ KillOperation
    \/ \E f \in Files : CopyFile(f)
    \/ \E agent \in {"agent", "user"} : resolveRuntimeContext(agent) \/ StartTurn(agent) \/ getAgent(agent)
    \/ listPersonas
    \/ \E c \in Calls : ReadNext(c) \/ WriteAgent(c)

AgentsSpec == AgentsInit /\ [][AgentsNext]_agentVars

-----------------------------------------------------------------------------

AgentTypeOK ==
    /\ files["user"] \in {-1, 0, 1}
    /\ \A f \in Files \ {"user"} : files[f] \in Int /\ (files[f] >= 0 \/ -files[f] \in Releases)
    /\ installed \in {0} \cup Releases
    /\ writer.step \in {"idle", "remove", "clear", "copy", "register"}
    /\ \A c \in Calls : calls[c].step = "read" => calls[c].todo # <<>>

\* What the disk had for call r when it began
Had(r, skills) == r.version # 0 /\ Elements(skills) \subseteq Elements(SkillsOf[r.version])

Answerable(r) ==
    CASE r.kind \in {"context", "turn", "turn again"} ->
           IF r.agent = "user" THEN r.user = 1 /\ Had(r, r.userSkills) ELSE r.version # 0
      [] r.kind = "get" -> IF r.agent = "user" THEN r.user = 1 ELSE r.version # 0
      [] r.kind = "create" -> Had(r, r.skills)
      [] OTHER -> TRUE

\* A call that begins on a whole disk and meets no writer fails exactly when what it asks
\* for is not there, for a user's agent because an update dropped a skill; and all that it
\* has read is of the registered version, a turn's tools as well as its system prompt.
UndisturbedCalls ==
    \A c \in Calls : LET r == calls[c] IN
      r.step \in {"write", "done", "failed"} /\ r.overlap = 0 /\ r.whole =>
        /\ (r.step = "failed") = ~Answerable(r)
        /\ \A i \in DOMAIN r.seen : r.seen[i] = r.version

\* A call can read the files of two versions while one operation replaces them.  Unless an
\* operation was killed, it then reads old files first and new files after: never a new
\* persona with the skills of the version before it.
OneSeam ==
    ~killed =>
      \A c \in Calls : LET r == calls[c] IN
        r.step \notin {"idle", "failed"} /\ r.overlap = 1 /\ r.to # r.version =>
          \A i, j \in DOMAIN r.seen : i < j /\ r.seen[i] \in {r.to, -r.to} => r.seen[j] # r.version

\* A call that meets no writer gets no system prompt that is cut off, not even after an
\* operation was killed while it copied one: its persona.json has no id yet.
PromptsWhole ==
    \A c \in Calls : LET r == calls[c] IN
      r.step \in {"write", "done"} /\ r.overlap = 0 => \A i \in DOMAIN r.seen : r.seen[i] > 0

AgentRegistryInv == AgentTypeOK /\ UndisturbedCalls /\ OneSeam /\ PromptsWhole
=============================================================================
