---------------------------- MODULE MarketInstaller ----------------------------
(***************************************************************************)
(* Market packages on one machine: installed.json and the directories of   *)
(* personas, skills and agents below ~/.muse, which every muse process and *)
(* every request of the web client changes without a lock                  *)
(* (market-installer.ts, basic-kit-sync.ts, install-musepack-assets.ts),   *)
(* the agents that users build from them (agent-registry.ts), the server's *)
(* catalogue (market-service.ts) and the web page of a package             *)
(* (market-detail-page.tsx).                                               *)
(*                                                                         *)
(* An asset is a directory; its ids carry the id of its package, so no     *)
(* asset belongs to two packages.  Backups are written and never read.     *)
(***************************************************************************)
EXTENDS Naturals, Sequences, FiniteSets

CONSTANTS Packages, BasicKit,
          Contents,  \* package -> version -> the sequence of its assets, as installed
          Persona,   \* asset that is an agent -> the persona it names
          Agents,    \* agents that users create
          Ops,       \* processes and requests that can be under way at once
          Limits,    \* bounds: commands, faults, agents of users
          Torn, None

VARIABLES
  disk,    \* asset -> 0 (no directory), Torn, or the version it was copied from
  file,    \* installed.json: [torn, packages |-> package -> version, 0 if not there]
  op,      \* what each process or request is doing
  agents,  \* agent -> None, Torn, or the persona it uses
  latest,  \* server: package -> the latest published version
  npm,     \* the version of the basic kit inside the installed CLI
  page,    \* the web page of a package
  bound,   \* what the bounds have been used for
  past     \* see the properties

marketVars == <<disk, file, op, agents, latest, npm, page, bound, past>>

Assets == UNION {UNION {{Contents[p][v][i] : i \in 1 .. Len(Contents[p][v])}
                          : v \in DOMAIN Contents[p]} : p \in Packages}
AssetsOf(p, v) == IF v = 0 THEN {} ELSE {Contents[p][v][i] : i \in 1 .. Len(Contents[p][v])}
Everything(p) == UNION {AssetsOf(p, v) : v \in DOMAIN Contents[p]}
AgentAssets == DOMAIN Persona
Personas == Assets \ AgentAssets

\* A package has a first version, assets of one package only, and names of its own.
ASSUME MarketAssumption ==
  /\ BasicKit \in Packages
  /\ \A p \in Packages : 1 \in DOMAIN Contents[p] /\ DOMAIN Contents[p] \subseteq Nat \ {0}
  /\ \A p \in Packages : \A v \in DOMAIN Contents[p] : Contents[p][v] \in Seq(Assets)
  /\ \A p, q \in Packages : p # q => Everything(p) \cap Everything(q) = {}
  /\ None \notin Packages \cup Ops /\ {None, Torn} \cap Assets = {} /\ Torn \notin Nat
  /\ Agents \cap {"install", "update", "uninstall", "sync", None} = {}

Versions == {0} \cup UNION {DOMAIN Contents[p] : p \in Packages}

NoPackages == [p \in Packages |-> 0]
IdleOp == [kind |-> None, package |-> None, version |-> 0, step |-> "idle", todo |-> <<>>, read |-> None]
Blank == [device |-> FALSE, package |-> None, installed |-> 0, latest |-> 0, op |-> None]

\* A new machine, or one with a daemon on which every package was installed.
MarketInit ==
  /\ \E used \in BOOLEAN :
       /\ disk = [a \in Assets |-> IF used /\ \E p \in Packages : a \in AssetsOf(p, 1) THEN 1 ELSE 0]
       /\ file = [torn |-> FALSE, packages |-> [p \in Packages |-> IF used THEN 1 ELSE 0]]
       /\ page = [Blank EXCEPT !.device = used]
  /\ op = [o \in Ops |-> IdleOp]
  /\ agents = [x \in Agents |-> None]
  /\ latest = [p \in Packages |-> 1]
  /\ npm = 1
  /\ bound = [commands |-> 0, faults |-> 0]
  /\ past = [lost |-> FALSE, clash |-> FALSE, dropped |-> {}, late |-> {}]

\* readInstalledPackages: a file that is missing or does not parse reads as empty.
Registered(f) == IF f.torn THEN NoPackages ELSE f.packages

Step(o, step) == op' = [op EXCEPT ![o].step = step]
End(o) == op' = [op EXCEPT ![o] = IF @.kind = "sync" THEN [IdleOp EXCEPT !.step = "ready"]
                                                     ELSE [IdleOp EXCEPT !.step = IF page.op = o THEN "ended" ELSE "idle"]]

\* The operations that change the assets or the entry of p.
Working(p) == {o \in Ops : op[o].package = p /\ op[o].step \in {"check", "remove", "place", "placing", "read", "truncate", "writing"}}

-----------------------------------------------------------------------------
(* Where operations come from. *)

Issue(o, r) ==
  /\ bound.commands < Limits.commands /\ bound' = [bound EXCEPT !.commands = @ + 1]
  /\ op' = [op EXCEPT ![o] = r]

\* A muse process starts, of the CLI that is installed by now: ensureMuseRuntimeReady.
Start(o, v) ==
  /\ op[o].step = "idle" /\ v \in DOMAIN Contents[BasicKit] /\ v >= npm
  /\ npm' = v
  /\ Issue(o, [IdleOp EXCEPT !.kind = "sync", !.package = BasicKit, !.version = v, !.step = "compare"])
  /\ UNCHANGED <<disk, file, agents, latest, page, past>>

\* It turns out to be muse start: from now on the web client has a device.
Serve(o) ==
  /\ op[o].step = "ready"
  /\ op' = [op EXCEPT ![o] = IdleOp] /\ page' = [page EXCEPT !.device = TRUE]
  /\ UNCHANGED <<disk, file, agents, latest, npm, bound, past>>

\* updateMarketPackage and uninstallMarketPackage up to the first thing they do with the
\* entry; an install asks the server first.
Begun(kind, p) ==
  LET r == [IdleOp EXCEPT !.kind = kind, !.package = p] entry == Registered(file)[p] IN
  CASE kind = "install" -> [r EXCEPT !.step = "fetch"]
    [] kind = "update" -> IF entry = 0 THEN IdleOp ELSE [r EXCEPT !.step = "fetch"]
    [] kind = "uninstall" -> IF p = BasicKit \/ entry = 0 THEN IdleOp
                             ELSE [r EXCEPT !.step = "check", !.version = entry, !.read = file]

Clashes(kind, p) == kind = "uninstall" /\ Working(p) # {}

\* runMarketCommand
Command(o, kind, p) ==
  /\ op[o].step = "ready"
  /\ op' = [op EXCEPT ![o] = Begun(kind, p)]
  /\ past' = [past EXCEPT !.clash = @ \/ Clashes(kind, p)]
  /\ UNCHANGED <<disk, file, agents, latest, npm, page, bound>>

\* installMarketPackageFromFile: any version, from a .musepack of the user
InstallFile(o, p, v) ==
  /\ op[o].step = "ready" /\ v \in DOMAIN Contents[p]
  /\ op' = [op EXCEPT ![o] = [IdleOp EXCEPT !.kind = "install", !.package = p, !.version = v, !.step = "lookup"]]
  /\ UNCHANGED <<disk, file, agents, latest, npm, page, bound, past>>

\* The server is asked for the latest version of p: the versions that were published since
\* it was last asked count from now on.
AskLatest(p, v) == v \in DOMAIN Contents[p] /\ v >= latest[p] /\ latest' = [latest EXCEPT ![p] = v]

\* The effects of the page: the catalogue entry and the installed version.
LoadPage(p, v) ==
  /\ page.device /\ page.package = None
  /\ AskLatest(p, v)
  /\ page' = [page EXCEPT !.package = p, !.latest = v, !.installed = Registered(file)[p]]
  /\ UNCHANGED <<disk, file, op, agents, npm, bound, past>>

\* The buttons that the page shows
Offered ==
  (IF page.installed = 0 THEN {"install"} ELSE {})
    \cup (IF page.installed > 0 /\ page.latest > page.installed THEN {"update"} ELSE {})
    \cup (IF page.installed > 0 /\ page.package # BasicKit THEN {"uninstall"} ELSE {})

\* runAction up to the request
runAction(o, kind) ==
  /\ page.package # None /\ page.op = None /\ kind \in Offered
  /\ op[o].step = "idle"
  /\ Issue(o, [Begun(kind, page.package) EXCEPT !.step = IF @ = "idle" THEN "ended" ELSE @])
  /\ page' = [page EXCEPT !.op = o]
  /\ past' = [past EXCEPT !.clash = @ \/ Clashes(kind, page.package)]
  /\ UNCHANGED <<disk, file, agents, latest, npm>>

\* runAction after its await: fetchInstalledVersion, or the error
ActionDone ==
  /\ page.op # None /\ op[page.op].step = "ended"
  /\ op' = [op EXCEPT ![page.op] = IdleOp]
  /\ page' = [page EXCEPT !.op = None, !.installed = Registered(file)[page.package]]
  /\ UNCHANGED <<disk, file, agents, latest, npm, bound, past>>

-----------------------------------------------------------------------------
(* Installing. *)

\* syncBasicKit: compareSemver(npmVersion, installedVersion)
Compare(o) ==
  /\ op[o].step = "compare"
  /\ Step(o, IF op[o].version > Registered(file)[BasicKit] THEN "lookup" ELSE "ready")
  /\ UNCHANGED <<disk, file, agents, latest, npm, page, bound, past>>

\* createInstallUrl picks the version; the download is of that version.  Or it fails.
Fetch(o, v) ==
  /\ op[o].step = "fetch"
  /\ \/ AskLatest(op[o].package, v) /\ op' = [op EXCEPT ![o].version = v, ![o].step = "lookup"]
     \/ v = 0 /\ UNCHANGED latest /\ End(o)
  /\ UNCHANGED <<disk, file, agents, npm, page, bound, past>>

\* What follows when all that was to be removed is gone
Removed(r) ==
  LET assets == Contents[r.package][r.version] IN
  CASE r.todo # <<>> -> r
    [] r.todo = <<>> /\ r.kind = "uninstall" -> [r EXCEPT !.step = "truncate"]
    [] OTHER -> [r EXCEPT !.step = IF assets = <<>> THEN "read" ELSE "place", !.todo = assets]

\* installMarketPackageFromExtract and syncBasicKit: previous and its assets.
\* past.dropped: assets that the new version does not have.  No agent is asked.
Lookup(o) ==
  LET p == op[o].package previous == Registered(file)[p] IN
  /\ op[o].step = "lookup"
  /\ op' = [op EXCEPT ![o] = Removed([@ EXCEPT !.step = "remove",
                                        !.todo = IF previous = 0 THEN <<>> ELSE Contents[p][previous]])]
  /\ past' = [past EXCEPT !.dropped = @ \cup (AssetsOf(p, previous) \ AssetsOf(p, op[o].version)),
                          !.lost = @ \/ file.torn,
                          !.clash = @ \/ Working(p) # {}]
  /\ UNCHANGED <<disk, file, agents, latest, npm, page, bound>>

\* removeInstalledAssets, one rm
RemoveAsset(o) ==
  /\ op[o].step = "remove"
  /\ disk' = [disk EXCEPT ![Head(op[o].todo)] = 0]
  /\ op' = [op EXCEPT ![o] = Removed([@ EXCEPT !.todo = Tail(op[o].todo)])]
  /\ UNCHANGED <<file, agents, latest, npm, page, bound, past>>

\* installPersonaFromDir, installSkillFromDir, installAgentFromDir: rm and cp
Place(o) ==
  /\ op[o].step = "place"
  /\ disk' = [disk EXCEPT ![Head(op[o].todo)] = Torn]
  /\ Step(o, "placing")
  /\ UNCHANGED <<file, agents, latest, npm, page, bound, past>>

\* persona.json with its scoped id, agent.json, .muse-origin.json
Placed(o) ==
  /\ op[o].step = "placing"
  /\ disk' = [disk EXCEPT ![Head(op[o].todo)] = op[o].version]
  /\ op' = [op EXCEPT ![o].todo = Tail(@), ![o].step = IF Len(op[o].todo) = 1 THEN "read" ELSE "place"]
  /\ UNCHANGED <<file, agents, latest, npm, page, bound, past>>

\* upsertInstalledPackage: the file is read once more
Read(o) ==
  /\ op[o].step = "read"
  /\ op' = [op EXCEPT ![o].read = file, ![o].step = "truncate"]
  /\ UNCHANGED <<disk, file, agents, latest, npm, page, bound, past>>

\* writeInstalledPackages: writeFile truncates.  past.lost: another operation has changed
\* the file since this one read it, or is writing it.
Truncate(o) ==
  /\ op[o].step = "truncate"
  /\ file' = [file EXCEPT !.torn = TRUE]
  /\ past' = [past EXCEPT !.lost = @ \/ file # op[o].read \/ \E q \in Ops : op[q].step = "writing"]
  /\ Step(o, "writing")
  /\ UNCHANGED <<disk, agents, latest, npm, page, bound>>

\* writeInstalledPackages: what was read, with or without the package
Write(o) ==
  LET r == op[o] IN
  /\ r.step = "writing"
  /\ file' = [torn |-> FALSE, packages |->
       [Registered(r.read) EXCEPT ![r.package] = IF r.kind = "uninstall" THEN 0 ELSE r.version]]
  /\ End(o)
  /\ UNCHANGED <<disk, agents, latest, npm, page, bound, past>>

-----------------------------------------------------------------------------
(* Uninstalling, and the agents that stand in its way. *)

\* listAgents: one agent.json that does not parse fails the whole list.
AgentsReadable == (\A x \in Agents : agents[x] # Torn) /\ (\A a \in AgentAssets : disk[a] # Torn)

\* findAgentsReferencingPackageAssets; the agents of the package itself count as well.
References(p, v) ==
  {x \in Agents : agents[x] \in AssetsOf(p, v)}
    \cup {a \in AgentAssets : disk[a] # 0 /\ Persona[a] \in AssetsOf(p, v)}

\* Faulty Check: it does not look at the agents of the users.
CheckPackaged(o) ==
  LET r == op[o] IN
  /\ r.step = "check"
  /\ IF \A a \in AgentAssets : disk[a] = 0 \/ Persona[a] \notin AssetsOf(r.package, r.version)
     THEN op' = [op EXCEPT ![o] = Removed([@ EXCEPT !.step = "remove", !.todo = Contents[r.package][r.version]])]
     ELSE End(o)
  /\ UNCHANGED <<disk, file, agents, latest, npm, page, bound, past>>

\* uninstallMarketPackage: conflicts end it
Check(o) ==
  LET r == op[o] IN
  /\ r.step = "check"
  /\ IF AgentsReadable /\ References(r.package, r.version) = {}
     THEN op' = [op EXCEPT ![o] = Removed([@ EXCEPT !.step = "remove", !.todo = Contents[r.package][r.version]])]
     ELSE End(o)
  /\ UNCHANGED <<disk, file, agents, latest, npm, page, bound, past>>

\* createAgent: loadPersona, which throws for a persona that is not complete
createAgent(o, x, a) ==
  /\ op[o].step = "idle" /\ page.device /\ agents[x] = None /\ disk[a] \notin {0, Torn}
  /\ \A q \in Ops : op[q].kind # x
  /\ Issue(o, [IdleOp EXCEPT !.kind = x, !.todo = <<a>>, !.step = "agent"])
  /\ UNCHANGED <<disk, file, agents, latest, npm, page, past>>

\* createAgent: agent.json.  past.late: its persona is being removed, or is gone.
AgentWritten(o) ==
  LET x == op[o].kind a == Head(op[o].todo) IN
  /\ op[o].step = "agent"
  /\ agents' = [agents EXCEPT ![x] = a]
  /\ past' = [past EXCEPT !.late =
       IF \/ disk[a] = 0
          \/ \E q \in Ops : op[q].kind = "uninstall" /\ op[q].step = "remove" /\ a \in AssetsOf(op[q].package, op[q].version)
       THEN @ \cup {x} ELSE @]
  /\ End(o)
  /\ UNCHANGED <<disk, file, latest, npm, page, bound>>

-----------------------------------------------------------------------------
(* Failures. *)

\* An operation throws or its process is killed, between any two of its steps.
Crash(o) ==
  /\ op[o].step \notin {"idle", "ended", "ready"}
  /\ bound.faults < Limits.faults /\ bound' = [bound EXCEPT !.faults = @ + 1]
  /\ op' = [op EXCEPT ![o] = [IdleOp EXCEPT !.step = IF page.op = o THEN "ended" ELSE "idle"]]
  /\ agents' \in {agents, IF op[o].step = "agent" THEN [agents EXCEPT ![op[o].kind] = Torn] ELSE agents}
  /\ UNCHANGED <<disk, file, latest, npm, page, past>>

-----------------------------------------------------------------------------

MarketNext ==
  \/ \E o \in Ops :
       \/ Serve(o) \/ Compare(o) \/ Lookup(o) \/ RemoveAsset(o) \/ Place(o) \/ Placed(o)
       \/ Read(o) \/ Truncate(o) \/ Write(o) \/ Check(o) \/ AgentWritten(o) \/ Crash(o)
       \/ \E kind \in {"install", "update", "uninstall"} :
            runAction(o, kind) \/ \E p \in Packages : Command(o, kind, p)
       \/ \E p \in Packages : \E v \in DOMAIN Contents[p] : InstallFile(o, p, v)
       \/ \E v \in Versions : Start(o, v) \/ Fetch(o, v)
       \/ \E x \in Agents, a \in Personas : createAgent(o, x, a)
  \/ \E p \in Packages, v \in Versions : LoadPage(p, v)
  \/ ActionDone

MarketSpec == MarketInit /\ [][MarketNext]_marketVars

-----------------------------------------------------------------------------

TypeOK ==
  /\ \A a \in Assets : disk[a] \in {0, Torn} \/ disk[a] \in Nat
  /\ \A p \in Packages : file.packages[p] \in DOMAIN Contents[p] \cup {0}
  /\ \A o \in Ops : op[o].step \in {"remove", "place", "placing"} => op[o].todo # <<>>
  /\ \A x \in Agents : agents[x] \in Personas \cup {None, Torn}

Undisturbed == bound.faults = 0 /\ ~past.clash

\* Without crashes, and unless two operations worked on one package at once or one wrote
\* installed.json from a reading that another had overtaken: when nothing works on a
\* package, its directories are exactly those of its registered version, all complete.
\* So operations on two packages may overlap, up to the few steps of the registration.
RegisteredIsThere ==
  Undisturbed /\ ~past.lost =>
    \A p \in Packages : Working(p) = {} =>
      \A a \in Everything(p) :
        disk[a] = IF a \in AssetsOf(p, file.packages[p]) THEN file.packages[p] ELSE 0

\* Without crashes and two operations on one package at once: the persona of an agent is
\* there, unless a new version of its package dropped it, or the agent was created while
\* an uninstallation that had already asked for references removed it.  Also when
\* installed.json has lost entries.
AgentsResolve ==
  Undisturbed =>
    \A x \in Agents : agents[x] \in Personas =>
      \/ \E p \in Packages : agents[x] \in Everything(p) /\ Working(p) # {}
      \/ agents[x] \in past.dropped \/ x \in past.late
      \/ disk[agents[x]] \notin {0, Torn}

MarketInv == TypeOK /\ RegisteredIsThere /\ AgentsResolve
=============================================================================
