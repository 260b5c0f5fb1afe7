--------------------------- MODULE SessionRegistry ---------------------------
(***************************************************************************)
(* How MuseSessionStore keeps the list of sessions                         *)
(* (packages/core/src/session-store.ts and session-registry.ts).           *)
(*                                                                         *)
(* The list lives in memory, in an array that is read from registry.json   *)
(* on first use and written back whole after every change.  Operations of  *)
(* concurrent requests interleave at their awaits: two may find the        *)
(* registry unread and both read it, two may write it at the same time,    *)
(* and the process may end at any of these points (server.ts shutdown      *)
(* calls process.exit three seconds after the signal).                     *)
(*                                                                         *)
(* create pushes into the array that is there, a load or a delete puts     *)
(* another one in its place, and persistRegistry holds the array it was    *)
(* called with across an await: `sharing` are the saves that still hold    *)
(* the current array, the others hold one that nobody changes any more.    *)
(*                                                                         *)
(* External, by what the store observes: the file system, and pi's         *)
(* JsonlSessionRepo, which keeps one JSONL file per session.               *)
(***************************************************************************)
EXTENDS Naturals, FiniteSets

CONSTANTS
    Ops,        \* calls of the store's methods
    Sessions,
    Stored,     \* the sessions of an earlier life of the daemon
    MaxCrashes, \* how often the process may end
    None

\* touch, updateAgentId, updateModelSelection, updateLastResolvedModel,
\* updateName and setNameFromFirstMessageIfEmpty change one entry in place:
\* "update".  get, list and openPiSession only look: "get".
Kinds == {"get", "update", "create", "fork", "delete"}

ASSUME RegistryAssumption ==
    /\ None \notin Ops /\ None \notin Sessions /\ None \notin Kinds
    /\ Stored \subseteq Sessions
    /\ MaxCrashes \in Nat

VARIABLES
    kind, session,    \* what each call does, and to which session
    at,               \* at[o]: the await at which call o is
    registryLoaded,
    entries,          \* the sessions in the array `this.entries`
    sharing,          \* the calls that hold this very array
    held,             \* held[o]: the entries call o has read, the array it
                      \* holds when it is another one, or the text it writes
    file,             \* registry.json
    jsonl,            \* the sessions with a JSONL file
    acked,            \* history: sessions whose creation was answered, until deleted
    everUsed,         \* history: ids handed out (randomUUID never repeats)
    crashes,
    damage            \* history: what has happened that the guarantees exclude

callVars   == <<kind, session>>
memoryVars == <<registryLoaded, entries>>
diskVars   == <<file, jsonl>>
vars == <<callVars, at, memoryVars, sharing, held, diskVars, acked, everUsed, crashes, damage>>

At == {"none",
       "reading",    \* loadSessionRegistry awaits readFile
       "parsed",     \* ... and has its entries
       "ready",      \* ensureRegistry is over
       "creating",   \* repo.create or repo.fork is over
       "unlinked",   \* repo.delete is over
       "mkdir",      \* saveSessionRegistry awaits mkdir
       "opening",    \* JSON.stringify is over, writeFile opens the file
       "writing",    \* the file is open and empty
       "done", "failed",
       "killed"}     \* the process ended under it
Saving == {"mkdir", "opening", "writing"}
Over   == {"done", "failed", "killed"}

\* What may go wrong: two loads in one life, two saves at once, the process
\* ending between truncation and write, a write that fails.
Damages == {"loads", "saves", "cut", "failure"}

FileState == {"absent", "valid", "torn"}   \* torn: JSON.parse throws

Init ==
    /\ kind = [o \in Ops |-> None]
    /\ session = [o \in Ops |-> None]
    /\ at = [o \in Ops |-> "none"]
    /\ registryLoaded = FALSE
    /\ entries = {}
    /\ sharing = {}
    /\ held = [o \in Ops |-> {}]
    /\ file = [state |-> IF Stored = {} THEN "absent" ELSE "valid", ids |-> Stored]
    /\ jsonl = Stored
    /\ acked = Stored
    /\ everUsed = Stored
    /\ crashes = 0
    /\ damage = {}
-----------------------------------------------------------------------------
GoTo(o, next) == at' = [at EXCEPT ![o] = next]
Found(o) == session[o] \in entries

\* A call returns or throws; what it held is garbage.
End(o, how) ==
    /\ GoTo(o, how)
    /\ held' = [held EXCEPT ![o] = {}]
    /\ IF how = "done"
       THEN kind' = [kind EXCEPT ![o] = None] /\ session' = [session EXCEPT ![o] = None]
       ELSE UNCHANGED callVars

\* Call o sets this.entries: saves under way keep the array that was there.
Replace(o, ids) ==
    /\ entries' = ids
    /\ held' = [q \in Ops |-> IF q \in sharing THEN entries
                               ELSE IF q = o THEN {} ELSE held[q]]

\* persistRegistry(), up to the mkdir.
persistRegistry(o) ==
    /\ damage' = IF \E q \in Ops : at[q] \in Saving THEN damage \cup {"saves"} ELSE damage
    /\ GoTo(o, "mkdir")
-----------------------------------------------------------------------------
(* ensureRegistry                                                          *)

\* A call comes in.  create and fork name a session nobody has named before.
Begin(o, k, s) ==
    /\ at[o] = "none"
    /\ k \in {"create", "fork"} <=> s \notin everUsed
    /\ kind' = [kind EXCEPT ![o] = k]
    /\ session' = [session EXCEPT ![o] = s]
    /\ everUsed' = everUsed \cup {s}
    /\ GoTo(o, IF registryLoaded THEN "ready" ELSE "reading")
    /\ UNCHANGED <<memoryVars, sharing, held, diskVars, acked, crashes, damage>>

\* readFile: a missing file is an empty registry.
ReadRegistry(o) ==
    /\ at[o] = "reading"
    /\ file.state # "torn"
    /\ held' = [held EXCEPT ![o] = file.ids]
    /\ GoTo(o, "parsed")
    /\ UNCHANGED <<callVars, memoryVars, sharing, diskVars, acked, everUsed, crashes, damage>>

\* JSON.parse throws, and with it the call; the next call tries again.
ReadFails(o) ==
    /\ at[o] = "reading"
    /\ file.state = "torn"
    /\ End(o, "failed")
    /\ UNCHANGED <<memoryVars, sharing, diskVars, acked, everUsed, crashes, damage>>

\* this.entries = file.entries, whatever was there.
Load(o) ==
    /\ at[o] = "parsed"
    /\ registryLoaded' = TRUE
    /\ Replace(o, held[o])
    /\ sharing' = {}
    /\ damage' = IF registryLoaded THEN damage \cup {"loads"} ELSE damage
    /\ GoTo(o, "ready")
    /\ UNCHANGED <<callVars, diskVars, acked, everUsed, crashes>>
-----------------------------------------------------------------------------
(* The methods, from ensureRegistry to persistRegistry                     *)

\* get, or any method that finds no entry.
Answer(o) ==
    /\ at[o] = "ready"
    /\ kind[o] = "get" \/ (kind[o] \in {"update", "delete"} /\ ~Found(o))
    /\ End(o, "done")
    /\ UNCHANGED <<memoryVars, sharing, diskVars, acked, everUsed, crashes, damage>>

\* The entry is changed in place.
Update(o) ==
    /\ at[o] = "ready"
    /\ kind[o] = "update" /\ Found(o)
    /\ sharing' = sharing \cup {o}
    /\ persistRegistry(o)
    /\ UNCHANGED <<callVars, memoryVars, held, diskVars, acked, everUsed, crashes>>

\* repo.create, or repo.fork of a session that is listed and still has its
\* file, writes the JSONL file of the new session.
CreateFile(o) ==
    /\ at[o] = "ready"
    /\ \/ kind[o] = "create"
       \/ kind[o] = "fork" /\ entries \cap jsonl # {}
    /\ jsonl' = jsonl \cup {session[o]}
    /\ GoTo(o, "creating")
    /\ UNCHANGED <<callVars, memoryVars, sharing, held, file, acked, everUsed, crashes, damage>>

\* No such source, or no file of it.
ForkFails(o) ==
    /\ at[o] = "ready"
    /\ kind[o] = "fork"
    /\ End(o, "failed")
    /\ UNCHANGED <<memoryVars, sharing, diskVars, acked, everUsed, crashes, damage>>

\* this.entries.push(entry): into the array that is there now.
Push(o) ==
    /\ at[o] = "creating"
    /\ entries' = entries \cup {session[o]}
    /\ sharing' = sharing \cup {o}
    /\ persistRegistry(o)
    /\ UNCHANGED <<callVars, registryLoaded, held, diskVars, acked, everUsed, crashes>>

\* repo.delete removes the JSONL file; the session is the user's no more.
DeleteFile(o) ==
    /\ at[o] = "ready"
    /\ kind[o] = "delete" /\ Found(o)
    /\ jsonl' = jsonl \ {session[o]}
    /\ acked' = acked \ {session[o]}
    /\ GoTo(o, "unlinked")
    /\ UNCHANGED <<callVars, memoryVars, sharing, held, file, everUsed, crashes, damage>>

\* repo.delete throws, if it does, on a file that another delete has removed.
DeleteFails(o) ==
    /\ at[o] = "ready"
    /\ kind[o] = "delete" /\ Found(o)
    /\ session[o] \notin jsonl
    /\ End(o, "failed")
    /\ UNCHANGED <<memoryVars, sharing, diskVars, acked, everUsed, crashes, damage>>

\* Faulty Filter: without persistRegistry.
FilterUnsaved(o) ==
    /\ at[o] = "unlinked"
    /\ entries' = entries \ {session[o]}
    /\ sharing' = {}
    /\ End(o, "done")
    /\ UNCHANGED <<registryLoaded, diskVars, acked, everUsed, crashes, damage>>

\* this.entries = this.entries.filter(...): a new array.
Filter(o) ==
    /\ at[o] = "unlinked"
    /\ Replace(o, entries \ {session[o]})
    /\ sharing' = {o}
    /\ persistRegistry(o)
    /\ UNCHANGED <<callVars, registryLoaded, diskVars, acked, everUsed, crashes>>
-----------------------------------------------------------------------------
(* saveSessionRegistry                                                     *)

\* mkdir is over: JSON.stringify of the array that was passed.
Stringify(o) ==
    /\ at[o] = "mkdir"
    /\ held' = [held EXCEPT ![o] = IF o \in sharing THEN entries ELSE @]
    /\ sharing' = sharing \ {o}
    /\ GoTo(o, "opening")
    /\ UNCHANGED <<callVars, memoryVars, diskVars, acked, everUsed, crashes, damage>>

\* Faulty Truncate: the file is opened as it is.
OpenInPlace(o) ==
    /\ at[o] = "opening"
    /\ GoTo(o, "writing")
    /\ UNCHANGED <<callVars, memoryVars, sharing, held, diskVars, acked, everUsed, crashes, damage>>

\* writeFile opens the file and truncates it.
Truncate(o) ==
    /\ at[o] = "opening"
    /\ file' = [state |-> "torn", ids |-> {}]
    /\ GoTo(o, "writing")
    /\ UNCHANGED <<callVars, memoryVars, sharing, held, jsonl, acked, everUsed, crashes, damage>>

\* The text goes to the start of the file, over what another save has written
\* there meanwhile: a longer text keeps its tail.
Written(ids) ==
    {[state |-> "valid", ids |-> ids]} \cup
    (IF file.state = "valid" /\ Cardinality(file.ids) >= Cardinality(ids)
     THEN {[state |-> "torn", ids |-> {}]} ELSE {})

\* The save is over, and with it the call.
Write(o) ==
    /\ at[o] = "writing"
    /\ file' \in Written(held[o])
    /\ acked' = IF kind[o] \in {"create", "fork"} THEN acked \cup ({session[o]} \cap jsonl) ELSE acked
    /\ End(o, "done")
    /\ UNCHANGED <<memoryVars, sharing, jsonl, everUsed, crashes, damage>>

\* The disk is full: the call fails, its change stays in memory.
SaveFails(o) ==
    /\ at[o] \in {"opening", "writing"}
    /\ damage' = damage \cup {"failure"}
    /\ End(o, "failed")
    /\ UNCHANGED <<memoryVars, sharing, diskVars, acked, everUsed, crashes>>
-----------------------------------------------------------------------------
\* The process ends, and the daemon is started again.
Crash ==
    /\ crashes < MaxCrashes
    /\ crashes' = crashes + 1
    /\ at' = [o \in Ops |-> IF at[o] \in {"none"} \cup Over THEN at[o] ELSE "killed"]
    /\ registryLoaded' = FALSE
    /\ entries' = {}
    /\ sharing' = {}
    /\ held' = [o \in Ops |-> {}]
    /\ damage' = IF \E o \in Ops : at[o] = "writing" THEN damage \cup {"cut"} ELSE damage
    /\ UNCHANGED <<callVars, diskVars, acked, everUsed>>

LoadStep(o) == ReadRegistry(o) \/ ReadFails(o) \/ Load(o)
MethodStep(o) ==
    \/ Answer(o) \/ Update(o) \/ CreateFile(o) \/ ForkFails(o) \/ Push(o)
    \/ DeleteFile(o) \/ DeleteFails(o) \/ Filter(o)
SaveStep(o) == Stringify(o) \/ Truncate(o) \/ Write(o) \/ SaveFails(o)

Next ==
    \/ \E o \in Ops :
          \/ \E k \in Kinds, s \in Sessions : Begin(o, k, s)
          \/ LoadStep(o) \/ MethodStep(o) \/ SaveStep(o)
    \/ Crash

Spec == Init /\ [][Next]_vars
-----------------------------------------------------------------------------
RegistryTypeOK ==
    /\ kind \in [Ops -> Kinds \cup {None}]
    /\ session \in [Ops -> Sessions \cup {None}]
    /\ at \in [Ops -> At]
    /\ registryLoaded \in BOOLEAN
    /\ entries \subseteq Sessions
    /\ sharing \subseteq Ops
    /\ held \in [Ops -> SUBSET Sessions]
    /\ file \in [state : FileState, ids : SUBSET Sessions]
    /\ jsonl \subseteq Sessions
    /\ acked \subseteq Sessions
    /\ everUsed \subseteq Sessions
    /\ crashes \in 0..MaxCrashes
    /\ damage \subseteq Damages

\* No method gets past ensureRegistry in a life that has not read the registry;
\* only a save that awaits its mkdir can hold the current array; sessions are
\* listed, stored and answered for under ids that were handed out.
LoadedFirst ==
    /\ ~registryLoaded =>
          /\ entries = {}
          /\ \A o \in Ops : at[o] \in {"none", "reading", "parsed"} \cup Over
    /\ \A o \in sharing : at[o] = "mkdir"
    /\ acked \cup entries \cup file.ids \cup jsonl \subseteq everUsed
    /\ \A o \in Ops :
          /\ held[o] \subseteq everUsed
          /\ at[o] \notin {"none", "done"} => session[o] \in everUsed
          /\ at[o] \in {"none", "done"} <=> kind[o] = None

\* A call that creates a session, before the entry is pushed.
Creating(o) ==
    kind[o] \in {"create", "fork"} /\ at[o] \in {"reading", "parsed", "ready", "creating"}

\* Until then the session is known to this call alone; its file is there as
\* soon as pi's repo has written it, and no delete can name it.
CreatorsAlone ==
    \A o \in Ops : Creating(o) =>
        /\ session[o] \notin entries \cup file.ids \cup acked \cup UNION {held[q] : q \in Ops}
        /\ session[o] \in jsonl <=> at[o] = "creating"
        /\ \A q \in Ops \ {o} :
              kind[q] \in {"create", "fork"} \/ at[q] = "unlinked" => session[q] # session[o]

\* A session whose file repo.delete has removed stays without one.
UnlinkedForGood ==
    \A o \in Ops :
        /\ at[o] = "creating" => Creating(o)
        /\ at[o] = "unlinked" => kind[o] = "delete" /\ session[o] \notin jsonl \cup acked
        /\ at[o] \in Saving => kind[o] # "get"

\* Without overlapping saves there is one save at a time, and what it has
\* truncated stays so until it writes.
OneSaver ==
    "saves" \notin damage =>
        /\ \A o, q \in Ops : at[o] \in Saving /\ at[q] \in Saving => o = q
        /\ \A o \in Ops : at[o] = "writing" => file.state = "torn"

\* Every session whose creation was answered and that nobody deleted is listed.
CreatedSessionsKept == registryLoaded => acked \subseteq entries

\* So it is, in every life of the daemon, unless two loads overlapped, two
\* saves did, or a write failed or was cut short.
CreatedSessionsKeptUndamaged == damage = {} => CreatedSessionsKept

\* registry.json can be read, unless a save is under way, or two of them
\* overlapped, one failed or was cut short.
RegistryReadable ==
    file.state = "torn" =>
        damage \cap {"saves", "cut", "failure"} # {} \/ \E o \in Ops : at[o] = "writing"

\* The loading of the registry, the calls under way and the state of the file.
RegistryInv ==
    /\ RegistryTypeOK /\ LoadedFirst
    /\ CreatorsAlone /\ UnlinkedForGood /\ OneSaver
    /\ RegistryReadable

\* Whenever no save is under way, registry.json holds what memory does: a
\* restart at that moment loses nothing.
DiskMatchesMemory ==
    /\ registryLoaded /\ damage = {}
    /\ ~\E o \in Ops : at[o] \in Saving
    => file.ids = entries

\* A delete of session s has been asked for, and may have been interrupted.
DeleteAsked(s) == \E o \in Ops : kind[o] = "delete" /\ session[o] = s

\* Every listed session can be opened, unless its deletion is under way or was
\* interrupted.
ListedSessionsOpen ==
    registryLoaded /\ damage = {} =>
        \A s \in entries \ jsonl : DeleteAsked(s)

\* While nothing excluded has happened, a save writes what memory holds, with
\* the session it creates and without the one it deletes.
SaveOfMemory ==
    damage = {} => \A o \in Ops :
        /\ at[o] = "mkdir" => o \in sharing
        /\ at[o] \in {"opening", "writing"} => held[o] = entries
        /\ at[o] \in Saving /\ kind[o] \in {"create", "fork"} => session[o] \in entries
        /\ at[o] \in Saving /\ kind[o] = "delete" => session[o] \notin entries
        /\ at[o] = "parsed" /\ ~registryLoaded => held[o] = file.ids

\* ... and registry.json, when no save has it open, is a list to start from:
\* it has every session that was answered, and what it has beyond the files or
\* beyond memory is being deleted.
FileToStartFrom ==
    damage = {} /\ ~(\E o \in Ops : at[o] = "writing") =>
        /\ acked \subseteq file.ids
        /\ \A s \in file.ids \ jsonl : DeleteAsked(s)
        /\ registryLoaded => \A s \in file.ids \ entries :
              \E o \in Ops : at[o] \in Saving /\ kind[o] = "delete" /\ session[o] = s

\* What was answered, memory, registry.json and the JSONL files agree, up to what is under
\* way.
StoreAgrees ==
    /\ CreatedSessionsKeptUndamaged /\ DiskMatchesMemory /\ ListedSessionsOpen
    /\ SaveOfMemory /\ FileToStartFrom
=============================================================================
