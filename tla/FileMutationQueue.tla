-------------------------- MODULE FileMutationQueue --------------------------
(***************************************************************************)
(* The queue of file mutations of the agent's write and edit tools         *)
(* (packages/cli/src/tools/file-mutation-queue.ts, write.ts, edit.ts).     *)
(*                                                                         *)
(* A call first learns the key of its path from the file system, one call  *)
(* at a time (registrationQueue), then joins the promise chain of that     *)
(* key; the chain is SessionChains with paths for sessions.  The key of a  *)
(* path is its realpath, or the path itself while nothing exists there, so *)
(* that the key of an aliased path changes when the file appears.          *)
(***************************************************************************)
EXTENDS Naturals, Sequences

CONSTANTS
    Ops,        \* calls of the write and edit tools
    Paths,
    Real,       \* Real[p]: the realpath of p once the file exists
    Existing,   \* the files (real paths) that exist at first
    Removable,  \* the files another tool (bash) may remove
    None

Files == {Real[p] : p \in Paths}
Tools == {"write", "edit"}

ASSUME FileAssumption ==
    /\ None \notin Ops /\ None \notin Paths /\ None \notin Tools
    /\ Real \in [Paths -> Paths]
    /\ \A p \in Paths : Real[Real[p]] = Real[p]
    /\ Existing \subseteq Files /\ Removable \subseteq Files

VARIABLES
    tool,          \* tool[o]: "write" or "edit"
    path,          \* path[o]: the path it names
    registrations, \* the calls that wait for or perform their registration
    resolved,      \* the key the first of them got, None before
    fileMutationQueues, currentQueue, key, promise, registered,  \* the chains
    at,            \* at[o]: how far the callback of o is
    exists,        \* the files that exist
    content,       \* content[f]: the calls whose change f contains
    snapshot       \* snapshot[o]: what edit o read

callVars  == <<tool, path>>
queueVars == <<fileMutationQueues, currentQueue, key, promise, registered>>
fileVars  == <<exists, content>>
vars == <<callVars, registrations, resolved, queueVars, at, fileVars, snapshot>>

At == {"out",        \* the callback is not running
       "begin",
       "read",       \* edit has read the file
       "truncated",  \* writeFile has opened the file
       "filled",     \* writeFile is over
       "over"}       \* the call has returned or thrown

Chain == INSTANCE SessionChains WITH
    Jobs <- Ops, Sessions <- Paths, sessionChains <- fileMutationQueues,
    previous <- currentQueue, owner <- key, accepted <- registered

Init ==
    /\ tool = [o \in Ops |-> None]
    /\ path = [o \in Ops |-> None]
    /\ registrations = <<>>
    /\ resolved = None
    /\ Chain!ChainInit
    /\ at = [o \in Ops |-> "out"]
    /\ exists = Existing
    /\ content = [f \in Files |-> {}]
    /\ snapshot = [o \in Ops |-> {}]
-----------------------------------------------------------------------------
GoTo(o, next) == at' = [at EXCEPT ![o] = next]
FileOf(o) == Real[path[o]]

\* The tool is called: its registration queues behind the earlier ones.
withFileMutationQueue(o, t, p) ==
    /\ tool[o] = None
    /\ tool' = [tool EXCEPT ![o] = t]
    /\ path' = [path EXCEPT ![o] = p]
    /\ registrations' = Append(registrations, o)
    /\ UNCHANGED <<resolved, queueVars, at, fileVars, snapshot>>

\* realpath, or the resolved path when there is no such file.
getMutationQueueKey(o) ==
    /\ registrations # <<>> /\ Head(registrations) = o
    /\ resolved = None
    /\ resolved' = IF FileOf(o) \in exists THEN FileOf(o) ELSE path[o]
    /\ UNCHANGED <<callVars, registrations, queueVars, at, fileVars, snapshot>>

\* realpath fails for another reason: the call throws, the next one registers.
RegistrationFails(o) ==
    /\ registrations # <<>> /\ Head(registrations) = o
    /\ resolved = None
    /\ registrations' = Tail(registrations)
    /\ GoTo(o, "over")
    /\ UNCHANGED <<callVars, resolved, queueVars, fileVars, snapshot>>

\* The key is there: o goes to the end of the queue of its key.
Register(o) ==
    /\ registrations # <<>> /\ Head(registrations) = o
    /\ resolved # None
    /\ Chain!Schedule(o, resolved)
    /\ registrations' = Tail(registrations)
    /\ resolved' = None
    /\ UNCHANGED <<callVars, at, fileVars, snapshot>>

\* Faulty Enter: currentQueue is not awaited.
EnterAtOnce(o) ==
    /\ promise[o] = "waiting"
    /\ promise' = [promise EXCEPT ![o] = "running"]
    /\ GoTo(o, "begin")
    /\ UNCHANGED <<callVars, registrations, resolved, fileMutationQueues, currentQueue,
                   key, registered, fileVars, snapshot>>

\* currentQueue has resolved: the callback is called.
Enter(o) ==
    /\ Chain!Run(o)
    /\ GoTo(o, "begin")
    /\ UNCHANGED <<callVars, registrations, resolved, fileVars, snapshot>>

\* The finally of the call: releaseNext, and the map entry goes unless a later
\* call has joined the queue.
Release(o) ==
    /\ Chain!DropEntry(o)
    /\ GoTo(o, "over")
    /\ UNCHANGED <<callVars, registrations, resolved>>
-----------------------------------------------------------------------------
(* The callbacks                                                           *)

\* edit: access and readFile.
ReadFile(o) ==
    /\ tool[o] = "edit" /\ at[o] = "begin"
    /\ FileOf(o) \in exists
    /\ snapshot' = [snapshot EXCEPT ![o] = content[FileOf(o)]]
    /\ GoTo(o, "read")
    /\ UNCHANGED <<callVars, registrations, resolved, queueVars, fileVars>>

\* Faulty OpenFile: writeFile is not awaited, the queue moves on.
OpenFileUnawaited(o) ==
    /\ at[o] = (IF tool[o] = "edit" THEN "read" ELSE "begin")
    /\ exists' = exists \cup {FileOf(o)}
    /\ content' = [content EXCEPT ![FileOf(o)] = {}]
    /\ GoTo(o, "truncated")
    /\ Chain!DropEntry(o)
    /\ UNCHANGED <<callVars, registrations, resolved, snapshot>>

\* writeFile creates or truncates the file, then fills it.
OpenFile(o) ==
    /\ at[o] = (IF tool[o] = "edit" THEN "read" ELSE "begin")
    /\ exists' = exists \cup {FileOf(o)}
    /\ content' = [content EXCEPT ![FileOf(o)] = {}]
    /\ GoTo(o, "truncated")
    /\ UNCHANGED <<callVars, registrations, resolved, queueVars, snapshot>>

FillFile(o) ==
    /\ at[o] = "truncated"
    /\ content' = [content EXCEPT ![FileOf(o)] =
                      IF tool[o] = "edit" THEN snapshot[o] \cup {o} ELSE {o}]
    /\ GoTo(o, "filled")
    /\ UNCHANGED <<callVars, registrations, resolved, queueVars, exists, snapshot>>

Return(o) ==
    /\ at[o] = "filled"
    /\ Release(o)
    /\ UNCHANGED <<fileVars, snapshot>>

\* Faulty Throw: without the finally.
ThrowKeepsQueue(o) ==
    /\ at[o] \in {"begin", "read", "truncated", "filled"}
    /\ GoTo(o, "over")
    /\ UNCHANGED <<callVars, registrations, resolved, queueVars, fileVars, snapshot>>

\* Aborted, no such file, no match for the edit, a failed write.
Throw(o) ==
    /\ at[o] \in {"begin", "read", "truncated", "filled"}
    /\ Release(o)
    /\ UNCHANGED <<fileVars, snapshot>>

\* Another tool removes a file, without the queue.
Remove(f) ==
    /\ f \in Removable \cap exists
    /\ exists' = exists \ {f}
    /\ content' = [content EXCEPT ![f] = {}]
    /\ UNCHANGED <<callVars, registrations, resolved, queueVars, at, snapshot>>
-----------------------------------------------------------------------------
Call(o) == \E t \in Tools, p \in Paths : withFileMutationQueue(o, t, p)
QueueStep(o) == getMutationQueueKey(o) \/ RegistrationFails(o) \/ Register(o) \/ Enter(o)
CallbackStep(o) == ReadFile(o) \/ OpenFile(o) \/ FillFile(o) \/ Return(o) \/ Throw(o)

Next ==
    \/ \E o \in Ops : Call(o) \/ QueueStep(o) \/ CallbackStep(o)
    \/ \E f \in Files : Remove(f)

Spec == Init /\ [][Next]_vars

\* The file system answers and callbacks end.
Fairness == \A o \in Ops : WF_vars(QueueStep(o) \/ CallbackStep(o))
FairSpec == Spec /\ Fairness
-----------------------------------------------------------------------------
FileTypeOK ==
    /\ tool \in [Ops -> Tools \cup {None}]
    /\ path \in [Ops -> Paths \cup {None}]
    /\ registrations \in Seq(Ops)
    /\ resolved \in Paths \cup {None}
    /\ Chain!ChainTypeOK
    /\ at \in [Ops -> At]
    /\ exists \subseteq Files
    /\ content \in [Files -> SUBSET Ops]
    /\ snapshot \in [Ops -> SUBSET Ops]

Working(o) == at[o] \in {"begin", "read", "truncated", "filled"}

\* A callback runs only while its place in the queue does.
WorkRuns == \A o \in Ops : Working(o) => promise[o] = "running"

\* A call that is registering or queued has been made, with a path.
CallsHavePaths ==
    /\ \A o \in Ops : tool[o] # None => path[o] \in Paths
    /\ \A o \in Ops : promise[o] # "none" => tool[o] # None
    /\ \A i \in 1..Len(registrations) : tool[registrations[i]] # None

\* What every step preserves: the promise chains stay those of SessionChains,
\* though keys change, and hold every callback.
QueueInv ==
    /\ FileTypeOK
    /\ Chain!ChainInv
    /\ WorkRuns
    /\ CallsHavePaths

\* The callbacks of one key never overlap, even though the key comes from a
\* file system that changes and the map forgets a key that is idle.
ExclusivePerKey ==
    \A o, q \in Ops : Working(o) /\ Working(q) /\ key[o] = key[q] => o = q

\* The paths of file f always give the same key: f has no other path, or f is
\* there from the start and stays.
FixedFile(f) ==
    \/ \A p \in Paths : Real[p] = f => p = f
    \/ f \in Existing \ Removable

\* Two callbacks never work on the same file at once, if its key is fixed: the
\* condition which the comment of withFileMutationQueue leaves out.
ExclusivePerFile ==
    \A o, q \in Ops :
        /\ Working(o) /\ Working(q)
        /\ FileOf(o) = FileOf(q) /\ FixedFile(FileOf(o))
        => o = q

\* An edit writes back what it read and nothing was written in between: no
\* change made by another call is lost.
NoLostEdit == [][\A o \in Ops :
    /\ tool[o] = "edit" /\ at[o] = "read" /\ at'[o] = "truncated"
    /\ FixedFile(FileOf(o)) /\ FileOf(o) \notin Removable
    => snapshot[o] = content[FileOf(o)]]_vars

\* Every call comes back, whatever the others do.
CallsReturn == \A o \in Ops : tool[o] # None ~> at[o] = "over"

\* The calls on one key run one at a time in the order of registration.
QueueIsSerial == Chain!ImplementsSerialExecutor
=============================================================================
