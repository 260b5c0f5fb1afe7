---------------------- MODULE FileMutationQueue_proofs ----------------------
(***************************************************************************)
(* Proofs about the queue of file mutations, for any calls, paths and      *)
(* aliases: the callbacks of one key exclude each other, and so do those   *)
(* of one file when the key of a path cannot change; an edit then loses no *)
(* change of another call; and the queue implements the serial executor.   *)
(* The bash tool, which changes files beside the queue, follows at the end *)
(* (BashTool): what it returns, and what it leaves running.                *)
(***************************************************************************)
EXTENDS FileMutationQueue, TLAPS

\* What is proved of the promise chains of sessions, for those of paths.
ChainFacts == INSTANCE SessionChains_proofs WITH
    Jobs <- Ops, Sessions <- Paths, sessionChains <- fileMutationQueues,
    previous <- currentQueue, owner <- key, accepted <- registered

USE FileAssumption

\* The chains of FileMutationQueue are those of which ChainFacts speaks.
LEMMA SameChain ==
    /\ Chain!ChainInit <=> ChainFacts!ChainInit
    /\ Chain!ChainInv <=> ChainFacts!ChainInv
    /\ Chain!ChainTypeOK <=> ChainFacts!ChainTypeOK
    /\ \A o \in Ops : \A p \in Paths : Chain!Schedule(o, p) <=> ChainFacts!Schedule(o, p)
    /\ \A o \in Ops : Chain!Run(o) <=> ChainFacts!Run(o)
    /\ \A o \in Ops : Chain!DropEntry(o) <=> ChainFacts!DropEntry(o)
<1> USE DEF Chain!HasSettled, ChainFacts!HasSettled, Chain!HasStarted, ChainFacts!HasStarted,
            Chain!PromiseState, ChainFacts!PromiseState, Chain!ChainTypeOK, ChainFacts!ChainTypeOK
<1>1. Chain!ChainInit <=> ChainFacts!ChainInit
  BY DEF Chain!ChainInit, ChainFacts!ChainInit
<1>2. Chain!ChainInv <=> ChainFacts!ChainInv
  BY DEF Chain!ChainInv, ChainFacts!ChainInv, Chain!HistoryOK, ChainFacts!HistoryOK,
         Chain!SettledBefore, ChainFacts!SettledBefore, Chain!LinksOK, ChainFacts!LinksOK,
         Chain!TailIsLast, ChainFacts!TailIsLast, Chain!NoEntryMeansIdle, ChainFacts!NoEntryMeansIdle
<1>3. \A o \in Ops : \A p \in Paths : Chain!Schedule(o, p) <=> ChainFacts!Schedule(o, p)
  BY DEF Chain!Schedule, ChainFacts!Schedule
<1>4. \A o \in Ops : Chain!Run(o) <=> ChainFacts!Run(o)
  BY DEF Chain!Run, ChainFacts!Run
<1>5. \A o \in Ops : Chain!DropEntry(o) <=> ChainFacts!DropEntry(o)
  BY DEF Chain!DropEntry, ChainFacts!DropEntry
<1>6. QED
  BY <1>1, <1>2, <1>3, <1>4, <1>5

\* Initially nothing is called, registered or queued.
LEMMA InitQueueInv == Init => QueueInv
<1> SUFFICES ASSUME Init PROVE QueueInv
  OBVIOUS
<1>1. Chain!ChainInv
  BY SameChain, ChainFacts!InitChainInv DEF Init
<1>2. QED
  BY <1>1 DEF Init, QueueInv, FileTypeOK, WorkRuns, CallsHavePaths, Working, At,
        Chain!ChainInv, Chain!ChainInit

\* The chains change only by the steps of which the facts speak, and at their
\* end while the callback of the call still counts as running.
LEMMA ChainKept ==
    ASSUME QueueInv,
           \/ UNCHANGED queueVars
           \/ \E o \in Ops : \E p \in Paths : Chain!Schedule(o, p)
           \/ \E o \in Ops : Chain!Run(o)
           \/ \E o \in Ops : Working(o) /\ Chain!DropEntry(o)
    PROVE  Chain!ChainInv'
<1> USE DEF QueueInv
<1>0. ChainFacts!ChainInv' => Chain!ChainInv'
  BY DEF Chain!HasSettled, ChainFacts!HasSettled, Chain!HasStarted, ChainFacts!HasStarted,
         Chain!PromiseState, ChainFacts!PromiseState, Chain!ChainTypeOK, ChainFacts!ChainTypeOK,
         Chain!ChainInv, ChainFacts!ChainInv, Chain!HistoryOK, ChainFacts!HistoryOK,
         Chain!SettledBefore, ChainFacts!SettledBefore, Chain!LinksOK, ChainFacts!LinksOK,
         Chain!TailIsLast, ChainFacts!TailIsLast, Chain!NoEntryMeansIdle, ChainFacts!NoEntryMeansIdle
<1>1. CASE UNCHANGED queueVars
  BY <1>1 DEF queueVars, Chain!ChainInv, Chain!ChainTypeOK, Chain!HistoryOK,
        Chain!SettledBefore,
       Chain!LinksOK, Chain!TailIsLast, Chain!NoEntryMeansIdle, Chain!HasStarted, Chain!HasSettled
<1>2. CASE \E o \in Ops : \E p \in Paths : Chain!Schedule(o, p)
  <2>1. PICK o \in Ops, p \in Paths : ChainFacts!Schedule(o, p)
    BY <1>2, SameChain
  <2>2. ChainFacts!ChainInv'
    BY <2>1, SameChain, ChainFacts!ScheduleInv
  <2>3. QED
    BY <2>2, <1>0
<1>3. CASE \E o \in Ops : Chain!Run(o)
  <2>1. PICK o \in Ops : ChainFacts!Run(o)
    BY <1>3, SameChain
  <2>2. ChainFacts!ChainInv'
    BY <2>1, SameChain, ChainFacts!RunInv
  <2>3. QED
    BY <2>2, <1>0
<1>4. CASE \E o \in Ops : Working(o) /\ Chain!DropEntry(o)
  <2>1. PICK o \in Ops : Working(o) /\ ChainFacts!DropEntry(o)
    BY <1>4, SameChain
  <2>2. ChainFacts!HasStarted(o)
    BY <2>1 DEF WorkRuns, ChainFacts!HasStarted
  <2>3. ChainFacts!ChainInv'
    BY <2>1, <2>2, SameChain, ChainFacts!DropEntryInv
  <2>4. QED
    BY <2>3, <1>0
<1>5. QED
  BY <1>1, <1>2, <1>3, <1>4

\* No step but the release ends the running of a call's place in the queue,
\* and no step but Register gives a key.
LEMMA NextQueueInv == QueueInv /\ [Next]_vars => QueueInv'
<1> SUFFICES ASSUME QueueInv, [Next]_vars PROVE QueueInv'
  OBVIOUS
<1> USE DEF QueueInv, FileTypeOK, callVars, fileVars, GoTo, At
<1>1. ASSUME NEW o \in Ops, Call(o) PROVE QueueInv'
  <2>1. PICK t \in Tools, p \in Paths : withFileMutationQueue(o, t, p)
    BY <1>1 DEF Call
  <2>2. Chain!ChainInv'
    BY <2>1, ChainKept DEF withFileMutationQueue
  <2>3. FileTypeOK'
    BY <2>1, <2>2 DEF withFileMutationQueue, Chain!ChainInv
  <2>4. WorkRuns'
    BY <2>1 DEF withFileMutationQueue, WorkRuns, Working, queueVars
  <2>5. CallsHavePaths'
    <3>1. tool' = [tool EXCEPT ![o] = t] /\ path' = [path EXCEPT ![o] = p] /\ t # None /\ p # None
      BY <2>1 DEF withFileMutationQueue, Tools
    <3>2. registrations' = Append(registrations, o) /\ Len(registrations) \in Nat
      BY <2>1 DEF withFileMutationQueue
    <3>3. ASSUME NEW i \in 1..Len(registrations') PROVE tool'[registrations'[i]] # None
      <4>1. CASE i = Len(registrations) + 1
        BY <3>1, <3>2, <4>1
      <4>2. CASE i \in 1..Len(registrations)
        BY <3>1, <3>2, <4>2 DEF CallsHavePaths
      <4>3. QED
        BY <3>2, <4>1, <4>2
    <3>4. promise' = promise
      BY <2>1 DEF withFileMutationQueue, queueVars
    <3>5. QED
      BY <3>1, <3>3, <3>4 DEF CallsHavePaths
  <2>6. QED
    BY <2>2, <2>3, <2>4, <2>5
<1>2. ASSUME NEW o \in Ops, QueueStep(o) PROVE QueueInv'
  <2>1. Chain!ChainInv'
    BY <1>2, ChainKept DEF QueueStep, getMutationQueueKey, RegistrationFails, Register,
          Enter
  <2>2. registrations # <<>> /\ Head(registrations) = o => path[o] \in Paths
    BY DEF CallsHavePaths
  <2>3. FileTypeOK'
    <3>1. Chain!ChainTypeOK'
      BY <2>1 DEF Chain!ChainInv
    <3>2. CASE getMutationQueueKey(o)
      BY <2>2, <3>1, <3>2 DEF getMutationQueueKey, FileOf
    <3>3. CASE RegistrationFails(o)
      BY <3>1, <3>3 DEF RegistrationFails
    <3>4. CASE Register(o)
      BY <3>1, <3>4 DEF Register
    <3>5. CASE Enter(o)
      BY <3>1, <3>5 DEF Enter
    <3>6. QED
      BY <1>2, <3>2, <3>3, <3>4, <3>5 DEF QueueStep
  <2>4. WorkRuns'
    <3>1. CASE getMutationQueueKey(o) \/ RegistrationFails(o)
      BY <3>1 DEF getMutationQueueKey, RegistrationFails, queueVars, WorkRuns, Working
    <3>2. CASE Register(o)
      BY <3>2 DEF Register, Chain!Schedule, Chain!ChainTypeOK, WorkRuns, Working
    <3>3. CASE Enter(o)
      BY <3>3 DEF Enter, Chain!Run, Chain!ChainTypeOK, WorkRuns, Working
    <3>4. QED
      BY <1>2, <3>1, <3>2, <3>3 DEF QueueStep
  <2>5. CallsHavePaths'
    <3>1. UNCHANGED <<tool, path>>
      BY <1>2 DEF QueueStep, getMutationQueueKey, RegistrationFails, Register, Enter
    <3>2. registrations' = registrations \/ (registrations # <<>> /\ registrations' = Tail(registrations))
      BY <1>2 DEF QueueStep, getMutationQueueKey, RegistrationFails, Register, Enter
    <3>3. \A i \in 1..Len(registrations') :
             tool[registrations'[i]] # None
      <4>1. CASE registrations' = registrations
        BY <4>1 DEF CallsHavePaths
      <4>2. CASE registrations # <<>> /\ registrations' = Tail(registrations)
        <5>1. \A i \in 1..Len(registrations') :
                i + 1 \in 1..Len(registrations) /\ registrations'[i] = registrations[i + 1]
          BY <4>2
        <5>2. QED
          BY <5>1 DEF CallsHavePaths
      <4>3. QED
        BY <3>2, <4>1, <4>2
    <3>4. \A q \in Ops : promise'[q] # "none" => tool[q] # None
      <4>1. CASE getMutationQueueKey(o) \/ RegistrationFails(o)
        BY <4>1 DEF getMutationQueueKey, RegistrationFails, queueVars, CallsHavePaths
      <4>2. CASE Register(o)
        <5>1. 1 \in 1..Len(registrations) /\ registrations[1] = o
          BY <4>2 DEF Register
        <5>2. tool[o] # None
          BY <5>1 DEF CallsHavePaths
        <5>3. QED
          BY <4>2, <5>2 DEF Register, Chain!Schedule, Chain!ChainTypeOK, CallsHavePaths
      <4>3. CASE Enter(o)
        BY <4>3 DEF Enter, Chain!Run, Chain!ChainTypeOK, CallsHavePaths
      <4>4. QED
        BY <1>2, <4>1, <4>2, <4>3 DEF QueueStep
    <3>5. QED
      BY <3>1, <3>3, <3>4 DEF CallsHavePaths
  <2>6. QED
    BY <2>1, <2>3, <2>4, <2>5
<1>3. ASSUME NEW o \in Ops, CallbackStep(o) PROVE QueueInv'
  <2>1. CASE Return(o) \/ Throw(o)
    <3>1. Working(o) /\ Release(o) /\ UNCHANGED <<exists, content, snapshot>>
      BY <2>1 DEF Return, Throw, Working
    <3>2. Chain!ChainInv'
      BY <3>1, ChainKept DEF Release
    <3>3. FileTypeOK'
      BY <3>1, <3>2 DEF Release, Chain!ChainInv
    <3>4. WorkRuns'
      BY <3>1 DEF Release, Chain!DropEntry, Chain!ChainTypeOK, WorkRuns, Working
    <3>5. CallsHavePaths'
      BY <3>1 DEF Release, Chain!DropEntry, Chain!ChainTypeOK, WorkRuns, CallsHavePaths
    <3>6. QED
      BY <3>2, <3>3, <3>4, <3>5
  <2>2. CASE ReadFile(o) \/ OpenFile(o) \/ FillFile(o)
    <3>1. UNCHANGED queueVars /\ UNCHANGED <<tool, path, registrations, resolved>>
      BY <2>2 DEF ReadFile, OpenFile, FillFile
    <3>2. Chain!ChainInv'
      BY <3>1, ChainKept
    <3>3. Working(o) => FileOf(o) \in Files
      <4>1. Working(o) => promise[o] # "none"
        BY DEF WorkRuns
      <4>2. QED
        BY <4>1 DEF FileOf, Files, CallsHavePaths
    <3>4. FileTypeOK'
      BY <2>2, <3>1, <3>2, <3>3 DEF ReadFile, OpenFile, FillFile, Working, Chain!ChainInv
    <3>5. WorkRuns'
      BY <2>2, <3>1 DEF ReadFile, OpenFile, FillFile, queueVars, WorkRuns, Working
    <3>6. CallsHavePaths'
      BY <3>1 DEF queueVars, CallsHavePaths
    <3>7. QED
      BY <3>2, <3>4, <3>5, <3>6
  <2>3. QED
    BY <1>3, <2>1, <2>2 DEF CallbackStep
<1>4. ASSUME NEW f \in Files, Remove(f) PROVE QueueInv'
  <2>1. Chain!ChainInv'
    BY <1>4, ChainKept DEF Remove
  <2>2. QED
    BY <1>4, <2>1 DEF Remove, queueVars, WorkRuns, Working, CallsHavePaths, Chain!ChainInv
<1>5. CASE UNCHANGED vars
  <2>1. Chain!ChainInv'
    BY <1>5, ChainKept DEF vars
  <2>2. QED
    BY <1>5, <2>1 DEF vars, queueVars, WorkRuns, Working, CallsHavePaths, Chain!ChainInv
<1>6. QED
  BY <1>1, <1>2, <1>3, <1>4, <1>5 DEF Next

\* The invariant of the queue holds for any calls, paths and aliases.
THEOREM QueueInvariant == Spec => []QueueInv
BY InitQueueInv, NextQueueInv, PTL DEF Spec

\* Two callbacks of one key would be two running jobs of one chain.
LEMMA KeyFromInv == QueueInv => ExclusivePerKey
<1> SUFFICES ASSUME QueueInv PROVE ExclusivePerKey
  OBVIOUS
<1>1. ChainFacts!OneJobPerSession
  BY SameChain, ChainFacts!ExclusionFromInv DEF QueueInv
<1>2. QED
  BY <1>1 DEF QueueInv, WorkRuns, ExclusivePerKey, ChainFacts!OneJobPerSession

\* The callbacks of one key never overlap.
THEOREM KeyExclusion == Spec => []ExclusivePerKey
BY QueueInvariant, KeyFromInv, PTL

-----------------------------------------------------------------------------
(* Per file, when its paths give one key before and after.                 *)

\* The key of a call on a fixed file is that file.
KeysAreFiles ==
    /\ Existing \ Removable \subseteq exists
    /\ resolved # None => registrations # <<>>
    /\ resolved # None /\ FixedFile(FileOf(Head(registrations))) =>
          resolved = FileOf(Head(registrations))
    /\ \A o \in Ops : promise[o] # "none" /\ FixedFile(FileOf(o)) => key[o] = FileOf(o)

\* A step that makes no call, registers nothing and removes nothing.
LEMMA KeysKept ==
    ASSUME QueueInv, KeysAreFiles,
           UNCHANGED <<path, key, registrations, resolved>>,
           \A o \in Ops : promise'[o] # "none" => promise[o] # "none",
           exists' = exists \/ \E f \in Files : exists' = exists \cup {f}
    PROVE  KeysAreFiles'
<1>1. Existing \ Removable \subseteq exists'
  BY DEF KeysAreFiles
<1>2. QED
  BY <1>1 DEF KeysAreFiles, FileOf, FixedFile

\* A key is looked up for a path and used for the call with that path.
LEMMA NextKeysAreFiles == QueueInv /\ KeysAreFiles /\ [Next]_vars => KeysAreFiles'
<1> SUFFICES ASSUME QueueInv, KeysAreFiles, [Next]_vars PROVE KeysAreFiles'
  OBVIOUS
<1> USE DEF QueueInv, FileTypeOK, callVars, fileVars, queueVars, GoTo
<1>1. ASSUME NEW o \in Ops, Call(o) PROVE KeysAreFiles'
  <2>1. PICK t \in Tools, p \in Paths : withFileMutationQueue(o, t, p)
    BY <1>1 DEF Call
  <2>2. /\ tool[o] = None /\ \A q \in Ops : q # o => path'[q] = path[q]
        /\ UNCHANGED <<exists, resolved, promise, key>>
        /\ registrations' = Append(registrations, o)
    BY <2>1 DEF withFileMutationQueue
  <2>3. \A q \in Ops : promise[q] # "none" => q # o
    BY <2>2 DEF CallsHavePaths
  <2>4. resolved # None =>
           registrations' # <<>> /\ Head(registrations') = Head(registrations) /\ Head(registrations) \in Ops \ {o}
    <3>1. SUFFICES ASSUME resolved # None
                   PROVE  registrations' # <<>> /\ Head(registrations') = Head(registrations)
                          /\ Head(registrations) \in Ops \ {o}
      OBVIOUS
    <3>2. registrations # <<>> /\ 1 \in 1..Len(registrations) /\ registrations[1] = Head(registrations)
      BY <3>1 DEF KeysAreFiles
    <3>3. QED
      BY <2>2, <3>2 DEF CallsHavePaths
  <2>5. QED
    BY <2>2, <2>3, <2>4 DEF KeysAreFiles, FileOf
<1>2. ASSUME NEW o \in Ops, getMutationQueueKey(o) PROVE KeysAreFiles'
  <2>1. path[o] \in Paths /\ registrations # <<>> /\ Head(registrations) = o
    <3>1. 1 \in 1..Len(registrations) /\ registrations[1] = o
      BY <1>2 DEF getMutationQueueKey
    <3>2. QED
      BY <1>2, <3>1 DEF CallsHavePaths, getMutationQueueKey
  <2>2. FixedFile(FileOf(o)) => FileOf(o) \in exists \/ FileOf(o) = path[o]
    BY <2>1 DEF KeysAreFiles, FileOf, FixedFile
  <2>3. FixedFile(FileOf(o)) => resolved' = FileOf(o)
    BY <1>2, <2>2 DEF getMutationQueueKey
  <2>4. QED
    BY <1>2, <2>1, <2>3 DEF getMutationQueueKey, KeysAreFiles, FileOf, FixedFile
<1>3. ASSUME NEW o \in Ops, RegistrationFails(o) PROVE KeysAreFiles'
  BY <1>3 DEF RegistrationFails, KeysAreFiles, FileOf
<1>4. ASSUME NEW o \in Ops, Register(o) PROVE KeysAreFiles'
  <2>1. /\ key' = [key EXCEPT ![o] = resolved] /\ resolved' = None
        /\ FixedFile(FileOf(o)) => resolved = FileOf(o)
        /\ \A q \in Ops : q # o => promise'[q] = promise[q]
        /\ UNCHANGED <<path, exists>>
    BY <1>4 DEF Register, KeysAreFiles, Chain!Schedule, Chain!ChainTypeOK
  <2>2. key'[o] = resolved /\ \A q \in Ops : q # o => key'[q] = key[q]
    BY <2>1 DEF Chain!ChainTypeOK
  <2>3. ASSUME NEW q \in Ops, promise'[q] # "none", FixedFile(FileOf(q)) PROVE key'[q] = FileOf(q)
    BY <2>1, <2>2, <2>3 DEF KeysAreFiles
  <2>4. QED
    BY <2>1, <2>3 DEF KeysAreFiles, FileOf, FixedFile
<1>5. ASSUME NEW o \in Ops, Enter(o) PROVE KeysAreFiles'
  BY <1>5, KeysKept DEF Enter, Chain!Run, Chain!ChainTypeOK
<1>6. ASSUME NEW o \in Ops, CallbackStep(o) PROVE KeysAreFiles'
  <2>1. CASE Return(o) \/ Throw(o)
    <3>1. promise[o] # "none"
      BY <2>1 DEF WorkRuns, Working, Return, Throw
    <3>2. QED
      BY <2>1, <3>1, KeysKept DEF Return, Throw, Release, Chain!DropEntry, Chain!ChainTypeOK
  <2>2. CASE ReadFile(o) \/ FillFile(o)
    BY <2>2, KeysKept DEF ReadFile, FillFile
  <2>3. CASE OpenFile(o)
    <3>1. Working(o)
      BY <2>3 DEF OpenFile, Working
    <3>2. path[o] \in Paths
      BY <3>1 DEF WorkRuns, CallsHavePaths
    <3>3. FileOf(o) \in Files
      BY <3>2 DEF FileOf, Files
    <3>4. QED
      BY <2>3, <3>3, KeysKept DEF OpenFile
  <2>4. QED
    BY <1>6, <2>1, <2>2, <2>3 DEF CallbackStep
<1>7. ASSUME NEW f \in Files, Remove(f) PROVE KeysAreFiles'
  BY <1>7 DEF Remove, KeysAreFiles, FileOf
<1>8. CASE UNCHANGED vars
  BY <1>8 DEF vars, KeysAreFiles, FileOf
<1>9. QED
  BY <1>1, <1>2, <1>3, <1>4, <1>5, <1>6, <1>7, <1>8 DEF Next, QueueStep

\* Two callbacks of one file have the same key.
LEMMA FileFromKeys == QueueInv /\ KeysAreFiles => ExclusivePerFile
BY KeyFromInv DEF QueueInv, WorkRuns, KeysAreFiles, ExclusivePerKey, ExclusivePerFile

\* The callbacks that work on one file never overlap, if the file has one path
\* or is there from the start: the condition which the comment of
\* withFileMutationQueue leaves out.
THEOREM FileExclusion == Spec => []ExclusivePerFile
<1>1. Init => KeysAreFiles
  BY DEF Init, KeysAreFiles, Chain!ChainInit
<1>2. QED
  BY <1>1, QueueInvariant, NextKeysAreFiles, FileFromKeys, PTL DEF Spec

-----------------------------------------------------------------------------
(* What an edit has read is still there when it writes.                    *)

\* The file of an edit that has read it is as the edit read it.
ReadIsCurrent ==
    \A o \in Ops :
        /\ tool[o] = "edit" /\ at[o] = "read"
        /\ FixedFile(FileOf(o)) /\ FileOf(o) \notin Removable
        => snapshot[o] = content[FileOf(o)]

\* Only the callback that works on a file writes it, and an edit that writes has no
\* longer just read.
LEMMA NextReadIsCurrent ==
    ASSUME QueueInv, ExclusivePerFile, ReadIsCurrent, [Next]_vars
    PROVE  ReadIsCurrent'
<1> USE DEF QueueInv, FileTypeOK, callVars, fileVars, queueVars, GoTo, At
<1>0. \A o \in Ops : Working(o) => path[o] \in Paths /\ FileOf(o) \in Files
  BY DEF WorkRuns, CallsHavePaths, FileOf, Files
<1>1. ASSUME NEW o \in Ops, Call(o) PROVE ReadIsCurrent'
  <2>1. PICK t \in Tools, p \in Paths : withFileMutationQueue(o, t, p)
    BY <1>1 DEF Call
  <2>2. at[o] # "read"
    BY <2>1 DEF withFileMutationQueue, WorkRuns, Working, CallsHavePaths
  <2> QED
    BY <2>1, <2>2 DEF withFileMutationQueue, ReadIsCurrent, FileOf, FixedFile
<1>2. ASSUME NEW o \in Ops, QueueStep(o) PROVE ReadIsCurrent'
  <2>1. UNCHANGED <<tool, path, content, snapshot>>
    BY <1>2 DEF QueueStep, getMutationQueueKey, RegistrationFails, Register, Enter
  <2>2. \A q \in Ops : at'[q] = "read" => at[q] = "read"
    BY <1>2 DEF QueueStep, getMutationQueueKey, RegistrationFails, Register, Enter
  <2> QED
    BY <2>1, <2>2 DEF ReadIsCurrent, FileOf, FixedFile
<1>3. ASSUME NEW o \in Ops, ReadFile(o) PROVE ReadIsCurrent'
  BY <1>3 DEF ReadFile, ReadIsCurrent, FileOf, FixedFile
<1>4. ASSUME NEW o \in Ops, OpenFile(o) \/ FillFile(o) PROVE ReadIsCurrent'
  <2>1. /\ Working(o) /\ at'[o] # "read"
        /\ \A q \in Ops : q # o => at'[q] = at[q]
        /\ UNCHANGED <<tool, path, snapshot>>
        /\ \A f \in Files : f # FileOf(o) => content'[f] = content[f]
    BY <1>4 DEF OpenFile, FillFile, Working
  <2>2. SUFFICES ASSUME NEW q \in Ops, tool[q] = "edit", at'[q] = "read",
                        FixedFile(FileOf(q)), FileOf(q) \notin Removable
                 PROVE  snapshot[q] = content'[FileOf(q)]
    BY <2>1 DEF ReadIsCurrent, FileOf, FixedFile
  <2>3. q # o /\ at[q] = "read" /\ Working(q)
    BY <2>1, <2>2 DEF Working
  <2>4. FileOf(q) # FileOf(o)
    BY <2>1, <2>2, <2>3 DEF ExclusivePerFile
  <2> QED
    BY <1>0, <2>1, <2>2, <2>3, <2>4 DEF ReadIsCurrent
<1>5. ASSUME NEW o \in Ops, Return(o) \/ Throw(o) PROVE ReadIsCurrent'
  BY <1>5 DEF Return, Throw, Release, ReadIsCurrent, FileOf, FixedFile
<1>6. ASSUME NEW f \in Files, Remove(f) PROVE ReadIsCurrent'
  <2>1. /\ UNCHANGED <<tool, path, at, snapshot>> /\ f \in Removable
        /\ \A g \in Files : g # f => content'[g] = content[g]
    BY <1>6 DEF Remove
  <2>2. SUFFICES ASSUME NEW q \in Ops, tool[q] = "edit", at[q] = "read",
                        FixedFile(FileOf(q)), FileOf(q) \notin Removable
                 PROVE  snapshot[q] = content'[FileOf(q)]
    BY <2>1 DEF ReadIsCurrent, FileOf, FixedFile
  <2>3. FileOf(q) \in Files
    BY <1>0, <2>2 DEF Working
  <2> QED
    BY <2>1, <2>2, <2>3 DEF ReadIsCurrent
<1>7. CASE UNCHANGED vars
  BY <1>7 DEF vars, ReadIsCurrent, FileOf, FixedFile
<1> QED
  BY <1>1, <1>2, <1>3, <1>4, <1>5, <1>6, <1>7 DEF Next, CallbackStep

\* No edit overwrites a change that was made after it read its file, for any calls, paths
\* and aliases, if the file's key is fixed and nobody else removes it.
THEOREM EditsKeepChanges == Spec => NoLostEdit
<1>1. Init => ReadIsCurrent
  BY DEF Init, ReadIsCurrent
<1>2. QueueInv /\ ExclusivePerFile /\ ReadIsCurrent /\ [Next]_vars => ReadIsCurrent'
  BY NextReadIsCurrent
<1>3. ReadIsCurrent =>
        \A o \in Ops :
          /\ tool[o] = "edit" /\ at[o] = "read" /\ at'[o] = "truncated"
          /\ FixedFile(FileOf(o)) /\ FileOf(o) \notin Removable
          => snapshot[o] = content[FileOf(o)]
  BY DEF ReadIsCurrent
<1> QED
  BY <1>1, <1>2, <1>3, QueueInvariant, FileExclusion, PTL DEF Spec, NoLostEdit

-----------------------------------------------------------------------------
(* Refinement of SerialExecutor.                                           *)

Running == {o \in Ops : promise[o] = "running"}
Finished == {o \in Ops : Chain!HasSettled(o)}

\* A registration accepts the call: no queue has it yet.
LEMMA RegisterRefines ==
    ASSUME QueueInv, NEW o \in Ops, NEW p \in Paths, Chain!Schedule(o, p)
    PROVE  Chain!Executor!Accept(o, p)
<1>1. Chain!ChainTypeOK /\ Chain!HistoryOK /\ promise[o] = "none"
  BY DEF QueueInv, Chain!ChainInv, Chain!Schedule
<1>2. \A q \in Paths : \A i \in 1..Len(registered[q]) : registered[q][i] # o
  BY <1>1 DEF Chain!HistoryOK
<1>3. \A q \in Ops : /\ promise'[q] = "running" <=> promise[q] = "running"
                     /\ Chain!HasSettled(q)' <=> Chain!HasSettled(q)
  BY <1>1 DEF Chain!Schedule, Chain!ChainTypeOK, Chain!HasSettled
<1>4. Running' = Running /\ Finished' = Finished
  BY <1>3 DEF Running, Finished
<1> QED
  BY <1>2, <1>4 DEF Chain!Executor!Accept, Chain!Executor!IsNew, Chain!Schedule, Running,
        Finished

\* A callback starts when every earlier call on its key is over.
LEMMA EnterRefines ==
    ASSUME QueueInv, Chain!ChainInv', NEW o \in Ops, Chain!Run(o)
    PROVE  \E p \in Paths : Chain!Executor!Start(o, p)
<1>1. /\ Chain!ChainTypeOK /\ Chain!HistoryOK
      /\ promise[o] = "waiting" /\ promise' = [promise EXCEPT ![o] = "running"]
      /\ UNCHANGED <<key, registered>>
  BY DEF QueueInv, Chain!ChainInv, Chain!Run
<1>2. promise'[o] = "running" /\ \A q \in Ops : q # o => promise'[q] = promise[q]
  BY <1>1 DEF Chain!ChainTypeOK
<1>3. key[o] \in Paths
  BY <1>1 DEF Chain!HistoryOK
<1>4. PICK p \in Paths : p = key[o]
  BY <1>3
<1>5. PICK i \in 1..Len(registered[p]) : registered[p][i] = o
  BY <1>1, <1>4 DEF Chain!HistoryOK
<1>6. Len(registered[p]) \in Nat /\ \A k \in 1..Len(registered[p]) : registered[p][k] \in Ops
  BY <1>1 DEF Chain!ChainTypeOK
<1>7. \A q \in Ops : /\ Chain!HasSettled(q)' <=> Chain!HasSettled(q)
                     /\ promise'[q] = "running" <=> (promise[q] = "running" \/ q = o)
  BY <1>1, <1>2 DEF Chain!HasSettled
<1>8. Running' = Running \cup {o} /\ Finished' = Finished
  BY <1>7 DEF Running, Finished
<1>9. o \notin Running \cup Finished
  BY <1>1 DEF Running, Finished, Chain!HasSettled
<1>10. ASSUME NEW k \in 1..(i - 1) PROVE registered[p][k] \in Finished
  <2>1. k \in 1..Len(registered[p]) /\ k < i /\ i \in 1..Len(registered[p])
    BY <1>5, <1>6
  <2>2. Chain!SettledBefore'
    BY DEF Chain!ChainInv
  <2>3. Chain!HasSettled(registered[p][k])'
    BY <1>1, <1>2, <1>5, <2>1, <2>2 DEF Chain!SettledBefore, Chain!HasStarted,
          Chain!HasSettled
  <2>4. Chain!HasSettled(registered[p][k])
    BY <1>1, <1>6, <1>7, <2>1, <2>3 DEF Chain!HasSettled
  <2> QED
    BY <1>6, <2>1, <2>4 DEF Finished
<1> QED
  BY <1>1, <1>5, <1>8, <1>9, <1>10 DEF Chain!Executor!Start, Running, Finished

\* The end of a call is the end of its job: the queue has no state between the two.
LEMMA ReleaseRefines ==
    ASSUME QueueInv, NEW o \in Ops, Working(o), Chain!DropEntry(o)
    PROVE  Chain!Executor!Finish(o)
<1>1. /\ Chain!ChainTypeOK /\ promise[o] = "running"
      /\ promise' = [promise EXCEPT ![o] = "forgotten"] /\ UNCHANGED registered
  BY DEF QueueInv, Chain!ChainInv, WorkRuns, Chain!DropEntry
<1>2. promise'[o] = "forgotten" /\ \A q \in Ops : q # o => promise'[q] = promise[q]
  BY <1>1 DEF Chain!ChainTypeOK
<1>3. o \in Running /\ Running' = Running \ {o} /\ Finished' = Finished \cup {o}
  BY <1>1, <1>2 DEF Running, Finished, Chain!HasSettled
<1> QED
  BY <1>1, <1>3 DEF Chain!Executor!Finish, Running, Finished

\* Every step of the queue is a step of the executor, or changes nothing of it.
LEMMA QueueStepRefines ==
    ASSUME QueueInv, [Next]_vars, Chain!ChainInv'
    PROVE  [Chain!Executor!Next]_(Chain!Executor!vars)
<1> DEFINE Stutter == UNCHANGED Chain!Executor!vars
<1>0. UNCHANGED queueVars => Stutter
  BY DEF queueVars, Chain!Executor!vars, Chain!HasSettled
<1>1. ASSUME NEW o \in Ops, Call(o) \/ getMutationQueueKey(o) \/ RegistrationFails(o)
                              \/ ReadFile(o) \/ OpenFile(o) \/ FillFile(o)
      PROVE  Stutter
  BY <1>0, <1>1 DEF Call, withFileMutationQueue, getMutationQueueKey, RegistrationFails,
                    ReadFile, OpenFile, FillFile
<1>2. ASSUME NEW o \in Ops, Register(o) PROVE Chain!Executor!Next
  <2>1. resolved \in Paths /\ Chain!Schedule(o, resolved)
    BY <1>2 DEF Register, QueueInv, FileTypeOK
  <2> QED
    BY <2>1, RegisterRefines DEF Chain!Executor!Next
<1>3. ASSUME NEW o \in Ops, Enter(o) PROVE Chain!Executor!Next
  BY <1>3, EnterRefines DEF Enter, Chain!Executor!Next
<1>4. ASSUME NEW o \in Ops, Return(o) \/ Throw(o) PROVE Chain!Executor!Next
  BY <1>4, ReleaseRefines DEF Return, Throw, Release, Working, Chain!Executor!Next
<1>5. ASSUME NEW f \in Files, Remove(f) PROVE Stutter
  BY <1>0, <1>5 DEF Remove
<1>6. CASE UNCHANGED vars
  BY <1>0, <1>6 DEF vars
<1> QED
  BY <1>1, <1>2, <1>3, <1>4, <1>5, <1>6 DEF Next, QueueStep, CallbackStep

\* The queue of file mutations, though its keys come from a file system that changes and
\* its map forgets idle keys, runs the calls on one key one at a time, in the order of
\* their registration.
THEOREM QueueImplementsExecutor == Spec => QueueIsSerial
<1>1. Init => Chain!Executor!Init
  BY DEF Init, Chain!ChainInit, Chain!Executor!Init, Chain!HasSettled
<1>2. QueueInv => Chain!ChainInv
  BY DEF QueueInv
<1>3. QueueInv /\ Chain!ChainInv' /\ [Next]_vars => [Chain!Executor!Next]_(Chain!Executor!vars)
  BY QueueStepRefines
<1> QED
  BY <1>1, <1>2, <1>3, QueueInvariant, PTL
     DEF Spec, QueueIsSerial, Chain!ImplementsSerialExecutor, Chain!Executor!Spec

-----------------------------------------------------------------------------
(* The bash tool, which works beside the queue and shares no state with it. *)

CONSTANTS MaxChunks
VARIABLES execute, shell, holders, strays, sent, output, ended, exitCode, postExit, aborted,
          timeout, dirty, updateTimer, update, answer

Shell == INSTANCE BashTool

Outcomes == {"ok", "failed", "aborted", "timeout", "error"}
Answers == [outcome : Outcomes, chunks : [Shell!Pipes -> 0 .. MaxChunks]]

\* An update goes out with the answer, and is the last.
LEMMA AnswerIsShown ==
    ASSUME Shell!TypeOK, Shell!UpdatesFollow, ~Shell!Answered, NEW outcome \in Outcomes, Shell!Finish(outcome),
           UNCHANGED output
    PROVE  /\ execute' = "closing"
           /\ answer' \in Answers /\ answer'.outcome = outcome /\ answer'.chunks = output
           /\ update' = output /\ updateTimer' = FALSE /\ dirty' = FALSE
<1>1. /\ execute' = "closing" /\ updateTimer' = FALSE /\ dirty' = FALSE
      /\ answer' = [outcome |-> outcome, chunks |-> output]
      /\ update' = IF dirty THEN output ELSE update
  BY DEF Shell!Finish
<1>2. output \in [Shell!Pipes -> 0 .. MaxChunks]
  BY DEF Shell!TypeOK
<1>3. answer' \in Answers /\ answer'.outcome = outcome /\ answer'.chunks = output
  BY <1>1, <1>2 DEF Answers
<1>4. update' = output
  BY <1>1 DEF Shell!UpdatesFollow
<1> QED
  BY <1>1, <1>3, <1>4

\* The call is settled by an end of the streams, an exit or the grace timer.
LEMMA FinalizeKeeps ==
    ASSUME Shell!BashInv, execute = "waiting", shell \in Shell!Endings, Shell!finalize(shell, timeout),
           UNCHANGED <<Shell!command, output, aborted>>,
           ended' \subseteq Shell!Pipes, exitCode' = shell,
           \A p \in ended' : ~Shell!Open(p) /\ output[p] = sent[p]
    PROVE  Shell!BashInv'
<1> USE DEF Shell!BashInv
<1>1. PICK outcome \in Outcomes :
        /\ Shell!Finish(outcome)
        /\ outcome = "aborted" => aborted
        /\ outcome = "timeout" => timeout = "fired"
        /\ outcome = "ok" => timeout # "fired" /\ shell # "nonzero"
  <2>1. CASE aborted
    BY <2>1 DEF Shell!finalize, Outcomes
  <2>2. CASE ~aborted /\ timeout = "fired"
    BY <2>2 DEF Shell!finalize, Outcomes
  <2>3. CASE ~aborted /\ timeout # "fired"
    BY <2>3 DEF Shell!finalize, Outcomes
  <2> QED
    BY <2>1, <2>2, <2>3
<1>2. postExit' = "off" /\ timeout' = timeout /\ ~Shell!Answered
  BY DEF Shell!finalize, Shell!Answered
<1>3. /\ execute' = "closing"
      /\ answer' \in Answers /\ answer'.outcome = outcome /\ answer'.chunks = output
      /\ update' = output /\ updateTimer' = FALSE /\ dirty' = FALSE
  BY <1>1, <1>2, AnswerIsShown
<1>4. shell' = shell /\ holders' = holders /\ strays' = strays /\ sent' = sent
      /\ output' = output /\ aborted' = aborted
  BY DEF Shell!command
<1>5. Shell!Answered' /\ execute' # "waiting"
  BY <1>3 DEF Shell!Answered
<1>6. Shell!TypeOK'
  <2>1. execute' \in {"checking", "waiting", "closing", "returned"}
        /\ shell' \in {"none", "running"} \cup Shell!Endings
        /\ holders' \subseteq Shell!Pipes /\ strays' \subseteq Shell!Pipes /\ ended' \subseteq Shell!Pipes
        /\ sent' \in [Shell!Pipes -> 0 .. MaxChunks] /\ output' \in [Shell!Pipes -> 0 .. MaxChunks]
        /\ exitCode' \in Shell!Endings \cup {None} /\ postExit' \in {"off", "on"}
        /\ timeout' \in {"unset", "on", "fired"} /\ update' \in [Shell!Pipes -> 0 .. MaxChunks]
    BY <1>2, <1>3, <1>4 DEF Shell!TypeOK
  <2>2. aborted' \in BOOLEAN /\ dirty' \in BOOLEAN /\ updateTimer' \in BOOLEAN
    BY <1>3, <1>4 DEF Shell!TypeOK
  <2> QED
    BY <2>1, <2>2, <1>3 DEF Shell!TypeOK, Answers, Outcomes
<1>7. Shell!UpdatesFollow' /\ Shell!ShellIsKnown' /\ Shell!StoppedIsDead'
  BY <1>2, <1>3, <1>4, <1>5 DEF Shell!UpdatesFollow, Shell!ShellIsKnown, Shell!StoppedIsDead
<1>8. Shell!EndedIsRead'
  BY <1>4 DEF Shell!EndedIsRead, Shell!Open
<1>9. Shell!LastUpdateIsAnswer'
  BY <1>3, <1>4 DEF Shell!LastUpdateIsAnswer
<1>10. Shell!NoOrphans'
  <2>1. shell # "running"
    BY DEF Shell!Endings
  <2>2. aborted \/ timeout = "fired" => holders = {}
    BY DEF Shell!StoppedIsDead
  <2> QED
    BY <1>1, <1>3, <1>4, <2>1, <2>2 DEF Shell!NoOrphans
<1>11. Shell!SuccessIsReal'
  BY <1>1, <1>2, <1>3, <1>4 DEF Shell!SuccessIsReal, Shell!Endings
<1>12. Shell!WholeOutput'
  <2>1. ASSUME ended' = Shell!Pipes PROVE output = sent
    <3>1. \A p \in Shell!Pipes : output[p] = sent[p]
      BY <2>1
    <3>2. output \in [Shell!Pipes -> 0 .. MaxChunks] /\ sent \in [Shell!Pipes -> 0 .. MaxChunks]
      BY DEF Shell!TypeOK
    <3> QED
      BY <3>1, <3>2
  <2> QED
    BY <1>3, <1>4, <2>1 DEF Shell!WholeOutput
<1> QED
  BY <1>6, <1>7, <1>8, <1>9, <1>10, <1>11, <1>12

\* What the command may change: a write needs an open pipe, and a closed pipe stays closed,
\* since a new process needs the shell.
CommandStep ==
    /\ UNCHANGED <<execute, output, ended, exitCode, postExit, aborted, timeout, dirty,
                   updateTimer, update, answer>>
    /\ sent' \in [Shell!Pipes -> 0 .. MaxChunks] /\ shell' \in {"none", "running"} \cup Shell!Endings
    /\ holders' \subseteq Shell!Pipes /\ strays' \subseteq Shell!Pipes
    /\ \A p \in Shell!Pipes : ~Shell!Open(p) => ~Shell!Open(p)' /\ sent'[p] = sent[p]
    /\ shell # "running" => shell' = shell /\ holders' \subseteq holders
    /\ shell = "running" => shell' \in {"running"} \cup Shell!Endings

\* A process of the command writes, starts another, or ends.
LEMMA CommandSteps ==
    ASSUME Shell!TypeOK, MaxChunks \in Nat, Shell!Command
    PROVE  CommandStep
<1>0. UNCHANGED <<execute, output, ended, exitCode, postExit, aborted, timeout, dirty, updateTimer,
                 update, answer>>
  BY DEF Shell!Command, Shell!Write, Shell!Background, Shell!Exit, Shell!BackgroundEnds,
        Shell!waiting, Shell!updates
<1>1. ASSUME NEW p \in Shell!Pipes, Shell!Write(p) PROVE CommandStep
  <2>1. Shell!Open(p) /\ sent[p] < MaxChunks /\ sent' = [sent EXCEPT ![p] = @ + 1]
        /\ UNCHANGED <<shell, holders, strays>>
    BY <1>1 DEF Shell!Write
  <2>2. sent' \in [Shell!Pipes -> 0 .. MaxChunks]
    BY <2>1 DEF Shell!TypeOK
  <2>3. \A q \in Shell!Pipes : ~Shell!Open(q) => ~Shell!Open(q)' /\ sent'[q] = sent[q]
    BY <2>1 DEF Shell!Open, Shell!TypeOK
  <2> QED
    BY <1>0, <2>1, <2>2, <2>3 DEF Shell!TypeOK, CommandStep
<1>2. ASSUME NEW p \in Shell!Pipes, Shell!Background(p) PROVE CommandStep
  <2>1. shell = "running" /\ UNCHANGED <<shell, sent>>
        /\ holders' \subseteq holders \cup {p} /\ strays' \subseteq strays \cup {p}
    BY <1>2 DEF Shell!Background
  <2> QED
    BY <1>0, <2>1 DEF Shell!TypeOK, Shell!Open, Shell!Endings, CommandStep
<1>3. ASSUME Shell!Exit PROVE CommandStep
  <2>1. shell = "running" /\ shell' \in Shell!Endings /\ UNCHANGED <<holders, strays, sent>>
    BY <1>3 DEF Shell!Exit
  <2> QED
    BY <1>0, <2>1 DEF Shell!TypeOK, Shell!Open, Shell!Endings, CommandStep
<1>4. ASSUME NEW p \in Shell!Pipes, Shell!BackgroundEnds(p) PROVE CommandStep
  <2>1. UNCHANGED <<shell, sent>> /\ holders' = holders \ {p} /\ strays' = strays \ {p}
    BY <1>4 DEF Shell!BackgroundEnds
  <2> QED
    BY <1>0, <2>1 DEF Shell!TypeOK, Shell!Open, Shell!Endings, CommandStep
<1> QED
  BY <1>1, <1>2, <1>3, <1>4 DEF Shell!Command

\* An answer is not touched by what the command does after it.
LEMMA CommandKeeps ==
    ASSUME Shell!BashInv, CommandStep
    PROVE  Shell!BashInv'
<1> USE DEF Shell!BashInv
<1>1. UNCHANGED <<execute, output, ended, exitCode, postExit, timeout, update, answer>>
      /\ Shell!Answered' = Shell!Answered
  BY DEF CommandStep, Shell!Answered
<1>2. UNCHANGED <<aborted, dirty, updateTimer>>
  BY DEF CommandStep
<1>3. Shell!TypeOK'
  <2>1. aborted' \in BOOLEAN /\ dirty' \in BOOLEAN /\ updateTimer' \in BOOLEAN
    BY <1>2 DEF Shell!TypeOK
  <2> QED
    BY <1>1, <2>1 DEF Shell!TypeOK, CommandStep, Shell!Answered
<1>4. Shell!UpdatesFollow' /\ Shell!LastUpdateIsAnswer'
  BY <1>1, <1>2 DEF Shell!UpdatesFollow, Shell!LastUpdateIsAnswer
<1>5. Shell!ShellIsKnown'
  BY <1>1 DEF Shell!ShellIsKnown, CommandStep, Shell!Endings
<1>6. Shell!StoppedIsDead'
  BY <1>1, <1>2 DEF Shell!StoppedIsDead, CommandStep
<1>7. Shell!EndedIsRead'
  BY <1>1 DEF Shell!EndedIsRead, CommandStep, Shell!TypeOK
<1>8. Shell!NoOrphans' /\ Shell!SuccessIsReal'
  BY <1>1 DEF Shell!NoOrphans, Shell!SuccessIsReal, CommandStep
<1>9. Shell!WholeOutput'
  <2>1. ASSUME ended = Shell!Pipes PROVE sent' = sent
    <3>1. \A p \in Shell!Pipes : sent'[p] = sent[p]
      BY <2>1 DEF Shell!EndedIsRead, CommandStep
    <3> QED
      BY <3>1 DEF Shell!TypeOK, CommandStep
  <2> QED
    BY <1>1, <2>1 DEF Shell!WholeOutput, Shell!Answered
<1> QED
  BY <1>3, <1>4, <1>5, <1>6, <1>7, <1>8, <1>9

\* A kill leaves neither the shell nor its group.
LEMMA KillKeeps ==
    ASSUME Shell!BashInv, execute = "waiting", Shell!Kill,
           UNCHANGED <<execute, output, ended, exitCode, postExit, dirty, updateTimer, update,
                       answer>>,
           aborted' \in BOOLEAN, timeout' \in {"unset", "on", "fired"}
    PROVE  Shell!BashInv'
<1> USE DEF Shell!BashInv
<1>1. /\ shell' = IF shell = "running" THEN "signal" ELSE shell
      /\ holders' = {} /\ strays' = strays /\ sent' = sent
  BY DEF Shell!Kill
<1>2. ~Shell!Answered' /\ execute' = "waiting" /\ shell' # "running"
  BY <1>1 DEF Shell!Answered
<1>3. Shell!TypeOK'
  <2>1. dirty' \in BOOLEAN /\ updateTimer' \in BOOLEAN
    BY DEF Shell!TypeOK
  <2> QED
    BY <1>1, <1>2, <2>1 DEF Shell!TypeOK, Shell!Endings
<1>4. Shell!UpdatesFollow'
  BY <1>2 DEF Shell!UpdatesFollow, Shell!Answered
<1>5. Shell!ShellIsKnown' /\ Shell!StoppedIsDead'
  BY <1>1, <1>2 DEF Shell!ShellIsKnown, Shell!StoppedIsDead, Shell!Endings
<1>6. Shell!EndedIsRead'
  BY <1>1 DEF Shell!EndedIsRead, Shell!Open
<1>7. Shell!LastUpdateIsAnswer' /\ Shell!NoOrphans' /\ Shell!SuccessIsReal' /\ Shell!WholeOutput'
  BY <1>2 DEF Shell!LastUpdateIsAnswer, Shell!NoOrphans, Shell!SuccessIsReal,
        Shell!WholeOutput
<1> QED
  BY <1>3, <1>4, <1>5, <1>6, <1>7

\* Refuse answers without a shell.
LEMMA RefuseKeeps ==
    ASSUME Shell!BashInv, Shell!Refuse
    PROVE  Shell!BashInv'
<1> USE DEF Shell!BashInv
<1>1. PICK outcome \in {"aborted", "error"} : Shell!Finish(outcome)
  BY DEF Shell!Refuse
<1>2. execute = "checking" /\ UNCHANGED <<shell, holders, strays, sent, output, ended, exitCode,
                                         postExit, timeout>>
      /\ UNCHANGED aborted /\ ~Shell!Answered
  BY DEF Shell!Refuse, Shell!command, Shell!waiting, Shell!Answered
<1>3. /\ execute' = "closing"
      /\ answer' \in Answers /\ answer'.outcome = outcome /\ answer'.chunks = output
      /\ update' = output /\ updateTimer' = FALSE /\ dirty' = FALSE
  BY <1>1, <1>2, AnswerIsShown DEF Outcomes
<1>4. Shell!Answered' /\ shell = "none"
  BY <1>2, <1>3 DEF Shell!Answered, Shell!ShellIsKnown
<1>5. Shell!TypeOK'
  <2>1. aborted' \in BOOLEAN /\ dirty' \in BOOLEAN /\ updateTimer' \in BOOLEAN
    BY <1>2, <1>3 DEF Shell!TypeOK
  <2> QED
    BY <1>2, <1>3, <2>1 DEF Shell!TypeOK, Answers, Outcomes
<1>6. Shell!UpdatesFollow' /\ Shell!LastUpdateIsAnswer'
  BY <1>2, <1>3, <1>4 DEF Shell!UpdatesFollow, Shell!LastUpdateIsAnswer
<1>7. Shell!ShellIsKnown' /\ Shell!StoppedIsDead'
  BY <1>2, <1>3 DEF Shell!ShellIsKnown, Shell!StoppedIsDead
<1>8. Shell!EndedIsRead'
  BY <1>2 DEF Shell!EndedIsRead, Shell!Open
<1>9. Shell!NoOrphans' /\ Shell!SuccessIsReal' /\ Shell!WholeOutput'
  BY <1>2, <1>3, <1>4 DEF Shell!NoOrphans, Shell!SuccessIsReal, Shell!WholeOutput
<1> QED
  BY <1>5, <1>6, <1>7, <1>8, <1>9

\* A step of the call that does not settle it.
CallStep == Shell!Start \/ Shell!Throttle \/ Shell!Return \/ \E p \in Shell!Pipes : Shell!Data(p)

\* Output is read and shown, the call begins and returns.
LEMMA CallStepKeeps ==
    ASSUME Shell!BashInv, MaxChunks \in Nat, CallStep
    PROVE  Shell!BashInv'
<1> USE DEF Shell!BashInv
<1>1. CASE Shell!Start
  <2>1. execute = "checking" /\ shell' = "running" /\ execute' = "waiting" /\ ~Shell!Answered /\ ~Shell!Answered'
        /\ UNCHANGED <<holders, strays, sent, output, ended, exitCode, postExit, timeout, update,
                       answer>>
    BY <1>1 DEF Shell!Start, Shell!waiting, Shell!updates, Shell!Answered
  <2>2. ~aborted /\ UNCHANGED <<aborted, dirty, updateTimer>>
    BY <1>1 DEF Shell!Start, Shell!updates
  <2>3. Shell!TypeOK'
    <3>1. aborted' \in BOOLEAN /\ dirty' \in BOOLEAN /\ updateTimer' \in BOOLEAN
      BY <2>2 DEF Shell!TypeOK
    <3> QED
      BY <2>1, <3>1 DEF Shell!TypeOK
  <2>4. Shell!UpdatesFollow'
    BY <2>1, <2>2 DEF Shell!UpdatesFollow
  <2>5. exitCode = None /\ timeout # "fired" /\ shell = "none"
    BY <2>1 DEF Shell!ShellIsKnown, Shell!Endings
  <2>6. Shell!ShellIsKnown' /\ Shell!StoppedIsDead'
    BY <2>1, <2>2, <2>5 DEF Shell!ShellIsKnown, Shell!StoppedIsDead
  <2>7. Shell!EndedIsRead'
    BY <2>1 DEF Shell!EndedIsRead, Shell!ShellIsKnown
  <2>8. Shell!LastUpdateIsAnswer' /\ Shell!NoOrphans' /\ Shell!SuccessIsReal' /\ Shell!WholeOutput'
    BY <2>1 DEF Shell!LastUpdateIsAnswer, Shell!NoOrphans, Shell!SuccessIsReal,
          Shell!WholeOutput
  <2> QED
    BY <2>3, <2>4, <2>6, <2>7, <2>8
\* An update that waited goes out; after the answer none waits.
<1>2. CASE Shell!Throttle
  <2>1. UNCHANGED <<execute, shell, holders, strays, sent, output, ended, exitCode, postExit,
                   timeout, answer>>
    BY <1>2 DEF Shell!Throttle, Shell!command, Shell!waiting
  <2>2. /\ updateTimer /\ updateTimer' = FALSE /\ dirty' = FALSE
        /\ update' = IF dirty THEN output ELSE update
        /\ UNCHANGED aborted
    BY <1>2 DEF Shell!Throttle
  <2>3. ~Shell!Answered /\ ~Shell!Answered' /\ update' = output
    BY <2>1, <2>2 DEF Shell!LastUpdateIsAnswer, Shell!UpdatesFollow, Shell!Answered
  <2>4. Shell!TypeOK'
    <3>1. aborted' \in BOOLEAN /\ dirty' \in BOOLEAN /\ updateTimer' \in BOOLEAN
      BY <2>2 DEF Shell!TypeOK
    <3> QED
      BY <2>1, <2>3, <3>1 DEF Shell!TypeOK
  <2>5. Shell!UpdatesFollow'
    BY <2>1, <2>2, <2>3 DEF Shell!UpdatesFollow
  <2>6. Shell!ShellIsKnown' /\ Shell!StoppedIsDead'
    BY <2>1, <2>2 DEF Shell!ShellIsKnown, Shell!StoppedIsDead
  <2>7. Shell!EndedIsRead'
    BY <2>1 DEF Shell!EndedIsRead, Shell!Open
  <2>8. Shell!LastUpdateIsAnswer' /\ Shell!NoOrphans' /\ Shell!SuccessIsReal' /\ Shell!WholeOutput'
    BY <2>3 DEF Shell!LastUpdateIsAnswer, Shell!NoOrphans, Shell!SuccessIsReal,
          Shell!WholeOutput
  <2> QED
    BY <2>4, <2>5, <2>6, <2>7, <2>8
<1>3. CASE Shell!Return
  <2>1. UNCHANGED <<shell, holders, strays, sent, output, ended, exitCode, postExit,
                   timeout, update, answer>>
        /\ execute = "closing" /\ execute' = "returned"
    BY <1>3 DEF Shell!Return, Shell!command, Shell!waiting, Shell!updates
  <2>2. UNCHANGED <<aborted, dirty, updateTimer>>
    BY <1>3 DEF Shell!Return, Shell!updates
  <2>3. Shell!Answered /\ Shell!Answered'
    BY <2>1 DEF Shell!Answered
  <2>4. Shell!TypeOK'
    <3>1. aborted' \in BOOLEAN /\ dirty' \in BOOLEAN /\ updateTimer' \in BOOLEAN
      BY <2>2 DEF Shell!TypeOK
    <3> QED
      BY <2>1, <2>3, <3>1 DEF Shell!TypeOK
  <2>5. Shell!UpdatesFollow' /\ Shell!LastUpdateIsAnswer'
    BY <2>1, <2>2, <2>3 DEF Shell!UpdatesFollow, Shell!LastUpdateIsAnswer
  <2>6. Shell!ShellIsKnown' /\ Shell!StoppedIsDead'
    BY <2>1 DEF Shell!ShellIsKnown, Shell!StoppedIsDead
  <2>7. Shell!EndedIsRead'
    BY <2>1 DEF Shell!EndedIsRead, Shell!Open
  <2>8. Shell!NoOrphans' /\ Shell!SuccessIsReal' /\ Shell!WholeOutput'
    BY <2>1, <2>3 DEF Shell!NoOrphans, Shell!SuccessIsReal, Shell!WholeOutput
  <2> QED
    BY <2>4, <2>5, <2>6, <2>7, <2>8
\* A chunk is read of a pipe whose end was not handled.
<1>4. ASSUME NEW p \in Shell!Pipes, Shell!Data(p) PROVE Shell!BashInv'
  <2>1. UNCHANGED <<execute, shell, holders, strays, sent, ended, exitCode, postExit, timeout,
                   answer>>
        /\ execute = "waiting" /\ output[p] < sent[p] /\ output' = [output EXCEPT ![p] = @ + 1]
    BY <1>4 DEF Shell!Data, Shell!command, Shell!waiting
  <2>2. UNCHANGED aborted
    BY <1>4 DEF Shell!Data
  <2>3. \/ dirty' = FALSE /\ update' = output' /\ updateTimer' = FALSE
        \/ dirty' = TRUE /\ updateTimer' = TRUE /\ UNCHANGED update
    BY <1>4 DEF Shell!Data
  <2>4. output' \in [Shell!Pipes -> 0 .. MaxChunks] /\ p \notin ended
        /\ \A q \in ended : output'[q] = output[q]
    BY <2>1 DEF Shell!TypeOK, Shell!EndedIsRead
  <2>5. ~Shell!Answered'
    BY <2>1 DEF Shell!Answered
  <2>6. Shell!TypeOK'
    <3>1. aborted' \in BOOLEAN /\ dirty' \in BOOLEAN /\ updateTimer' \in BOOLEAN
      BY <2>2, <2>3 DEF Shell!TypeOK
    <3>2. update' \in [Shell!Pipes -> 0 .. MaxChunks]
      BY <2>3, <2>4 DEF Shell!TypeOK
    <3> QED
      BY <2>1, <2>4, <2>5, <3>1, <3>2 DEF Shell!TypeOK
  <2>7. Shell!UpdatesFollow'
    BY <2>3 DEF Shell!UpdatesFollow
  <2>8. Shell!ShellIsKnown' /\ Shell!StoppedIsDead'
    BY <2>1, <2>2 DEF Shell!ShellIsKnown, Shell!StoppedIsDead
  <2>9. Shell!EndedIsRead'
    BY <2>1, <2>4 DEF Shell!EndedIsRead, Shell!Open
  <2>10. Shell!LastUpdateIsAnswer' /\ Shell!NoOrphans' /\ Shell!SuccessIsReal' /\ Shell!WholeOutput'
    BY <2>5 DEF Shell!LastUpdateIsAnswer, Shell!NoOrphans, Shell!SuccessIsReal,
          Shell!WholeOutput
  <2> QED
    BY <2>6, <2>7, <2>8, <2>9, <2>10
<1> QED
  BY <1>1, <1>2, <1>3, <1>4 DEF CallStep

\* The end of a pipe, the exit event and the grace timer settle the call, or are noted.
LEMMA EndingsKeep ==
    ASSUME Shell!BashInv, None \notin Shell!Endings,
           Shell!ExitEvent \/ Shell!PostExit \/ \E p \in Shell!Pipes : Shell!End(p)
    PROVE  Shell!BashInv'
<1> USE DEF Shell!BashInv
\* What is noted of a call that goes on.
<1>1. ASSUME execute = "waiting", UNCHANGED <<execute, answer, Shell!updates, timeout, Shell!command, output>>,
             UNCHANGED aborted, ended' \subseteq Shell!Pipes, postExit' \in {"off", "on"},
             exitCode' # None => exitCode' = shell /\ shell \in Shell!Endings,
             postExit' = "on" => exitCode' # None, exitCode' \in Shell!Endings \cup {None},
             \A p \in ended' : ~Shell!Open(p) /\ output[p] = sent[p]
      PROVE  Shell!BashInv'
  <2>1. UNCHANGED <<execute, shell, holders, strays, sent, output, timeout, update, answer>>
    BY <1>1 DEF Shell!command, Shell!updates
  <2>2. UNCHANGED <<aborted, dirty, updateTimer>>
    BY <1>1 DEF Shell!updates
  <2>3. ~Shell!Answered /\ ~Shell!Answered'
    BY <1>1, <2>1 DEF Shell!Answered
  <2>4. Shell!TypeOK'
    <3>1. aborted' \in BOOLEAN /\ dirty' \in BOOLEAN /\ updateTimer' \in BOOLEAN
      BY <2>2 DEF Shell!TypeOK
    <3> QED
      BY <1>1, <2>1, <2>3, <3>1 DEF Shell!TypeOK
  <2>5. Shell!UpdatesFollow'
    BY <2>1, <2>2, <2>3 DEF Shell!UpdatesFollow
  <2>6. Shell!ShellIsKnown' /\ Shell!StoppedIsDead'
    BY <1>1, <2>1, <2>2 DEF Shell!ShellIsKnown, Shell!StoppedIsDead
  <2>7. Shell!EndedIsRead'
    BY <1>1, <2>1 DEF Shell!EndedIsRead, Shell!Open
  <2>8. Shell!LastUpdateIsAnswer' /\ Shell!NoOrphans' /\ Shell!SuccessIsReal' /\ Shell!WholeOutput'
    BY <2>3 DEF Shell!LastUpdateIsAnswer, Shell!NoOrphans, Shell!SuccessIsReal,
          Shell!WholeOutput
  <2> QED
    BY <2>4, <2>5, <2>6, <2>7, <2>8
<1>2. ASSUME NEW p \in Shell!Pipes, Shell!End(p) PROVE Shell!BashInv'
  <2>1. execute = "waiting" /\ ~Shell!Open(p) /\ output[p] = sent[p] /\ ended' = ended \cup {p}
        /\ UNCHANGED <<Shell!command, output, exitCode, aborted>>
    BY <1>2 DEF Shell!End
  <2>2. ended' \subseteq Shell!Pipes /\ \A q \in ended' : ~Shell!Open(q) /\ output[q] = sent[q]
    BY <2>1 DEF Shell!TypeOK, Shell!EndedIsRead
  <2>3. CASE ended' = Shell!Pipes /\ exitCode # None
    <3>1. Shell!finalize(exitCode, timeout)
      BY <1>2, <2>3 DEF Shell!End
    <3>2. exitCode = shell /\ shell \in Shell!Endings
      BY <2>3 DEF Shell!ShellIsKnown
    <3> QED
      BY <2>1, <2>2, <3>1, <3>2, FinalizeKeeps
  <2>4. CASE ~(ended' = Shell!Pipes /\ exitCode # None)
    <3>1. UNCHANGED <<execute, answer, Shell!updates, postExit, timeout>>
      BY <1>2, <2>4 DEF Shell!End
    <3> QED
      BY <1>1, <2>1, <2>2, <3>1 DEF Shell!ShellIsKnown, Shell!TypeOK
  <2> QED
    BY <2>3, <2>4
<1>3. CASE Shell!ExitEvent
  <2>1. execute = "waiting" /\ shell \in Shell!Endings /\ exitCode' = shell
        /\ UNCHANGED <<Shell!command, output, ended, aborted>>
    BY <1>3 DEF Shell!ExitEvent
  <2>2. ended' \subseteq Shell!Pipes /\ \A q \in ended' : ~Shell!Open(q) /\ output[q] = sent[q]
    BY <2>1 DEF Shell!TypeOK, Shell!EndedIsRead
  <2>3. CASE ended = Shell!Pipes
    <3>1. Shell!finalize(shell, timeout)
      BY <1>3, <2>3 DEF Shell!ExitEvent
    <3> QED
      BY <2>1, <2>2, <3>1, FinalizeKeeps
  <2>4. CASE ended # Shell!Pipes
    <3>1. postExit' = "on" /\ UNCHANGED <<execute, answer, Shell!updates, timeout>>
      BY <1>3, <2>4 DEF Shell!ExitEvent
    <3> QED
      BY <1>1, <2>1, <2>2, <3>1
  <2> QED
    BY <2>3, <2>4
<1>4. CASE Shell!PostExit
  <2>1. execute = "waiting" /\ postExit = "on" /\ Shell!finalize(exitCode, timeout)
        /\ UNCHANGED <<Shell!command, output, ended, exitCode, aborted>>
    BY <1>4 DEF Shell!PostExit
  <2>2. ended' \subseteq Shell!Pipes /\ \A q \in ended' : ~Shell!Open(q) /\ output[q] = sent[q]
    BY <2>1 DEF Shell!TypeOK, Shell!EndedIsRead
  <2>3. exitCode = shell /\ shell \in Shell!Endings
    BY <2>1 DEF Shell!ShellIsKnown
  <2> QED
    BY <2>1, <2>2, <2>3, FinalizeKeeps
<1> QED
  BY <1>2, <1>3, <1>4

\* A call that has not begun.
LEMMA BashInit ==
    ASSUME MaxChunks \in Nat, Shell!Init
    PROVE  Shell!BashInv
<1> USE DEF Shell!Init
<1>1. Shell!Nothing \in [Shell!Pipes -> 0 .. MaxChunks]
  BY DEF Shell!Nothing
<1>2. Shell!TypeOK
  <2>1. aborted \in BOOLEAN /\ dirty \in BOOLEAN /\ updateTimer \in BOOLEAN
    BY Zenon
  <2>2. execute = "checking" /\ ~Shell!Answered
    BY DEF Shell!Answered
  <2> QED
    BY <1>1, <2>1, <2>2 DEF Shell!TypeOK
<1>3. execute = "checking" /\ ~Shell!Answered
  BY DEF Shell!Answered
<1>4. Shell!UpdatesFollow /\ Shell!ShellIsKnown /\ Shell!StoppedIsDead /\ Shell!EndedIsRead
  BY <1>3 DEF Shell!UpdatesFollow, Shell!ShellIsKnown, Shell!StoppedIsDead,
        Shell!EndedIsRead
<1>5. Shell!LastUpdateIsAnswer /\ Shell!NoOrphans /\ Shell!SuccessIsReal /\ Shell!WholeOutput
  BY <1>3 DEF Shell!LastUpdateIsAnswer, Shell!NoOrphans, Shell!SuccessIsReal,
        Shell!WholeOutput
<1> QED
  BY <1>2, <1>4, <1>5 DEF Shell!BashInv

\* One case per actor.
LEMMA BashStep ==
    ASSUME Shell!BashInv, MaxChunks \in Nat, None \notin Shell!Endings, [Shell!Next]_Shell!vars
    PROVE  Shell!BashInv'
<1>1. CASE Shell!Command
  BY <1>1, CommandSteps, CommandKeeps DEF Shell!BashInv
<1>2. CASE Shell!Call
  BY <1>2, RefuseKeeps, CallStepKeeps, EndingsKeep DEF Shell!Call, CallStep
<1>3. CASE Shell!TimeOut
  <2>1. execute = "waiting" /\ Shell!Kill /\ timeout' = "fired" /\ aborted' \in BOOLEAN
        /\ UNCHANGED <<execute, output, ended, exitCode, postExit, dirty, updateTimer, update,
                       answer>>
    BY <1>3 DEF Shell!TimeOut, Shell!waiting, Shell!updates, Shell!BashInv, Shell!TypeOK
  <2> QED
    BY <2>1, KillKeeps
<1>4. CASE Shell!Abort
  <2>1. UNCHANGED <<execute, output, ended, exitCode, postExit, timeout, dirty, updateTimer, update,
                    answer>> /\ aborted' = TRUE
    BY <1>4 DEF Shell!Abort, Shell!waiting, Shell!updates
  <2>2. CASE execute = "waiting"
    <3>1. Shell!Kill /\ aborted' \in BOOLEAN /\ timeout' \in {"unset", "on", "fired"}
      BY <1>4, <2>1, <2>2 DEF Shell!Abort, Shell!BashInv, Shell!TypeOK
    <3> QED
      BY <2>1, <2>2, <3>1, KillKeeps
  <2>3. CASE execute # "waiting"
    <3>1. UNCHANGED <<shell, holders, strays, sent>>
      BY <1>4, <2>3 DEF Shell!Abort, Shell!command
    <3>2. Shell!Answered' = Shell!Answered
      BY <2>1 DEF Shell!Answered
    <3>3. Shell!TypeOK'
      <4>1. aborted' \in BOOLEAN /\ dirty' \in BOOLEAN /\ updateTimer' \in BOOLEAN
        BY <2>1 DEF Shell!TypeOK, Shell!BashInv
      <4> QED
        BY <2>1, <3>1, <3>2, <4>1 DEF Shell!TypeOK, Shell!BashInv
    <3>4. Shell!UpdatesFollow' /\ Shell!LastUpdateIsAnswer'
      BY <2>1, <3>2 DEF Shell!UpdatesFollow, Shell!LastUpdateIsAnswer, Shell!BashInv
    <3>5. Shell!ShellIsKnown' /\ Shell!StoppedIsDead'
      BY <2>1, <2>3, <3>1 DEF Shell!ShellIsKnown, Shell!StoppedIsDead, Shell!BashInv
    <3>6. Shell!EndedIsRead'
      BY <2>1, <3>1 DEF Shell!EndedIsRead, Shell!Open, Shell!BashInv
    <3>7. Shell!NoOrphans' /\ Shell!SuccessIsReal' /\ Shell!WholeOutput'
      BY <2>1, <3>1, <3>2 DEF Shell!NoOrphans, Shell!SuccessIsReal, Shell!WholeOutput,
            Shell!BashInv
    <3> QED
      BY <3>3, <3>4, <3>5, <3>6, <3>7 DEF Shell!BashInv
  <2> QED
    BY <2>2, <2>3
<1>5. CASE UNCHANGED Shell!vars
  <2>1. UNCHANGED <<execute, shell, holders, strays, sent, output, ended, exitCode, postExit, timeout,
                    update, answer>> /\ Shell!Answered' = Shell!Answered
    BY <1>5 DEF Shell!vars, Shell!command, Shell!waiting, Shell!updates, Shell!Answered
  <2>2. UNCHANGED <<aborted, dirty, updateTimer>>
    BY <1>5 DEF Shell!vars, Shell!updates
  <2>3. Shell!TypeOK'
    <3>1. aborted' \in BOOLEAN /\ dirty' \in BOOLEAN /\ updateTimer' \in BOOLEAN
      BY <2>2 DEF Shell!TypeOK, Shell!BashInv
    <3> QED
      BY <2>1, <3>1 DEF Shell!TypeOK, Shell!BashInv
  <2>4. Shell!UpdatesFollow' /\ Shell!LastUpdateIsAnswer'
    BY <2>1, <2>2 DEF Shell!UpdatesFollow, Shell!LastUpdateIsAnswer, Shell!BashInv
  <2>5. Shell!ShellIsKnown' /\ Shell!StoppedIsDead'
    BY <2>1, <2>2 DEF Shell!ShellIsKnown, Shell!StoppedIsDead, Shell!BashInv
  <2>6. Shell!EndedIsRead'
    BY <2>1 DEF Shell!EndedIsRead, Shell!Open, Shell!BashInv
  <2>7. Shell!NoOrphans' /\ Shell!SuccessIsReal' /\ Shell!WholeOutput'
    BY <2>1 DEF Shell!NoOrphans, Shell!SuccessIsReal, Shell!WholeOutput, Shell!BashInv
  <2> QED
    BY <2>3, <2>4, <2>5, <2>6, <2>7 DEF Shell!BashInv
<1> QED
  BY <1>1, <1>2, <1>3, <1>4, <1>5 DEF Shell!Next

\* A call of bash answers with the outcome that its process had, shows the output that its
\* last update showed, and leaves no process of its group behind (bash.ts, shell-utils.ts).
THEOREM BashTellsTruth ==
    ASSUME MaxChunks \in Nat, None \notin Shell!Endings
    PROVE  Shell!FairSpec => []Shell!BashInv
<1>1. Shell!Init => Shell!BashInv
  BY BashInit
<1>2. Shell!BashInv /\ [Shell!Next]_Shell!vars => Shell!BashInv'
  BY BashStep
<1> QED
  BY <1>1, <1>2, PTL DEF Shell!FairSpec
=============================================================================
