------------------------ MODULE SessionRegistry_proofs ------------------------
(***************************************************************************)
(* Proofs about SessionRegistry, for any number of calls, sessions and     *)
(* restarts.                                                               *)
(*                                                                         *)
(* RegistryInv is inductive: its parts say what a call under way knows     *)
(* that nobody else does (CreatorsAlone), what a delete has settled        *)
(* (UnlinkedForGood) and that saves exclude each other unless two          *)
(* overlapped (OneSaver).  StoreAgrees is inductive relative to it: as     *)
(* long as nothing excluded has happened, at most one save is under way,   *)
(* nothing else changes memory before it is over (a push, a filter and a   *)
(* second load would each be such a damage), so what it writes is what     *)
(* memory holds, and a later life starts from that.                        *)
(*                                                                         *)
(* Each lemma has a step per action, with a comment at those that can      *)
(* disturb its part.                                                       *)
(*                                                                         *)
(* The titles of the listed sessions, which title jobs and renames change  *)
(* on this registry, are proved honest after it (SessionTitles).           *)
(*                                                                         *)
(* Then comes the other registry, of agents, personas and      *)
(* skills (AgentRegistry), for any releases, calls and budgets: AgentsInd  *)
(* says in which order an operation takes files away and brings them       *)
(* (OperationInOrder, PersonaLast), that one call at most creates the      *)
(* user's agent (OneCreates), and what a call can still find that has met  *)
(* no writer, or one (Unmet, OneMet).                                      *)
(*                                                                         *)
(* The last two parts are about what the page shows of LLM calls, for any  *)
(* sessions, captures, requests and turns.  LlmInspectInv and              *)
(* ModelPickerInv are inductive as they stand, each part relative to those *)
(* before it; a part that speaks of every session or request is split into *)
(* what it says of one, so that a step has to be followed only there.      *)
(***************************************************************************)
EXTENDS SessionFiles, AgentRegistry, FiniteSetTheorems, TLAPS

\* Every step keeps the types: ids that enter the lists are those of calls under way.
LEMMA TypeStep ==
    ASSUME RegistryTypeOK, LoadedFirst, [Next]_vars
    PROVE  RegistryTypeOK'
<1> USE RegistryAssumption DEF RegistryTypeOK, Kinds, At, Saving, Over, Damages, FileState,
    callVars, memoryVars, diskVars
<1>1. ASSUME NEW o \in Ops, NEW k \in Kinds, NEW s \in Sessions, Begin(o, k, s)
      PROVE  RegistryTypeOK'
  BY <1>1 DEF Begin, GoTo
<1>2. ASSUME NEW o \in Ops, ReadRegistry(o) PROVE RegistryTypeOK'
  BY <1>2 DEF ReadRegistry, GoTo
<1>3. ASSUME NEW o \in Ops, ReadFails(o) PROVE RegistryTypeOK'
  BY <1>3 DEF ReadFails, GoTo, End
<1>4. ASSUME NEW o \in Ops, Load(o) PROVE RegistryTypeOK'
  BY <1>4 DEF Load, GoTo, Replace
<1>5. ASSUME NEW o \in Ops, Answer(o) PROVE RegistryTypeOK'
  BY <1>5 DEF Answer, GoTo, End, Found
<1>6. ASSUME NEW o \in Ops, Update(o) PROVE RegistryTypeOK'
  BY <1>6 DEF Update, GoTo, persistRegistry, Found
  \* LoadedFirst: the session of a call under way was handed out.
<1>7. ASSUME NEW o \in Ops, CreateFile(o) PROVE RegistryTypeOK'
  BY <1>7 DEF CreateFile, GoTo, LoadedFirst
<1>8. ASSUME NEW o \in Ops, ForkFails(o) PROVE RegistryTypeOK'
  BY <1>8 DEF ForkFails, GoTo, End
<1>9. ASSUME NEW o \in Ops, Push(o) PROVE RegistryTypeOK'
  BY <1>9 DEF Push, persistRegistry, GoTo, LoadedFirst
<1>10. ASSUME NEW o \in Ops, DeleteFile(o) PROVE RegistryTypeOK'
  BY <1>10 DEF DeleteFile, GoTo, Found
<1>11. ASSUME NEW o \in Ops, DeleteFails(o) PROVE RegistryTypeOK'
  BY <1>11 DEF DeleteFails, GoTo, End, Found
<1>12. ASSUME NEW o \in Ops, Filter(o) PROVE RegistryTypeOK'
  BY <1>12 DEF Filter, GoTo, Replace, persistRegistry
<1>13. ASSUME NEW o \in Ops, Stringify(o) PROVE RegistryTypeOK'
  BY <1>13 DEF Stringify, GoTo
<1>14. ASSUME NEW o \in Ops, Truncate(o) PROVE RegistryTypeOK'
  BY <1>14 DEF Truncate, GoTo
<1>15. ASSUME NEW o \in Ops, Write(o) PROVE RegistryTypeOK'
  BY <1>15 DEF Write, GoTo, End, Written
<1>16. ASSUME NEW o \in Ops, SaveFails(o) PROVE RegistryTypeOK'
  BY <1>16 DEF SaveFails, GoTo, End
<1>17. CASE Crash
  <2>1. at' \in [Ops -> At]
    BY <1>17 DEF Crash
  <2>2. crashes' \in 0..MaxCrashes
    BY <1>17 DEF Crash
  <2> QED
    BY <2>1, <2>2, <1>17 DEF Crash
<1>18. CASE UNCHANGED vars
  BY <1>18 DEF vars
<1> QED
  BY <1>1, <1>2, <1>3, <1>4, <1>5, <1>6, <1>7, <1>8, <1>9, <1>10, <1>11, <1>12, <1>13,
        <1>14, <1>15,
      <1>16, <1>17, <1>18
     DEF Next, LoadStep, MethodStep, SaveStep

\* Every step keeps LoadedFirst: only Load sets registryLoaded, and no call is beyond
\* ensureRegistry when a life begins.
LEMMA LoadedFirstStep ==
    ASSUME RegistryTypeOK, LoadedFirst, [Next]_vars
    PROVE  LoadedFirst'
<1> USE RegistryAssumption DEF RegistryTypeOK, Kinds, At, Saving, Over, LoadedFirst, callVars,
    memoryVars, diskVars
<1>1. ASSUME NEW o \in Ops, NEW k \in Kinds, NEW s \in Sessions, Begin(o, k, s)
      PROVE  LoadedFirst'
  BY <1>1 DEF Begin, GoTo
<1>2. ASSUME NEW o \in Ops, ReadRegistry(o) PROVE LoadedFirst'
  BY <1>2 DEF ReadRegistry, GoTo
<1>3. ASSUME NEW o \in Ops, ReadFails(o) PROVE LoadedFirst'
  BY <1>3 DEF ReadFails, GoTo, End
  \* Saves under way keep the array that was there, whose ids were handed out too.
<1>4. ASSUME NEW o \in Ops, Load(o) PROVE LoadedFirst'
  BY <1>4 DEF Load, GoTo, Replace
<1>5. ASSUME NEW o \in Ops, Answer(o) PROVE LoadedFirst'
  BY <1>5 DEF Answer, GoTo, End, Found
<1>6. ASSUME NEW o \in Ops, Update(o) PROVE LoadedFirst'
  BY <1>6 DEF Update, GoTo, persistRegistry, Found
<1>7. ASSUME NEW o \in Ops, CreateFile(o) PROVE LoadedFirst'
  BY <1>7 DEF CreateFile, GoTo
<1>8. ASSUME NEW o \in Ops, ForkFails(o) PROVE LoadedFirst'
  BY <1>8 DEF ForkFails, GoTo, End
<1>9. ASSUME NEW o \in Ops, Push(o) PROVE LoadedFirst'
  BY <1>9 DEF Push, GoTo, persistRegistry
<1>10. ASSUME NEW o \in Ops, DeleteFile(o) PROVE LoadedFirst'
  BY <1>10 DEF DeleteFile, GoTo, Found
<1>11. ASSUME NEW o \in Ops, DeleteFails(o) PROVE LoadedFirst'
  BY <1>11 DEF DeleteFails, GoTo, End, Found
<1>12. ASSUME NEW o \in Ops, Filter(o) PROVE LoadedFirst'
  BY <1>12 DEF Filter, GoTo, Replace, persistRegistry
<1>13. ASSUME NEW o \in Ops, Stringify(o) PROVE LoadedFirst'
  BY <1>13 DEF Stringify, GoTo
<1>14. ASSUME NEW o \in Ops, Truncate(o) PROVE LoadedFirst'
  BY <1>14 DEF Truncate, GoTo
  \* What is answered now has its file, so its id was handed out.
<1>15. ASSUME NEW o \in Ops, Write(o) PROVE LoadedFirst'
  BY <1>15 DEF Write, GoTo, End, Written
<1>16. ASSUME NEW o \in Ops, SaveFails(o) PROVE LoadedFirst'
  BY <1>16 DEF SaveFails, GoTo, End
<1>17. CASE Crash
  BY <1>17 DEF Crash
<1>18. CASE UNCHANGED vars
  BY <1>18 DEF vars
<1> QED
  BY <1>1, <1>2, <1>3, <1>4, <1>5, <1>6, <1>7, <1>8, <1>9, <1>10, <1>11, <1>12, <1>13,
        <1>14, <1>15,
      <1>16, <1>17, <1>18
     DEF Next, LoadStep, MethodStep, SaveStep

\* Every step keeps CreatorsAlone: an id that is handed out is in no list yet, and nobody
\* but its own call puts it into one.
LEMMA CreatorsAloneStep ==
    ASSUME RegistryTypeOK, LoadedFirst, UnlinkedForGood, CreatorsAlone, [Next]_vars
    PROVE  CreatorsAlone'
<1> USE RegistryAssumption DEF RegistryTypeOK, Kinds, At, Saving, Over, LoadedFirst, CreatorsAlone,
    Creating, UnlinkedForGood, callVars, memoryVars, diskVars
  \* The id is new: no list is beyond everUsed, and no call under way names it.
<1>1. ASSUME NEW o \in Ops, NEW k \in Kinds, NEW s \in Sessions, Begin(o, k, s)
      PROVE  CreatorsAlone'
  BY <1>1 DEF Begin, GoTo
<1>2. ASSUME NEW o \in Ops, ReadRegistry(o) PROVE CreatorsAlone'
  BY <1>2 DEF ReadRegistry, GoTo
<1>3. ASSUME NEW o \in Ops, ReadFails(o) PROVE CreatorsAlone'
  BY <1>3 DEF ReadFails, GoTo, End
  \* What was read, and the array that was there, lack it.
<1>4. ASSUME NEW o \in Ops, Load(o) PROVE CreatorsAlone'
  BY <1>4 DEF Load, GoTo, Replace
<1>5. ASSUME NEW o \in Ops, Answer(o) PROVE CreatorsAlone'
  BY <1>5 DEF Answer, GoTo, End, Found
<1>6. ASSUME NEW o \in Ops, Update(o) PROVE CreatorsAlone'
  BY <1>6 DEF Update, GoTo, persistRegistry, Found
  \* No other creating call has this id.
<1>7. ASSUME NEW o \in Ops, CreateFile(o) PROVE CreatorsAlone'
  BY <1>7 DEF CreateFile, GoTo
<1>8. ASSUME NEW o \in Ops, ForkFails(o) PROVE CreatorsAlone'
  BY <1>8 DEF ForkFails, GoTo, End
<1>9. ASSUME NEW o \in Ops, Push(o) PROVE CreatorsAlone'
  BY <1>9 DEF Push, GoTo, persistRegistry
  \* The deleted session is listed, so it is not one that is being created.
<1>10. ASSUME NEW o \in Ops, DeleteFile(o) PROVE CreatorsAlone'
  BY <1>10 DEF DeleteFile, GoTo, Found
<1>11. ASSUME NEW o \in Ops, DeleteFails(o) PROVE CreatorsAlone'
  BY <1>11 DEF DeleteFails, GoTo, End, Found
<1>12. ASSUME NEW o \in Ops, Filter(o) PROVE CreatorsAlone'
  BY <1>12 DEF Filter, GoTo, Replace, persistRegistry
<1>13. ASSUME NEW o \in Ops, Stringify(o) PROVE CreatorsAlone'
  BY <1>13 DEF Stringify, GoTo
<1>14. ASSUME NEW o \in Ops, Truncate(o) PROVE CreatorsAlone'
  BY <1>14 DEF Truncate, GoTo
  \* Another call is over, and acknowledges its own session.
<1>15. ASSUME NEW o \in Ops, Write(o) PROVE CreatorsAlone'
  BY <1>15 DEF Write, GoTo, End, Written
<1>16. ASSUME NEW o \in Ops, SaveFails(o) PROVE CreatorsAlone'
  BY <1>16 DEF SaveFails, GoTo, End
<1>17. CASE Crash
  BY <1>17 DEF Crash
<1>18. CASE UNCHANGED vars
  BY <1>18 DEF vars
<1> QED
  BY <1>1, <1>2, <1>3, <1>4, <1>5, <1>6, <1>7, <1>8, <1>9, <1>10, <1>11, <1>12, <1>13,
        <1>14, <1>15,
      <1>16, <1>17, <1>18
     DEF Next, LoadStep, MethodStep, SaveStep

\* Every step keeps UnlinkedForGood: only a call that is creating it writes a file, and only
\* a session that has one is acknowledged.
LEMMA UnlinkedStep ==
    ASSUME RegistryTypeOK, LoadedFirst, CreatorsAlone, UnlinkedForGood, [Next]_vars
    PROVE  UnlinkedForGood'
<1> USE RegistryAssumption DEF RegistryTypeOK, Kinds, At, Saving, Over, LoadedFirst, CreatorsAlone,
    Creating, UnlinkedForGood, callVars, memoryVars, diskVars
<1>1. ASSUME NEW o \in Ops, NEW k \in Kinds, NEW s \in Sessions, Begin(o, k, s)
      PROVE  UnlinkedForGood'
  BY <1>1 DEF Begin, GoTo
<1>2. ASSUME NEW o \in Ops, ReadRegistry(o) PROVE UnlinkedForGood'
  BY <1>2 DEF ReadRegistry, GoTo
<1>3. ASSUME NEW o \in Ops, ReadFails(o) PROVE UnlinkedForGood'
  BY <1>3 DEF ReadFails, GoTo, End
<1>4. ASSUME NEW o \in Ops, Load(o) PROVE UnlinkedForGood'
  BY <1>4 DEF Load, GoTo, Replace
<1>5. ASSUME NEW o \in Ops, Answer(o) PROVE UnlinkedForGood'
  BY <1>5 DEF Answer, GoTo, End, Found
<1>6. ASSUME NEW o \in Ops, Update(o) PROVE UnlinkedForGood'
  BY <1>6 DEF Update, GoTo, persistRegistry, Found
  \* CreatorsAlone: its session is not one that is being deleted.
<1>7. ASSUME NEW o \in Ops, CreateFile(o) PROVE UnlinkedForGood'
  BY <1>7 DEF CreateFile, GoTo
<1>8. ASSUME NEW o \in Ops, ForkFails(o) PROVE UnlinkedForGood'
  BY <1>8 DEF ForkFails, GoTo, End
<1>9. ASSUME NEW o \in Ops, Push(o) PROVE UnlinkedForGood'
  BY <1>9 DEF Push, GoTo, persistRegistry
<1>10. ASSUME NEW o \in Ops, DeleteFile(o) PROVE UnlinkedForGood'
  BY <1>10 DEF DeleteFile, GoTo, Found
<1>11. ASSUME NEW o \in Ops, DeleteFails(o) PROVE UnlinkedForGood'
  BY <1>11 DEF DeleteFails, GoTo, End, Found
<1>12. ASSUME NEW o \in Ops, Filter(o) PROVE UnlinkedForGood'
  BY <1>12 DEF Filter, GoTo, Replace, persistRegistry
<1>13. ASSUME NEW o \in Ops, Stringify(o) PROVE UnlinkedForGood'
  BY <1>13 DEF Stringify, GoTo
<1>14. ASSUME NEW o \in Ops, Truncate(o) PROVE UnlinkedForGood'
  BY <1>14 DEF Truncate, GoTo
<1>15. ASSUME NEW o \in Ops, Write(o) PROVE UnlinkedForGood'
  BY <1>15 DEF Write, GoTo, End, Written
<1>16. ASSUME NEW o \in Ops, SaveFails(o) PROVE UnlinkedForGood'
  BY <1>16 DEF SaveFails, GoTo, End
<1>17. CASE Crash
  BY <1>17 DEF Crash
<1>18. CASE UNCHANGED vars
  BY <1>18 DEF vars
<1> QED
  BY <1>1, <1>2, <1>3, <1>4, <1>5, <1>6, <1>7, <1>8, <1>9, <1>10, <1>11, <1>12, <1>13,
        <1>14, <1>15,
      <1>16, <1>17, <1>18
     DEF Next, LoadStep, MethodStep, SaveStep

\* Every step keeps OneSaver: persistRegistry during another save is recorded as damage.
LEMMA OneSaverStep ==
    ASSUME RegistryTypeOK, OneSaver, [Next]_vars
    PROVE  OneSaver'
<1> USE RegistryAssumption DEF RegistryTypeOK, Kinds, At, Saving, Over, OneSaver, callVars,
    memoryVars, diskVars
<1>1. ASSUME NEW o \in Ops, NEW k \in Kinds, NEW s \in Sessions, Begin(o, k, s)
      PROVE  OneSaver'
  BY <1>1 DEF Begin, GoTo
<1>2. ASSUME NEW o \in Ops, ReadRegistry(o) PROVE OneSaver'
  BY <1>2 DEF ReadRegistry, GoTo
<1>3. ASSUME NEW o \in Ops, ReadFails(o) PROVE OneSaver'
  BY <1>3 DEF ReadFails, GoTo, End
<1>4. ASSUME NEW o \in Ops, Load(o) PROVE OneSaver'
  BY <1>4 DEF Load, GoTo, Replace
<1>5. ASSUME NEW o \in Ops, Answer(o) PROVE OneSaver'
  BY <1>5 DEF Answer, GoTo, End, Found
<1>6. ASSUME NEW o \in Ops, Update(o) PROVE OneSaver'
  BY <1>6 DEF Update, GoTo, persistRegistry, Found
<1>7. ASSUME NEW o \in Ops, CreateFile(o) PROVE OneSaver'
  BY <1>7 DEF CreateFile, GoTo
<1>8. ASSUME NEW o \in Ops, ForkFails(o) PROVE OneSaver'
  BY <1>8 DEF ForkFails, GoTo, End
<1>9. ASSUME NEW o \in Ops, Push(o) PROVE OneSaver'
  BY <1>9 DEF Push, GoTo, persistRegistry
<1>10. ASSUME NEW o \in Ops, DeleteFile(o) PROVE OneSaver'
  BY <1>10 DEF DeleteFile, GoTo, Found
<1>11. ASSUME NEW o \in Ops, DeleteFails(o) PROVE OneSaver'
  BY <1>11 DEF DeleteFails, GoTo, End, Found
<1>12. ASSUME NEW o \in Ops, Filter(o) PROVE OneSaver'
  BY <1>12 DEF Filter, GoTo, Replace, persistRegistry
<1>13. ASSUME NEW o \in Ops, Stringify(o) PROVE OneSaver'
  BY <1>13 DEF Stringify, GoTo
  \* The only save truncates the file.
<1>14. ASSUME NEW o \in Ops, Truncate(o) PROVE OneSaver'
  BY <1>14 DEF Truncate, GoTo
  \* Nobody else has the file open.
<1>15. ASSUME NEW o \in Ops, Write(o) PROVE OneSaver'
  BY <1>15 DEF Write, GoTo, End, Written
<1>16. ASSUME NEW o \in Ops, SaveFails(o) PROVE OneSaver'
  BY <1>16 DEF SaveFails, GoTo, End
<1>17. CASE Crash
  BY <1>17 DEF Crash
<1>18. CASE UNCHANGED vars
  BY <1>18 DEF vars
<1> QED
  BY <1>1, <1>2, <1>3, <1>4, <1>5, <1>6, <1>7, <1>8, <1>9, <1>10, <1>11, <1>12, <1>13,
        <1>14, <1>15,
      <1>16, <1>17, <1>18
     DEF Next, LoadStep, MethodStep, SaveStep

\* Every step keeps RegistryReadable: the file stays truncated only if its writer failed or
\* was cut short, and is torn by a write only if another one wrote meanwhile.
LEMMA ReadableStep ==
    ASSUME RegistryTypeOK, OneSaver, RegistryReadable, [Next]_vars
    PROVE  RegistryReadable'
<1> USE RegistryAssumption DEF RegistryTypeOK, Kinds, At, Saving, Over, OneSaver, RegistryReadable,
    callVars, memoryVars, diskVars
<1>1. ASSUME NEW o \in Ops, NEW k \in Kinds, NEW s \in Sessions, Begin(o, k, s)
      PROVE  RegistryReadable'
  BY <1>1 DEF Begin, GoTo
<1>2. ASSUME NEW o \in Ops, ReadRegistry(o) PROVE RegistryReadable'
  BY <1>2 DEF ReadRegistry, GoTo
<1>3. ASSUME NEW o \in Ops, ReadFails(o) PROVE RegistryReadable'
  BY <1>3 DEF ReadFails, GoTo, End
<1>4. ASSUME NEW o \in Ops, Load(o) PROVE RegistryReadable'
  BY <1>4 DEF Load, GoTo, Replace
<1>5. ASSUME NEW o \in Ops, Answer(o) PROVE RegistryReadable'
  BY <1>5 DEF Answer, GoTo, End, Found
<1>6. ASSUME NEW o \in Ops, Update(o) PROVE RegistryReadable'
  BY <1>6 DEF Update, GoTo, persistRegistry, Found
<1>7. ASSUME NEW o \in Ops, CreateFile(o) PROVE RegistryReadable'
  BY <1>7 DEF CreateFile, GoTo
<1>8. ASSUME NEW o \in Ops, ForkFails(o) PROVE RegistryReadable'
  BY <1>8 DEF ForkFails, GoTo, End
<1>9. ASSUME NEW o \in Ops, Push(o) PROVE RegistryReadable'
  BY <1>9 DEF Push, GoTo, persistRegistry
<1>10. ASSUME NEW o \in Ops, DeleteFile(o) PROVE RegistryReadable'
  BY <1>10 DEF DeleteFile, GoTo, Found
<1>11. ASSUME NEW o \in Ops, DeleteFails(o) PROVE RegistryReadable'
  BY <1>11 DEF DeleteFails, GoTo, End, Found
<1>12. ASSUME NEW o \in Ops, Filter(o) PROVE RegistryReadable'
  BY <1>12 DEF Filter, GoTo, Replace, persistRegistry
<1>13. ASSUME NEW o \in Ops, Stringify(o) PROVE RegistryReadable'
  BY <1>13 DEF Stringify, GoTo
  \* The writer is now the one that has it open.
<1>14. ASSUME NEW o \in Ops, Truncate(o) PROVE RegistryReadable'
  BY <1>14 DEF Truncate, GoTo
  \* OneSaver: a file that is readable under an open writer shows overlapping saves.
<1>15. ASSUME NEW o \in Ops, Write(o) PROVE RegistryReadable'
  BY <1>15 DEF Write, GoTo, End, Written
<1>16. ASSUME NEW o \in Ops, SaveFails(o) PROVE RegistryReadable'
  BY <1>16 DEF SaveFails, GoTo, End
<1>17. CASE Crash
  BY <1>17 DEF Crash
<1>18. CASE UNCHANGED vars
  BY <1>18 DEF vars
<1> QED
  BY <1>1, <1>2, <1>3, <1>4, <1>5, <1>6, <1>7, <1>8, <1>9, <1>10, <1>11, <1>12, <1>13,
        <1>14, <1>15,
      <1>16, <1>17, <1>18
     DEF Next, LoadStep, MethodStep, SaveStep

\* The registry in every life of the daemon: nothing gets past a load that has
\* not happened, no call touches the session another one is creating, and
\* registry.json can be read unless a save is under way, overlapped another,
\* failed or was cut short.
THEOREM RegistryStaysReadable == Spec => []RegistryInv
<1>1. Init => RegistryInv
  <2> SUFFICES ASSUME Init PROVE RegistryInv
    OBVIOUS
  <2> USE RegistryAssumption DEF Init, Saving
  <2>1. RegistryTypeOK
    <3>1. file \in [state : FileState, ids : SUBSET Sessions]
      BY DEF FileState
    <3>2. at \in [Ops -> At] /\ held \in [Ops -> SUBSET Sessions] /\ crashes \in 0..MaxCrashes
      BY DEF At
    <3> QED
      BY <3>1, <3>2 DEF RegistryTypeOK
  <2>2. LoadedFirst
    BY DEF LoadedFirst
  <2>3. CreatorsAlone /\ UnlinkedForGood /\ OneSaver /\ RegistryReadable
    BY DEF CreatorsAlone, Creating, UnlinkedForGood, OneSaver, RegistryReadable
  <2> QED
    BY <2>1, <2>2, <2>3 DEF RegistryInv
<1>2. RegistryInv /\ [Next]_vars => RegistryInv'
  BY TypeStep, LoadedFirstStep, CreatorsAloneStep, UnlinkedStep, OneSaverStep, ReadableStep
  DEF RegistryInv
<1> QED
  BY <1>1, <1>2, PTL DEF Spec
-----------------------------------------------------------------------------
\* Every step keeps SaveOfMemory: under no damage the saver is alone and memory stands still.
LEMMA SaveOfMemoryStep ==
    ASSUME RegistryInv, SaveOfMemory, [Next]_vars
    PROVE  SaveOfMemory'
<1> USE RegistryAssumption DEF RegistryTypeOK, Kinds, At, Saving, Over, RegistryInv, LoadedFirst,
    CreatorsAlone, Creating, UnlinkedForGood, OneSaver, SaveOfMemory, callVars, memoryVars, diskVars
<1>1. ASSUME NEW o \in Ops, NEW k \in Kinds, NEW s \in Sessions, Begin(o, k, s)
      PROVE  SaveOfMemory'
  BY <1>1 DEF Begin, GoTo
<1>2. ASSUME NEW o \in Ops, ReadRegistry(o) PROVE SaveOfMemory'
  BY <1>2 DEF ReadRegistry, GoTo
<1>3. ASSUME NEW o \in Ops, ReadFails(o) PROVE SaveOfMemory'
  BY <1>3 DEF ReadFails, GoTo, End
  \* A second load is damage; at the first one no save is under way.
<1>4. ASSUME NEW o \in Ops, Load(o) PROVE SaveOfMemory'
  BY <1>4, SMTT(20) DEF Load, GoTo, Replace
<1>5. ASSUME NEW o \in Ops, Answer(o) PROVE SaveOfMemory'
  BY <1>5 DEF Answer, GoTo, End, Found
  \* The call shares the array it saves.
<1>6. ASSUME NEW o \in Ops, Update(o) PROVE SaveOfMemory'
  BY <1>6 DEF Update, GoTo, persistRegistry, Found
<1>7. ASSUME NEW o \in Ops, CreateFile(o) PROVE SaveOfMemory'
  BY <1>7 DEF CreateFile, GoTo
<1>8. ASSUME NEW o \in Ops, ForkFails(o) PROVE SaveOfMemory'
  BY <1>8 DEF ForkFails, GoTo, End
  \* The session is in the array that will be written; during a save this is damage.
<1>9. ASSUME NEW o \in Ops, Push(o) PROVE SaveOfMemory'
  BY <1>9 DEF Push, GoTo, persistRegistry
<1>10. ASSUME NEW o \in Ops, DeleteFile(o) PROVE SaveOfMemory'
  BY <1>10 DEF DeleteFile, GoTo, Found
<1>11. ASSUME NEW o \in Ops, DeleteFails(o) PROVE SaveOfMemory'
  BY <1>11 DEF DeleteFails, GoTo, End, Found
  \* The session is no more in it; during a save this is damage.
<1>12. ASSUME NEW o \in Ops, Filter(o) PROVE SaveOfMemory'
  BY <1>12 DEF Filter, GoTo, Replace, persistRegistry
  \* The text is taken from the shared array.
<1>13. ASSUME NEW o \in Ops, Stringify(o) PROVE SaveOfMemory'
  BY <1>13 DEF Stringify, GoTo
  \* A registry that nobody has loaded is not being saved.
<1>14. ASSUME NEW o \in Ops, Truncate(o) PROVE SaveOfMemory'
  BY <1>14 DEF Truncate, GoTo
<1>15. ASSUME NEW o \in Ops, Write(o) PROVE SaveOfMemory'
  BY <1>15 DEF Write, GoTo, End, Written
<1>16. ASSUME NEW o \in Ops, SaveFails(o) PROVE SaveOfMemory'
  BY <1>16 DEF SaveFails, GoTo, End
<1>17. CASE Crash
  BY <1>17 DEF Crash
<1>18. CASE UNCHANGED vars
  BY <1>18 DEF vars
<1> QED
  BY <1>1, <1>2, <1>3, <1>4, <1>5, <1>6, <1>7, <1>8, <1>9, <1>10, <1>11, <1>12, <1>13,
        <1>14, <1>15,
      <1>16, <1>17, <1>18
     DEF Next, LoadStep, MethodStep, SaveStep

\* Every step keeps the promise that what was answered is listed.
LEMMA KeptStep ==
    ASSUME RegistryInv, SaveOfMemory, FileToStartFrom, CreatedSessionsKeptUndamaged, [Next]_vars
    PROVE  CreatedSessionsKeptUndamaged'
<1> USE RegistryAssumption DEF RegistryTypeOK, Kinds, At, Saving, Over, RegistryInv, LoadedFirst,
    CreatorsAlone, Creating, UnlinkedForGood, OneSaver, RegistryReadable, SaveOfMemory,
    FileToStartFrom, CreatedSessionsKeptUndamaged, CreatedSessionsKept, callVars, memoryVars,
    diskVars
<1>1. ASSUME NEW o \in Ops, NEW k \in Kinds, NEW s \in Sessions, Begin(o, k, s)
      PROVE  CreatedSessionsKeptUndamaged'
  BY <1>1 DEF Begin, GoTo
<1>2. ASSUME NEW o \in Ops, ReadRegistry(o) PROVE CreatedSessionsKeptUndamaged'
  BY <1>2 DEF ReadRegistry, GoTo
<1>3. ASSUME NEW o \in Ops, ReadFails(o) PROVE CreatedSessionsKeptUndamaged'
  BY <1>3 DEF ReadFails, GoTo, End
  \* What was read had every answered session.
<1>4. ASSUME NEW o \in Ops, Load(o) PROVE CreatedSessionsKeptUndamaged'
  BY <1>4 DEF Load, GoTo, Replace
<1>5. ASSUME NEW o \in Ops, Answer(o) PROVE CreatedSessionsKeptUndamaged'
  BY <1>5 DEF Answer, GoTo, End, Found
<1>6. ASSUME NEW o \in Ops, Update(o) PROVE CreatedSessionsKeptUndamaged'
  BY <1>6 DEF Update, GoTo, persistRegistry, Found
<1>7. ASSUME NEW o \in Ops, CreateFile(o) PROVE CreatedSessionsKeptUndamaged'
  BY <1>7 DEF CreateFile, GoTo
<1>8. ASSUME NEW o \in Ops, ForkFails(o) PROVE CreatedSessionsKeptUndamaged'
  BY <1>8 DEF ForkFails, GoTo, End
<1>9. ASSUME NEW o \in Ops, Push(o) PROVE CreatedSessionsKeptUndamaged'
  BY <1>9 DEF Push, GoTo, persistRegistry
<1>10. ASSUME NEW o \in Ops, DeleteFile(o) PROVE CreatedSessionsKeptUndamaged'
  BY <1>10 DEF DeleteFile, GoTo, Found
<1>11. ASSUME NEW o \in Ops, DeleteFails(o) PROVE CreatedSessionsKeptUndamaged'
  BY <1>11 DEF DeleteFails, GoTo, End, Found
  \* A session whose file is gone is not answered any more.
<1>12. ASSUME NEW o \in Ops, Filter(o) PROVE CreatedSessionsKeptUndamaged'
  BY <1>12 DEF Filter, GoTo, Replace, persistRegistry
<1>13. ASSUME NEW o \in Ops, Stringify(o) PROVE CreatedSessionsKeptUndamaged'
  BY <1>13 DEF Stringify, GoTo
<1>14. ASSUME NEW o \in Ops, Truncate(o) PROVE CreatedSessionsKeptUndamaged'
  BY <1>14 DEF Truncate, GoTo
  \* The entry that was pushed is still there.
<1>15. ASSUME NEW o \in Ops, Write(o) PROVE CreatedSessionsKeptUndamaged'
  BY <1>15 DEF Write, GoTo, End, Written
<1>16. ASSUME NEW o \in Ops, SaveFails(o) PROVE CreatedSessionsKeptUndamaged'
  BY <1>16 DEF SaveFails, GoTo, End
<1>17. CASE Crash
  BY <1>17 DEF Crash
<1>18. CASE UNCHANGED vars
  BY <1>18 DEF vars
<1> QED
  BY <1>1, <1>2, <1>3, <1>4, <1>5, <1>6, <1>7, <1>8, <1>9, <1>10, <1>11, <1>12, <1>13,
        <1>14, <1>15,
      <1>16, <1>17, <1>18
     DEF Next, LoadStep, MethodStep, SaveStep

\* Every step keeps the agreement of registry.json with memory between saves.
LEMMA DiskStep ==
    ASSUME RegistryInv, SaveOfMemory, DiskMatchesMemory, [Next]_vars
    PROVE  DiskMatchesMemory'
<1> USE RegistryAssumption DEF RegistryTypeOK, Kinds, At, Saving, Over, RegistryInv, LoadedFirst,
    CreatorsAlone, Creating, UnlinkedForGood, OneSaver, RegistryReadable, SaveOfMemory,
    DiskMatchesMemory, callVars, memoryVars, diskVars
<1>1. ASSUME NEW o \in Ops, NEW k \in Kinds, NEW s \in Sessions, Begin(o, k, s)
      PROVE  DiskMatchesMemory'
  BY <1>1 DEF Begin, GoTo
<1>2. ASSUME NEW o \in Ops, ReadRegistry(o) PROVE DiskMatchesMemory'
  BY <1>2 DEF ReadRegistry, GoTo
<1>3. ASSUME NEW o \in Ops, ReadFails(o) PROVE DiskMatchesMemory'
  BY <1>3 DEF ReadFails, GoTo, End
  \* Memory is now what the file had, as no save can have come between.
<1>4. ASSUME NEW o \in Ops, Load(o) PROVE DiskMatchesMemory'
  BY <1>4 DEF Load, GoTo, Replace
<1>5. ASSUME NEW o \in Ops, Answer(o) PROVE DiskMatchesMemory'
  BY <1>5 DEF Answer, GoTo, End, Found
<1>6. ASSUME NEW o \in Ops, Update(o) PROVE DiskMatchesMemory'
  BY <1>6 DEF Update, GoTo, persistRegistry, Found
<1>7. ASSUME NEW o \in Ops, CreateFile(o) PROVE DiskMatchesMemory'
  BY <1>7 DEF CreateFile, GoTo
<1>8. ASSUME NEW o \in Ops, ForkFails(o) PROVE DiskMatchesMemory'
  BY <1>8 DEF ForkFails, GoTo, End
  \* A save begins.
<1>9. ASSUME NEW o \in Ops, Push(o) PROVE DiskMatchesMemory'
  BY <1>9 DEF Push, GoTo, persistRegistry
<1>10. ASSUME NEW o \in Ops, DeleteFile(o) PROVE DiskMatchesMemory'
  BY <1>10 DEF DeleteFile, GoTo, Found
<1>11. ASSUME NEW o \in Ops, DeleteFails(o) PROVE DiskMatchesMemory'
  BY <1>11 DEF DeleteFails, GoTo, End, Found
  \* A save begins.
<1>12. ASSUME NEW o \in Ops, Filter(o) PROVE DiskMatchesMemory'
  BY <1>12 DEF Filter, GoTo, Replace, persistRegistry
<1>13. ASSUME NEW o \in Ops, Stringify(o) PROVE DiskMatchesMemory'
  BY <1>13 DEF Stringify, GoTo
<1>14. ASSUME NEW o \in Ops, Truncate(o) PROVE DiskMatchesMemory'
  BY <1>14 DEF Truncate, GoTo
  \* The only save is over: the file holds the array as it is.
<1>15. ASSUME NEW o \in Ops, Write(o) PROVE DiskMatchesMemory'
  BY <1>15 DEF Write, GoTo, End, Written
<1>16. ASSUME NEW o \in Ops, SaveFails(o) PROVE DiskMatchesMemory'
  BY <1>16 DEF SaveFails, GoTo, End
<1>17. CASE Crash
  BY <1>17 DEF Crash
<1>18. CASE UNCHANGED vars
  BY <1>18 DEF vars
<1> QED
  BY <1>1, <1>2, <1>3, <1>4, <1>5, <1>6, <1>7, <1>8, <1>9, <1>10, <1>11, <1>12, <1>13,
        <1>14, <1>15,
      <1>16, <1>17, <1>18
     DEF Next, LoadStep, MethodStep, SaveStep

\* Every step keeps the promise that a listed session has its file or was to be deleted.
LEMMA ListedStep ==
    ASSUME RegistryInv, SaveOfMemory, FileToStartFrom, ListedSessionsOpen, [Next]_vars
    PROVE  ListedSessionsOpen'
<1> USE RegistryAssumption DEF RegistryTypeOK, Kinds, At, Saving, Over, RegistryInv, LoadedFirst,
    CreatorsAlone, Creating, UnlinkedForGood, OneSaver, RegistryReadable, SaveOfMemory,
    FileToStartFrom, ListedSessionsOpen, DeleteAsked, callVars, memoryVars, diskVars
<1>1. ASSUME NEW o \in Ops, NEW k \in Kinds, NEW s \in Sessions, Begin(o, k, s)
      PROVE  ListedSessionsOpen'
  BY <1>1 DEF Begin, GoTo
<1>2. ASSUME NEW o \in Ops, ReadRegistry(o) PROVE ListedSessionsOpen'
  BY <1>2 DEF ReadRegistry, GoTo
<1>3. ASSUME NEW o \in Ops, ReadFails(o) PROVE ListedSessionsOpen'
  BY <1>3 DEF ReadFails, GoTo, End
  \* FileToStartFrom says so of what was read.
<1>4. ASSUME NEW o \in Ops, Load(o) PROVE ListedSessionsOpen'
  BY <1>4 DEF Load, GoTo, Replace
  \* A delete that finds no entry is not the one that counts.
<1>5. ASSUME NEW o \in Ops, Answer(o) PROVE ListedSessionsOpen'
  BY <1>5 DEF Answer, GoTo, End, Found
<1>6. ASSUME NEW o \in Ops, Update(o) PROVE ListedSessionsOpen'
  BY <1>6 DEF Update, GoTo, persistRegistry, Found
<1>7. ASSUME NEW o \in Ops, CreateFile(o) PROVE ListedSessionsOpen'
  BY <1>7 DEF CreateFile, GoTo
<1>8. ASSUME NEW o \in Ops, ForkFails(o) PROVE ListedSessionsOpen'
  BY <1>8 DEF ForkFails, GoTo, End
  \* CreatorsAlone: the file has been written.
<1>9. ASSUME NEW o \in Ops, Push(o) PROVE ListedSessionsOpen'
  BY <1>9 DEF Push, GoTo, persistRegistry
  \* The call itself is the delete that was asked for.
<1>10. ASSUME NEW o \in Ops, DeleteFile(o) PROVE ListedSessionsOpen'
  BY <1>10 DEF DeleteFile, GoTo, Found
<1>11. ASSUME NEW o \in Ops, DeleteFails(o) PROVE ListedSessionsOpen'
  BY <1>11 DEF DeleteFails, GoTo, End, Found
<1>12. ASSUME NEW o \in Ops, Filter(o) PROVE ListedSessionsOpen'
  BY <1>12 DEF Filter, GoTo, Replace, persistRegistry
<1>13. ASSUME NEW o \in Ops, Stringify(o) PROVE ListedSessionsOpen'
  BY <1>13 DEF Stringify, GoTo
<1>14. ASSUME NEW o \in Ops, Truncate(o) PROVE ListedSessionsOpen'
  BY <1>14 DEF Truncate, GoTo
  \* A delete that is over has removed its entry.
<1>15. ASSUME NEW o \in Ops, Write(o) PROVE ListedSessionsOpen'
  BY <1>15 DEF Write, GoTo, End, Written
<1>16. ASSUME NEW o \in Ops, SaveFails(o) PROVE ListedSessionsOpen'
  BY <1>16 DEF SaveFails, GoTo, End
<1>17. CASE Crash
  BY <1>17 DEF Crash
<1>18. CASE UNCHANGED vars
  BY <1>18 DEF vars
<1> QED
  BY <1>1, <1>2, <1>3, <1>4, <1>5, <1>6, <1>7, <1>8, <1>9, <1>10, <1>11, <1>12, <1>13,
        <1>14, <1>15,
      <1>16, <1>17, <1>18
     DEF Next, LoadStep, MethodStep, SaveStep

\* Every step keeps registry.json a list that a later life can start from.
LEMMA StartFromStep ==
    ASSUME RegistryInv, StoreAgrees, [Next]_vars
    PROVE  FileToStartFrom'
<1> USE RegistryAssumption DEF RegistryTypeOK, Kinds, At, Saving, Over, RegistryInv, LoadedFirst,
    CreatorsAlone, Creating, UnlinkedForGood, OneSaver, RegistryReadable, StoreAgrees, SaveOfMemory,
    FileToStartFrom, CreatedSessionsKeptUndamaged, CreatedSessionsKept, DiskMatchesMemory,
    ListedSessionsOpen, DeleteAsked, callVars, memoryVars, diskVars
<1>1. ASSUME NEW o \in Ops, NEW k \in Kinds, NEW s \in Sessions, Begin(o, k, s)
      PROVE  FileToStartFrom'
  BY <1>1 DEF Begin, GoTo
<1>2. ASSUME NEW o \in Ops, ReadRegistry(o) PROVE FileToStartFrom'
  BY <1>2 DEF ReadRegistry, GoTo
<1>3. ASSUME NEW o \in Ops, ReadFails(o) PROVE FileToStartFrom'
  BY <1>3 DEF ReadFails, GoTo, End
<1>4. ASSUME NEW o \in Ops, Load(o) PROVE FileToStartFrom'
  BY <1>4 DEF Load, GoTo, Replace
  \* A session beyond memory has another delete that is still saving.
<1>5. ASSUME NEW o \in Ops, Answer(o) PROVE FileToStartFrom'
  BY <1>5 DEF Answer, GoTo, End, Found
<1>6. ASSUME NEW o \in Ops, Update(o) PROVE FileToStartFrom'
  BY <1>6 DEF Update, GoTo, persistRegistry, Found
<1>7. ASSUME NEW o \in Ops, CreateFile(o) PROVE FileToStartFrom'
  BY <1>7 DEF CreateFile, GoTo
<1>8. ASSUME NEW o \in Ops, ForkFails(o) PROVE FileToStartFrom'
  BY <1>8 DEF ForkFails, GoTo, End
<1>9. ASSUME NEW o \in Ops, Push(o) PROVE FileToStartFrom'
  BY <1>9 DEF Push, GoTo, persistRegistry
<1>10. ASSUME NEW o \in Ops, DeleteFile(o) PROVE FileToStartFrom'
  BY <1>10 DEF DeleteFile, GoTo, Found
<1>11. ASSUME NEW o \in Ops, DeleteFails(o) PROVE FileToStartFrom'
  BY <1>11 DEF DeleteFails, GoTo, End, Found
  \* What leaves memory is what this call deletes: the file had no more before.
<1>12. ASSUME NEW o \in Ops, Filter(o) PROVE FileToStartFrom'
  BY <1>12 DEF Filter, GoTo, Replace, persistRegistry
<1>13. ASSUME NEW o \in Ops, Stringify(o) PROVE FileToStartFrom'
  BY <1>13 DEF Stringify, GoTo
<1>14. ASSUME NEW o \in Ops, Truncate(o) PROVE FileToStartFrom'
  BY <1>14 DEF Truncate, GoTo
  \* The file is memory now, of which KeptStep and ListedStep speak.
<1>15. ASSUME NEW o \in Ops, Write(o) PROVE FileToStartFrom'
  BY <1>15 DEF Write, GoTo, End, Written
<1>16. ASSUME NEW o \in Ops, SaveFails(o) PROVE FileToStartFrom'
  BY <1>16 DEF SaveFails, GoTo, End
  \* A delete that is killed was still asked for.
<1>17. CASE Crash
  BY <1>17 DEF Crash
<1>18. CASE UNCHANGED vars
  BY <1>18 DEF vars
<1> QED
  BY <1>1, <1>2, <1>3, <1>4, <1>5, <1>6, <1>7, <1>8, <1>9, <1>10, <1>11, <1>12, <1>13,
        <1>14, <1>15,
      <1>16, <1>17, <1>18
     DEF Next, LoadStep, MethodStep, SaveStep

\* A daemon that starts again finds what it had: every session whose creation
\* was answered is listed, the file agrees with memory between saves and every
\* listed session opens, in every life, unless two loads or two saves
\* overlapped, or a save failed or was cut short.
THEOREM StoreStaysInAgreement == Spec => []StoreAgrees
<1>1. Init => StoreAgrees
  BY RegistryAssumption
  DEF Init, StoreAgrees, CreatedSessionsKeptUndamaged, CreatedSessionsKept, DiskMatchesMemory,
      ListedSessionsOpen, SaveOfMemory, FileToStartFrom, Saving
<1>2. RegistryInv /\ StoreAgrees /\ [Next]_vars => StoreAgrees'
  BY SaveOfMemoryStep, KeptStep, DiskStep, ListedStep, StartFromStep DEF StoreAgrees
<1> QED
  BY <1>1, <1>2, RegistryStaysReadable, PTL DEF Spec

-----------------------------------------------------------------------------
(* The name of a session (SessionTitles): SessionFiles takes steps of it   *)
(* and steps that leave its variables alone.                               *)

\* What a task writes about itself.
TitleSteps == {"idle", "name", "saving", "dispatched", "tree", "model", "done"}

TitleTask == [kind : {"none", "chat", "title", "rename"}, step : TitleSteps, name : {0} \cup Tasks]

\* The parts of TypeOK that are about tasks.
TasksOK ==
  /\ task \in [Tasks -> TitleTask]
  /\ \A t \in Tasks : task[t].kind = "none" => task[t] = Titles!Idle

\* A new record in place of one task's keeps the types.
LEMMA TaskReplaced ==
    ASSUME TasksOK, NEW t \in Tasks, NEW r \in TitleTask, r.kind # "none",
           task' = [task EXCEPT ![t] = r]
    PROVE  TasksOK' /\ task'[t] = r /\ \A u \in Tasks \ {t} : task'[u] = task[u]
BY DEF TasksOK

\* A step of a task that is under way.
LEMMA TaskGoes ==
    ASSUME TasksOK, NEW t \in Tasks, task[t].kind # "none", NEW s \in TitleSteps, Titles!Goto(t, s)
    PROVE  /\ TasksOK'
           /\ task'[t].kind = task[t].kind /\ task'[t].name = task[t].name /\ task'[t].step = s
           /\ \A u \in Tasks \ {t} : task'[u] = task[u]
<1> DEFINE r == [task[t] EXCEPT !.step = s]
<1>1. task[t] \in TitleTask
  BY DEF TasksOK
<1>2. r \in TitleTask /\ r.kind = task[t].kind /\ r.name = task[t].name /\ r.step = s
  BY <1>1 DEF TitleTask
<1>3. task' = [task EXCEPT ![t] = r]
  BY DEF Titles!Goto
<1> HIDE DEF r
<1> QED
  BY <1>2, <1>3, TaskReplaced

\* A task gives the name.
LEMMA TaskNames ==
    ASSUME TasksOK, NEW t \in Tasks, task[t].kind # "none",
           task' = [task EXCEPT ![t].step = "saving", ![t].name = t]
    PROVE  /\ TasksOK'
           /\ task'[t].kind = task[t].kind /\ task'[t].name = t /\ task'[t].step = "saving"
           /\ \A u \in Tasks \ {t} : task'[u] = task[u]
<1> DEFINE r == [[task[t] EXCEPT !.step = "saving"] EXCEPT !.name = t]
<1>1. task[t] \in TitleTask
  BY DEF TasksOK
<1>2. r \in TitleTask /\ r.kind = task[t].kind /\ r.name = t /\ r.step = "saving"
  BY <1>1 DEF TitleTask, TitleSteps
<1>3. task' = [task EXCEPT ![t] = r]
  BY <1>1 DEF TasksOK, TitleTask
<1> HIDE DEF r
<1> QED
  BY <1>2, <1>3, TaskReplaced

\* What a rename of the registry's entry makes of it.
LEMMA EntryRenamed ==
    ASSUME Titles!TypeOK, NEW t \in Tasks, NEW source \in {"first_message", "auto_llm", "manual"},
           0 \notin Tasks,
           entry' = [entry EXCEPT !.name = t, !.source = source]
    PROVE  /\ entry' \in [listed : BOOLEAN, name : {0} \cup Tasks,
                          source : {"none", "first_message", "auto_llm", "manual"}]
           /\ entry'.name = t /\ entry'.source = source /\ t # 0
BY DEF Titles!TypeOK

\* Every step keeps the parts of TitlesInv.
LEMMA TitlesStep ==
    ASSUME 0 \notin Tasks, Renames \in Nat, Titles!TitlesInv, [Titles!Next]_Titles!vars
    PROVE  Titles!TitlesInv'
<1> USE DEF Titles!TitlesInv
<1>0. TasksOK
  BY DEF Titles!TypeOK, TasksOK, TitleTask, TitleSteps
<1>1. ASSUME TasksOK', entry' \in [listed : BOOLEAN, name : {0} \cup Tasks,
                          source : {"none", "first_message", "auto_llm", "manual"}],
             (entry'.name = 0) <=> (entry'.source = "none"), replies' \in Nat,
             title' \in {0} \cup Tasks, renamed' \in 0 .. Renames, raced' \in BOOLEAN
      PROVE  Titles!TypeOK'
  BY <1>1 DEF Titles!TypeOK, TasksOK, TitleTask, TitleSteps
<1>2. ASSUME Titles!NameIsPublished' PROVE Titles!PublishedIsCurrent'
  BY <1>2 DEF Titles!NameIsPublished, Titles!PublishedIsCurrent
<1> DEFINE Rest == /\ Titles!TitleOfFirst' /\ Titles!ModelHasReply' /\ Titles!NameIsPublished'
                   /\ Titles!ManualStands' /\ Titles!TitleFollowsReply'
<1> USE DEF Titles!TitleOfFirst, Titles!ModelHasReply, Titles!NameIsPublished, Titles!ManualStands,
            Titles!TitleFollowsReply, Titles!Titles
\* A record that begins a request is no title job and saves nothing.
<1>3. ASSUME NEW t \in Tasks, Titles!enqueue(t) PROVE Titles!TypeOK' /\ Rest
  <2> DEFINE r == [kind |-> "chat", step |-> "name", name |-> 0]
  <2>1. r \in TitleTask /\ r.kind = "chat" /\ r.step = "name"
    BY DEF TitleTask, TitleSteps
  <2>2. task' = [task EXCEPT ![t] = r] /\ UNCHANGED <<entry, replies, title, renamed, raced>>
    BY <1>3 DEF Titles!enqueue, Titles!Begin
  <2> HIDE DEF r
  <2>3. TasksOK' /\ task'[t] = r /\ \A u \in Tasks \ {t} : task'[u] = task[u]
    BY <1>0, <2>1, <2>2, TaskReplaced
  <2>4. Titles!TypeOK'
    BY <1>1, <2>2, <2>3 DEF Titles!TypeOK
  <2>5. Titles!TitleOfFirst' /\ Titles!ModelHasReply'
    BY <2>1, <2>2, <2>3
  <2>6. Titles!NameIsPublished'
    <3>1. \A u \in Tasks : task'[u].step = "saving" <=> u # t /\ task[u].step = "saving"
      BY <2>1, <2>3
    <3>2. task[t].step = "idle"
      BY <1>0, <1>3 DEF Titles!enqueue, Titles!Begin, TasksOK, Titles!Idle
    <3> QED
      BY <2>2, <2>3, <3>1, <3>2
  <2> QED
    BY <2>2, <2>4, <2>5, <2>6
\* The first name meets no title job, because a job needs a name.
<1>4. ASSUME NEW t \in Tasks, Titles!setNameFromFirstMessageIfEmpty(t) PROVE Titles!TypeOK' /\ Rest
  <2> USE <1>4 DEF Titles!setNameFromFirstMessageIfEmpty
  <2>1. CASE ~entry.listed
    <3>1. Titles!Goto(t, "dispatched") /\ UNCHANGED <<entry, title, raced, replies, renamed>>
      BY <2>1
    <3>2. TasksOK' /\ task'[t].kind = "chat" /\ task'[t].step = "dispatched"
          /\ \A u \in Tasks \ {t} : task'[u] = task[u]
      BY <1>0, <3>1, TaskGoes DEF TitleSteps
    <3>3. Titles!TypeOK'
      BY <1>1, <3>1, <3>2 DEF Titles!TypeOK
    <3> QED
      BY <3>1, <3>2, <3>3
  <2>2. CASE entry.listed /\ entry.name = 0
    <3>1. Titles!Rename(t, "first_message") /\ UNCHANGED <<title, replies, renamed>>
      BY <2>2
    <3>2. TasksOK' /\ task'[t].kind = "chat" /\ task'[t].step = "saving" /\ task'[t].name = t
          /\ \A u \in Tasks \ {t} : task'[u] = task[u]
      BY <1>0, <3>1, TaskNames DEF Titles!Rename
    <3>3. entry' \in [listed : BOOLEAN, name : {0} \cup Tasks,
                      source : {"none", "first_message", "auto_llm", "manual"}]
          /\ entry'.name = t /\ entry'.source = "first_message" /\ t # 0
      BY <3>1, EntryRenamed DEF Titles!Rename
    <3>4. raced' = (raced \/ {u \in Tasks : task[u].step = "saving"} # {}) 
      BY <3>1 DEF Titles!Rename, Titles!Race
    <3>5. Titles!TypeOK'
      BY <1>1, <3>1, <3>2, <3>3, <3>4 DEF Titles!TypeOK
    <3>6. ~raced' => ~raced /\ \A u \in Tasks : task[u].step # "saving"
      BY <3>4
    <3>7. entry.source = "none"
      BY <2>2 DEF Titles!TypeOK
    <3>8. Titles!TitleOfFirst'
      BY <3>2, <3>3, <3>6, <3>7
    <3>9. Titles!NameIsPublished'
      BY <3>2, <3>3, <3>6, <3>1
    <3>10. Titles!ModelHasReply' /\ Titles!ManualStands' /\ Titles!TitleFollowsReply'
      BY <3>1, <3>2, <3>3, <3>6, <3>7
    <3> QED
      BY <3>5, <3>8, <3>9, <3>10
  <2>3. CASE entry.listed /\ entry.name # 0
    <3>1. Titles!Goto(t, "dispatched") /\ UNCHANGED <<entry, raced, replies, renamed>>
          /\ title' \in {title, entry.name}
      BY <2>3
    <3>2. TasksOK' /\ task'[t].kind = "chat" /\ task'[t].step = "dispatched"
          /\ \A u \in Tasks \ {t} : task'[u] = task[u]
      BY <1>0, <3>1, TaskGoes DEF TitleSteps
    <3>3. Titles!TypeOK'
      BY <1>1, <3>1, <3>2 DEF Titles!TypeOK
    <3> QED
      BY <3>1, <3>2, <3>3
  <2> QED
    BY <2>1, <2>2, <2>3 DEF Titles!TypeOK
\* What is published is the entry's name, when nobody raced.
<1>5. ASSUME NEW t \in Tasks, Titles!publishMetaUpdate(t) PROVE Titles!TypeOK' /\ Rest
  <2>1. PICK s \in {"dispatched", "done"} : Titles!Goto(t, s)
    BY <1>5 DEF Titles!publishMetaUpdate
  <2>2. title' = task[t].name /\ UNCHANGED <<entry, replies, renamed, raced>>
        /\ task[t].kind # "none" /\ task[t].step = "saving" /\ task[t].name \in {0} \cup Tasks
    BY <1>0, <1>5 DEF Titles!publishMetaUpdate, TasksOK, TitleTask
  <2>3. TasksOK' /\ task'[t].kind = task[t].kind /\ task'[t].step = s
        /\ \A u \in Tasks \ {t} : task'[u] = task[u]
    BY <1>0, <2>1, <2>2, TaskGoes DEF TitleSteps
  <2>4. Titles!TypeOK'
    BY <1>1, <2>2, <2>3 DEF Titles!TypeOK
  <2>5. s = "done" \/ task[t].kind = "chat"
    BY <1>5, <1>0, <2>3, <2>1 DEF Titles!publishMetaUpdate, Titles!Goto, TasksOK, TitleTask
  <2> QED
    BY <2>2, <2>3, <2>4, <2>5
\* A title job is started for a first name; a second job beside it is a race.
<1>6. ASSUME NEW t \in Tasks, NEW u \in Tasks, NEW answered \in BOOLEAN,
             Titles!TurnEnds(t, u, answered)
      PROVE  Titles!TypeOK' /\ Rest
  <2> DEFINE looks == entry.listed /\ entry.source = "first_message"
             d == [task[t] EXCEPT !.step = "done"]
             r == [kind |-> "title", step |-> IF looks THEN "tree" ELSE "done", name |-> 0]
  <2>1. task[t] \in TitleTask /\ task[t].kind = "chat" /\ task[u].kind = "none" /\ t # u
    BY <1>0, <1>6 DEF Titles!TurnEnds, TasksOK
  <2>2. d \in TitleTask /\ d.kind = "chat" /\ d.step = "done"
    BY <2>1 DEF TitleTask, TitleSteps
  <2>3. /\ r \in TitleTask /\ r.kind = "title"
        /\ (looks => r.step = "tree") /\ (~looks => r.step = "done")
    BY DEF TitleTask, TitleSteps
  <2>4. task' = [[task EXCEPT ![t] = d] EXCEPT ![u] = r]
    BY <1>6 DEF Titles!TurnEnds
  <2>5. replies' \in Nat /\ replies' >= replies /\ UNCHANGED <<entry, title, renamed>>
        /\ raced' = (raced \/ (looks /\ Titles!Titles # {}))
    <3>1. raced' = (raced \/ (IF looks THEN Titles!Titles ELSE {}) # {})
      BY <1>6 DEF Titles!TurnEnds, Titles!Race
    <3>2. replies' \in Nat /\ replies' >= replies /\ UNCHANGED <<entry, title, renamed>>
      BY <1>6 DEF Titles!TurnEnds, Titles!TypeOK
    <3> QED
      BY <3>1, <3>2
  <2> HIDE DEF d, r, looks
  <2>6. TasksOK' /\ task'[t] = d /\ task'[u] = r /\ \A v \in Tasks \ {t, u} : task'[v] = task[v]
    BY <1>0, <2>1, <2>2, <2>3, <2>4 DEF TasksOK
  <2>7. Titles!TypeOK'
    BY <1>1, <2>5, <2>6 DEF Titles!TypeOK
  <2>8. Titles!TitleOfFirst'
    <3>1. CASE ~looks
      <4>1. \A v \in Tasks : task'[v].kind = "title" /\ task'[v].step # "done" => task'[v] = task[v]
                                                                    /\ v \in Titles!Titles
        BY <2>2, <2>3, <2>6, <3>1
      <4>2. ~raced' => ~raced
        BY <2>5, <3>1
      <4> QED
        BY <2>5, <4>1, <4>2
    <3>2. CASE looks
      <4>1. ~raced' => \A v \in Tasks : task[v].kind = "title" => task[v].step = "done"
        BY <2>5, <3>2
      <4>2. ~raced' => \A v \in Tasks : task'[v].kind = "title" /\ task'[v].step # "done" => v = u
        BY <2>2, <2>6, <4>1
      <4>3. entry'.source = "first_message"
        BY <2>5, <3>2 DEF looks
      <4> QED
        BY <4>2, <4>3
    <3> QED
      BY <3>1, <3>2
  <2>9. Titles!NameIsPublished'
    <3>1. \A v \in Tasks : task'[v].step = "saving" <=> task[v].step = "saving"
      <4>1. task[u].step = "idle" /\ task[t].step = "dispatched"
        BY <2>1, <1>0, <1>6 DEF TasksOK, Titles!Idle, Titles!TurnEnds
      <4> QED
        BY <4>1, <2>2, <2>3, <2>6
    <3>2. \A v \in Tasks : task'[v].step = "saving" => task'[v].name = task[v].name
      BY <2>2, <2>3, <2>6
    <3> QED
      BY <3>1, <3>2, <2>5
  <2>10. Titles!ModelHasReply' /\ Titles!TitleFollowsReply'
    BY <2>2, <2>3, <2>5, <2>6 DEF Titles!TypeOK
  <2>11. Titles!ManualStands'
    BY <2>5
  <2> QED
    BY <2>7, <2>8, <2>9, <2>10, <2>11
<1>7. ASSUME NEW t \in Tasks, Titles!TurnFails(t) PROVE Titles!TypeOK' /\ Rest
  <2>1. Titles!Goto(t, "done") /\ UNCHANGED <<entry, title, raced, replies, renamed>>
        /\ task[t].kind = "chat" /\ task[t].step = "dispatched"
    BY <1>7 DEF Titles!TurnFails, Titles!Done
  <2>2. TasksOK' /\ task'[t].kind = "chat" /\ task'[t].step = "done"
        /\ \A u \in Tasks \ {t} : task'[u] = task[u]
    BY <1>0, <2>1, TaskGoes DEF TitleSteps
  <2>3. Titles!TypeOK'
    BY <1>1, <2>1, <2>2 DEF Titles!TypeOK
  <2> QED
    BY <2>1, <2>2, <2>3
<1>8. ASSUME NEW t \in Tasks, Titles!ReadTree(t) PROVE Titles!TypeOK' /\ Rest
  <2>1. UNCHANGED <<entry, title, raced, replies, renamed>>
        /\ task[t].kind = "title" /\ task[t].step = "tree"
    BY <1>8 DEF Titles!ReadTree
  <2>2. PICK s \in {"model", "done"} : Titles!Goto(t, s) /\ (s = "model" => replies > 0)
    BY <1>8 DEF Titles!ReadTree, Titles!Done
  <2>3. TasksOK' /\ task'[t].kind = "title" /\ task'[t].step = s
        /\ \A u \in Tasks \ {t} : task'[u] = task[u]
    BY <1>0, <2>1, <2>2, TaskGoes DEF TitleSteps
  <2>4. Titles!TypeOK'
    BY <1>1, <2>1, <2>3 DEF Titles!TypeOK
  <2> QED
    BY <2>1, <2>2, <2>3, <2>4
\* A title overwrites the name of the first message, or else somebody raced.
<1>9. ASSUME NEW t \in Tasks, Titles!TitleArrives(t) PROVE Titles!TypeOK' /\ Rest
  <2>1. UNCHANGED <<title, replies, renamed>> /\ task[t].kind = "title" /\ task[t].step = "model"
    BY <1>9 DEF Titles!TitleArrives
  <2>2. CASE Titles!Done(t) /\ UNCHANGED <<entry, raced>>
    <3>1. TasksOK' /\ task'[t].kind = "title" /\ task'[t].step = "done"
          /\ \A u \in Tasks \ {t} : task'[u] = task[u]
      BY <1>0, <2>1, <2>2, TaskGoes DEF TitleSteps, Titles!Done
    <3>2. Titles!TypeOK'
      BY <1>1, <2>1, <2>2, <3>1 DEF Titles!TypeOK
    <3> QED
      BY <2>1, <2>2, <3>1, <3>2
  <2>3. CASE Titles!Rename(t, "auto_llm")
    <3>1. TasksOK' /\ task'[t].kind = "title" /\ task'[t].step = "saving" /\ task'[t].name = t
          /\ \A u \in Tasks \ {t} : task'[u] = task[u]
      BY <1>0, <2>1, <2>3, TaskNames DEF Titles!Rename
    <3>2. entry' \in [listed : BOOLEAN, name : {0} \cup Tasks,
                      source : {"none", "first_message", "auto_llm", "manual"}]
          /\ entry'.name = t /\ entry'.source = "auto_llm" /\ t # 0
      BY <2>3, EntryRenamed DEF Titles!Rename
    <3>3. raced' = (raced \/ {u \in Tasks : task[u].step = "saving"} # {}) 
      BY <2>3 DEF Titles!Rename, Titles!Race
    <3>4. ~raced' => ~raced /\ \A u \in Tasks : task[u].step # "saving"
      BY <3>3
    <3>5. Titles!TypeOK'
      BY <1>1, <2>1, <3>1, <3>2, <3>3 DEF Titles!TypeOK
    <3>6. replies > 0 /\ (~raced => entry.source = "first_message")
      BY <2>1
    <3>7. Titles!TitleOfFirst'
      BY <2>1, <3>1, <3>4
    <3>8. Titles!NameIsPublished'
      BY <2>1, <3>1, <3>2, <3>4
    <3>9. Titles!ModelHasReply' /\ Titles!ManualStands' /\ Titles!TitleFollowsReply'
      BY <2>1, <3>1, <3>2, <3>4, <3>6
    <3> QED
      BY <3>5, <3>7, <3>8, <3>9
  <2> QED
    BY <1>9, <2>2, <2>3 DEF Titles!TitleArrives
<1>10. ASSUME NEW t \in Tasks, Titles!RenameByUser(t) PROVE Titles!TypeOK' /\ Rest
  <2> DEFINE r == [kind |-> "rename", step |-> "done", name |-> t]
  <2>1. r \in TitleTask /\ r.kind = "rename" /\ r.step = "done"
    BY DEF TitleTask, TitleSteps
  <2>2. task' = [task EXCEPT ![t] = r] /\ UNCHANGED <<replies, title>>
        /\ renamed' = renamed + 1 /\ renamed < Renames /\ raced' = (raced \/ Titles!Titles # {})
    BY <1>10 DEF Titles!RenameByUser, Titles!Race
  <2>3. entry' \in [listed : BOOLEAN, name : {0} \cup Tasks,
                    source : {"none", "first_message", "auto_llm", "manual"}]
        /\ entry'.name = t /\ entry'.source = "manual" /\ t # 0
    BY <1>10, EntryRenamed DEF Titles!RenameByUser
  <2> HIDE DEF r
  <2>4. TasksOK' /\ task'[t] = r /\ \A u \in Tasks \ {t} : task'[u] = task[u]
    BY <1>0, <2>1, <2>2, TaskReplaced
  <2>5. renamed' \in 0 .. Renames /\ renamed' # 0 /\ raced' \in BOOLEAN
    BY <2>2 DEF Titles!TypeOK
  <2>6. Titles!TypeOK'
    BY <1>1, <2>2, <2>3, <2>4, <2>5 DEF Titles!TypeOK
  <2>7. task[t].step = "idle"
    BY <1>0, <1>10 DEF Titles!RenameByUser, TasksOK, Titles!Idle
  <2>8. Titles!TitleOfFirst'
    <3>1. ~raced' => ~raced /\ \A u \in Tasks : task[u].kind = "title" => task[u].step = "done"
      BY <2>2
    <3> QED
      BY <2>1, <2>4, <3>1
  <2>9. Titles!NameIsPublished'
    <3>1. \A u \in Tasks : task'[u].step = "saving" => u # t /\ task[u].step = "saving"
      BY <2>1, <2>4
    <3>2. ~raced' => ~raced
      BY <2>2
    <3> QED
      BY <2>5, <3>1, <3>2
  <2>10. Titles!ModelHasReply' /\ Titles!ManualStands' /\ Titles!TitleFollowsReply'
    BY <2>1, <2>2, <2>3, <2>4
  <2> QED
    BY <2>6, <2>8, <2>9, <2>10
<1>11. ASSUME Titles!Delete PROVE Titles!TypeOK' /\ Rest
  <2>1. /\ UNCHANGED <<task, replies, title, renamed, raced>>
        /\ entry' = [entry EXCEPT !.listed = FALSE]
    BY <1>11 DEF Titles!Delete
  <2>2. entry' \in [listed : BOOLEAN, name : {0} \cup Tasks,
                    source : {"none", "first_message", "auto_llm", "manual"}]
        /\ entry'.name = entry.name /\ entry'.source = entry.source
    BY <2>1 DEF Titles!TypeOK
  <2>3. TasksOK'
    BY <1>0, <2>1 DEF TasksOK
  <2>4. Titles!TypeOK'
    BY <1>1, <2>1, <2>2, <2>3 DEF Titles!TypeOK
  <2>5. Titles!TitleOfFirst' /\ Titles!ModelHasReply' /\ Titles!NameIsPublished'
    BY <2>1, <2>2
  <2>6. Titles!ManualStands'
    BY <2>1, <2>2
  <2>7. Titles!TitleFollowsReply'
    BY <2>1, <2>2
  <2> QED
    BY <2>4, <2>5, <2>6, <2>7
<1>12. ASSUME UNCHANGED Titles!vars PROVE Titles!TypeOK' /\ Rest
  <2>1. UNCHANGED <<entry, task, replies, title, renamed, raced>>
    BY <1>12 DEF Titles!vars
  <2>2. TasksOK'
    BY <1>0, <2>1 DEF TasksOK
  <2>3. Titles!TypeOK'
    BY <1>1, <2>1, <2>2 DEF Titles!TypeOK
  <2>4. Titles!TitleOfFirst' /\ Titles!ModelHasReply' /\ Titles!NameIsPublished'
    BY <2>1
  <2>5. Titles!ManualStands'
    BY <2>1
  <2>6. Titles!TitleFollowsReply'
    BY <2>1
  <2> QED
    BY <2>3, <2>4, <2>5, <2>6
<1>13. Titles!TypeOK' /\ Rest
  BY <1>3, <1>4, <1>5, <1>6, <1>7, <1>8, <1>9, <1>10, <1>11, <1>12 DEF Titles!Next
<1> QED
  BY <1>2, <1>13

\* A session without a name.
LEMMA TitlesInit ==
    ASSUME Renames \in Nat, Titles!Init
    PROVE  Titles!TitlesInv
<1>1. Titles!TypeOK
  <2>1. Titles!Idle \in [kind : {"none", "chat", "title", "rename"}, name : {0} \cup Tasks,
                  step : {"idle", "name", "saving", "dispatched", "tree", "model", "done"}]
    BY DEF Titles!Idle
  <2>2. \A t \in Tasks : task[t] = Titles!Idle
    BY DEF Titles!Init
  <2>3. entry = [listed |-> TRUE, name |-> 0, source |-> "none"]
    BY DEF Titles!Init
  <2>4. entry \in [listed : BOOLEAN, name : {0} \cup Tasks,
                  source : {"none", "first_message", "auto_llm", "manual"}]
        /\ entry.name = 0 /\ entry.source = "none"
    BY <2>3
  <2>5. task \in [Tasks -> [kind : {"none", "chat", "title", "rename"}, name : {0} \cup Tasks,
                  step : {"idle", "name", "saving", "dispatched", "tree", "model", "done"}]]
    BY <2>1 DEF Titles!Init
  <2>6. replies \in Nat /\ title \in {0} \cup Tasks /\ renamed \in 0 .. Renames /\ raced \in BOOLEAN
    <3>1. replies = 0 /\ title = 0 /\ renamed = 0
      BY DEF Titles!Init
    <3>2. raced \in BOOLEAN
      BY Zenon DEF Titles!Init
    <3>3. replies \in Nat /\ title \in {0} \cup Tasks /\ renamed \in 0 .. Renames
      BY <3>1
    <3> QED
      BY <3>2, <3>3
  <2>7. ((entry.name = 0) <=> (entry.source = "none"))
        /\ (\A t \in Tasks : task[t].kind = "none" => task[t] = Titles!Idle)
    BY <2>2, <2>4
  <2> HIDE DEF Titles!Init
  <2> QED
    BY <2>4, <2>5, <2>6, <2>7, Zenon DEF Titles!TypeOK
<1> QED
  BY <1>1 DEF Titles!Init, Titles!TitlesInv, Titles!TitleOfFirst, Titles!ModelHasReply,
        Titles!NameIsPublished,
              Titles!ManualStands, Titles!TitleFollowsReply, Titles!PublishedIsCurrent, Titles!Titles, Titles!Idle

\* The user's name stays, a generated one follows an answer, and the screen shows the
\* registry's name (session-title-service.ts, session-store.ts), for any requests and
\* renames; the exceptions are the races that raced records.
THEOREM TitlesAreHonest == FilesSpec => []TitlesInv
<1>1. FilesInit => TitlesInv
  BY TitlesInit, FilesAssumption DEF FilesInit, TitlesInv
<1>2. TitlesInv /\ [FilesNext]_<<part, registryVars, titleVars, inspectVars, pickerVars>> => TitlesInv'
  <2>1. SUFFICES ASSUME TitlesInv, [FilesNext]_<<part, registryVars, titleVars, inspectVars, pickerVars>>
                 PROVE  TitlesInv'
    OBVIOUS
  <2>2. [Titles!Next]_Titles!vars
    BY <2>1 DEF FilesNext, titleVars, Titles!vars
  <2> QED
    BY <2>1, <2>2, TitlesStep, FilesAssumption DEF TitlesInv
<1> QED
  BY <1>1, <1>2, PTL DEF FilesSpec

-----------------------------------------------------------------------------
(* Agents: the inductive invariant *)

\* What a file of the package may hold, and what a call may be
Contents == {0} \cup Releases \cup {v \in Int : -v \in Releases}
CallKinds == {"context", "turn", "turn again", "get", "personas", "skills", "create"}
CallRecords == [kind : CallKinds, agent : {"agent", "user"}, step : {"read", "write", "done", "failed"},
                skills : Seq(Skills), todo : Seq({"agents", "persona.json", "system.md"} \cup Skills), seen : Seq(Int \ {0}),
                whole : BOOLEAN, version : {0} \cup Releases, userSkills : Seq(Skills), user : {-1, 0, 1},
                overlap : Nat, to : {0} \cup Releases]

\* What a call of a kind has still to read: the agents, the persona, its prompt and the skills that q names
CanRead(what, todo) ==
  \E q \in Seq(Skills) :
    \/ what \in {"context", "turn", "turn again"} /\ todo = Context
    \/ what \in {"context", "turn", "turn again", "create"} /\ todo = <<"persona.json", "system.md">> \o q
    \/ what \in {"context", "turn", "turn again", "create"} /\ todo = <<"system.md">> \o q
    \/ what \in {"context", "turn", "turn again", "create", "skills"} /\ todo = q /\ q # <<>>
    \/ what = "get" /\ todo = <<"agents">>
    \/ what = "personas" /\ todo = <<"persona.json">>
Reads(r) == CanRead(r.kind, r.todo)

PackageFiles == Files \ {"user"}
Assets == {"persona", "agent"} \cup Skills

\* The values of the variables, a package operation's as far as its steps say
PackageTypes ==
  /\ files \in [Files -> Int]
  /\ files["user"] \in {-1, 0, 1} /\ \A f \in PackageFiles : files[f] \in Contents
  /\ userSkills \in Seq(Skills) /\ installed \in {0} \cup Releases /\ killed \in BOOLEAN
  /\ writer \in [step : {"idle", "remove", "clear", "copy", "register"}, to : {0} \cup Releases, todo : Seq(Assets)]
  /\ IF writer.step = "idle" THEN writer = NoOp ELSE writer.to # 0
  /\ writer.step \in {"clear", "copy"} => writer.todo # <<>>
  /\ writer.step = "register" => writer.todo = <<>>
  /\ writer.step = "remove" => Elements(writer.todo) \subseteq Elements(AssetList(installed))
  /\ writer.step \in {"clear", "copy", "register"} => Elements(writer.todo) \subseteq Elements(AssetList(writer.to))

\* The files that the operation has still to remove or to bring
Due == UNION {FilesOf(a) : a \in Elements(writer.todo)}

\* Unless one was killed, an operation first takes away all that is registered, then it brings what is new.
OperationInOrder ==
  ~killed =>
    \A f \in PackageFiles :
      /\ writer.step = "idle" => files[f] = IF f \in Installed(installed) THEN installed ELSE 0
      /\ writer.step = "remove" => files[f] \in {0, installed} /\ (files[f] # 0 => f \in Due)
      /\ writer.step \in {"clear", "copy", "register"} =>
           /\ files[f] \in {0, writer.to, -writer.to}
           /\ files[f] # 0 => f \in Installed(writer.to)
           /\ f \in Installed(writer.to) \ Due => files[f] = writer.to

\* A persona.json is complete only beside a prompt that is not cut off.
PersonaLast ==
  /\ files["system.md"] < 0 => files["persona.json"] <= 0
  /\ writer.step = "copy" /\ Head(writer.todo) = "persona" /\ files["persona.json"] > 0 => files["system.md"] = writer.to

\* Whether the call r can read f, if it began on a whole disk
CanFind(r, f) ==
  CASE f = "agents" -> IF r.agent = "agent" THEN r.version # 0
                       ELSE r.user = 1 /\ (r.kind # "get" => Had(r, r.userSkills))
    [] f = "persona.json" -> r.kind = "personas" \/ r.version # 0
    [] f = "system.md" -> r.version # 0
    [] f \in Skills -> r.kind = "skills" \/ (r.version # 0 /\ f \in Elements(SkillsOf[r.version]))

\* What a call knows of itself.  One that nobody disturbs can be answered if it finds what it has still to read,
\* and has read nothing that is cut off; one that met an operation has read what is new after what is old.
Undisturbed(r) ==
  /\ r.step = "read" /\ r.overlap = 0 /\ r.whole =>
       /\ \A i \in DOMAIN r.seen : r.seen[i] = r.version
       /\ Answerable(r) <=> \A f \in Elements(r.todo) : CanFind(r, f)
  /\ r.step \in {"write", "done", "failed"} /\ r.overlap = 0 /\ r.whole =>
       /\ (r.step = "failed") = ~Answerable(r)
       /\ \A i \in DOMAIN r.seen : r.seen[i] = r.version
SawWhole(r) == r.step \in {"read", "write", "done"} /\ r.overlap = 0 => \A i \in DOMAIN r.seen : r.seen[i] > 0
SawOneSeam(r) ==
  r.step \notin {"idle", "failed"} /\ r.overlap = 1 /\ r.to # r.version =>
    \A i, j \in DOMAIN r.seen : i < j /\ r.seen[i] \in {r.to, -r.to} => r.seen[j] # r.version

\* A call of its own, whatever the disk is
CallHolds(r) ==
  /\ r \in {NoCall} \cup CallRecords
  /\ r.step = "read" => Reads(r)
  /\ r.step = "write" => r.kind = "create"
  /\ Undisturbed(r) /\ SawWhole(r)

\* What there is when a call has met no writer yet
Unmet(c) ==
  LET r == calls[c] IN
  Active(c) /\ r.overlap = 0 =>
    /\ writer.step = "idle" /\ Writing \subseteq {c} /\ installed = r.version
    /\ ~killed => r.whole
    /\ r.step = "read" =>
         /\ Head(r.todo) = "system.md" => files["persona.json"] > 0
         /\ r.whole =>
              /\ files["user"] = r.user /\ r.user # -1 /\ userSkills = r.userSkills
              /\ \A f \in PackageFiles : files[f] = IF f \in Installed(r.version) THEN r.version ELSE 0

\* A call that has met one operation: once it has read what is new, nothing that is old is left.
OneMet(c) ==
  LET r == calls[c] IN
  ~killed /\ Active(c) /\ r.overlap = 1 /\ r.to # 0 =>
    /\ IF writer.step = "idle" THEN installed = r.to ELSE writer.to = r.to /\ installed = r.version
    /\ r.to # r.version /\ (\E i \in DOMAIN r.seen : r.seen[i] \in {r.to, -r.to}) => writer.step # "remove"

\* One creation at a time, which leaves its file half written only when it is killed
OneCreates ==
  /\ \A c, d \in Calls : Active(c) /\ Active(d) /\ calls[c].kind = "create" /\ calls[d].kind = "create" => c = d
  /\ ~killed /\ files["user"] = -1 => Writing # {}

CallsHold == calls \in [Calls -> {NoCall} \cup CallRecords] /\ \A c \in Calls : CallHolds(calls[c]) /\ (~killed => SawOneSeam(calls[c]))

AgentsInd ==
  /\ PackageTypes /\ OperationInOrder /\ PersonaLast /\ OneCreates /\ CallsHold
  /\ \A c \in Calls : Unmet(c) /\ OneMet(c)

-----------------------------------------------------------------------------
(* Agents: sequences, files and assets *)

LEMMA AgentElements ==
  ASSUME NEW S, NEW s \in Seq(S)
  PROVE  /\ Elements(s) \subseteq S
         /\ s # <<>> => /\ Head(s) \in S /\ Tail(s) \in Seq(S) /\ Len(s) >= 1
                        /\ Elements(s) = {Head(s)} \cup Elements(Tail(s))
                        /\ Len(s) = 1 <=> Tail(s) = <<>>
<1>1. Elements(s) \subseteq S
  BY DEF Elements
<1>2. ASSUME s # <<>>
      PROVE  /\ Head(s) \in S /\ Tail(s) \in Seq(S) /\ Len(s) >= 1
             /\ Elements(s) = {Head(s)} \cup Elements(Tail(s))
             /\ Len(s) = 1 <=> Tail(s) = <<>>
  <2>1. Head(s) \in S /\ Tail(s) \in Seq(S) /\ Len(s) >= 1 /\ Len(Tail(s)) = Len(s) - 1 /\ Head(s) = s[1]
    BY <1>2
  <2>2. \A i \in DOMAIN Tail(s) : Tail(s)[i] = s[i + 1] /\ i + 1 \in DOMAIN s
    BY <1>2
  <2>3. ASSUME NEW x \in Elements(s), x # s[1]
        PROVE  x \in Elements(Tail(s))
    <3>1. PICK i \in DOMAIN s : x = s[i]
      BY DEF Elements
    <3>2. i - 1 \in DOMAIN Tail(s) /\ i = (i - 1) + 1
      BY <1>2, <2>1, <2>3, <3>1
    <3>3. Tail(s)[i - 1] = x
      BY <2>2, <3>1, <3>2
    <3>4. QED
      BY <3>2, <3>3 DEF Elements
  <2>4. s[1] \in Elements(s)
    BY <2>1 DEF Elements
  <2>5. Elements(Tail(s)) \subseteq Elements(s)
    BY <2>2 DEF Elements
  <2>6. Len(s) = 1 <=> Tail(s) = <<>>
    BY <1>2, <2>1
  <2>7. QED
    BY <2>1, <2>3, <2>4, <2>5, <2>6
<1>3. QED
  BY <1>1, <1>2

LEMMA AgentAppended ==
  ASSUME NEW S, NEW s \in Seq(S), NEW x \in S
  PROVE  /\ Append(s, x) \in Seq(S)
         /\ \A i \in DOMAIN Append(s, x) : (i \in DOMAIN s /\ Append(s, x)[i] = s[i]) \/ (i = Len(s) + 1 /\ Append(s, x)[i] = x)
         /\ \A i \in DOMAIN s : i \in DOMAIN Append(s, x) /\ Append(s, x)[i] = s[i] /\ i < Len(s) + 1
         /\ DOMAIN s \subseteq Nat
OBVIOUS

LEMMA AgentJoined ==
  ASSUME NEW S, NEW s \in Seq(S), NEW t \in Seq(S)
  PROVE  s \o t \in Seq(S) /\ Elements(s \o t) = Elements(s) \cup Elements(t)
<1>1. s \o t \in Seq(S) /\ Len(s \o t) = Len(s) + Len(t)
  OBVIOUS
<1>2. \A i \in 1..Len(s) : (s \o t)[i] = s[i] /\ i \in DOMAIN (s \o t)
  OBVIOUS
<1>3. \A i \in 1..Len(t) : (s \o t)[i + Len(s)] = t[i] /\ i + Len(s) \in DOMAIN (s \o t)
  OBVIOUS
<1>4. \A i \in DOMAIN (s \o t) : i \in 1..Len(s) \/ (i - Len(s) \in 1..Len(t) /\ i = (i - Len(s)) + Len(s))
  BY <1>1
<1>5. DOMAIN s = 1..Len(s) /\ DOMAIN t = 1..Len(t)
  OBVIOUS
<1>6. ASSUME NEW x \in Elements(s \o t)
      PROVE  x \in Elements(s) \cup Elements(t)
  <2>1. PICK i \in DOMAIN (s \o t) : x = (s \o t)[i]
    BY DEF Elements
  <2>2. CASE i \in 1..Len(s)
    BY <1>2, <1>5, <2>1, <2>2 DEF Elements
  <2>3. CASE i - Len(s) \in 1..Len(t) /\ i = (i - Len(s)) + Len(s)
    <3>1. x = t[i - Len(s)]
      BY <1>3, <2>1, <2>3
    <3>2. QED
      BY <1>5, <2>3, <3>1 DEF Elements
  <2>4. QED
    BY <1>4, <2>2, <2>3
<1>7. Elements(s) \subseteq Elements(s \o t)
  BY <1>2, <1>5 DEF Elements
<1>8. Elements(t) \subseteq Elements(s \o t)
  BY <1>3, <1>5 DEF Elements
<1>9. QED
  BY <1>1, <1>6, <1>7, <1>8

LEMMA AgentAhead ==
  ASSUME NEW S, NEW q \in Seq(S), NEW x, NEW y
  PROVE  /\ <<x>> \o q # <<>> /\ Head(<<x>> \o q) = x /\ Tail(<<x>> \o q) = q
         /\ <<x, y>> \o q # <<>> /\ Head(<<x, y>> \o q) = x /\ Tail(<<x, y>> \o q) = <<y>> \o q
         /\ \A z : <<z, x, y>> \o q # <<>> /\ Head(<<z, x, y>> \o q) = z /\ Tail(<<z, x, y>> \o q) = <<x, y>> \o q
OBVIOUS

LEMMA AgentLists ==
  \A x, y : /\ <<x>> \in Seq({x}) /\ Elements(<<x>>) = {x}
            /\ <<x, y>> \in Seq({x, y}) /\ Elements(<<x, y>>) = {x, y}
BY DEF Elements

\* Releases are numbered from one; no skill is called like another file or asset.
LEMMA AgentReleases ==
  /\ 0 \notin Releases /\ \A v \in Releases : v \in Nat /\ v > 0 /\ -v \notin Releases
  /\ \A v \in Releases : SkillsOf[v] \in Seq(Skills) /\ Elements(SkillsOf[v]) \subseteq Skills
  /\ \A s \in Skills : s \notin {"agents", "agent", "persona", "persona.json", "system.md", "user"}
<1>1. /\ Releases \subseteq Nat \ {0} /\ \A v \in Releases : SkillsOf[v] \in Seq(Skills)
      /\ Skills \cap {"agents", "agent", "persona", "persona.json", "system.md", "user"} = {}
  BY AgentRegistryAssumption
<1>2. \A v \in Releases : Elements(SkillsOf[v]) \subseteq Skills
  BY <1>1, AgentElements
<1>3. QED
  BY <1>1, <1>2

LEMMA AgentFiles ==
  /\ PackageFiles = {"agent", "persona.json", "system.md"} \cup Skills
  /\ "user" \notin PackageFiles /\ Files = PackageFiles \cup {"user"}
  /\ \A a \in Assets : FilesOf(a) \subseteq PackageFiles
  /\ FilesOf("persona") = {"persona.json", "system.md"} /\ FilesOf("agent") = {"agent"}
  /\ \A s \in Skills : FilesOf(s) = {s}
BY AgentReleases DEF PackageFiles, Files, Assets, FilesOf

LEMMA AgentInstalled ==
  ASSUME NEW v \in {0} \cup Releases
  PROVE  /\ AssetList(v) \in Seq(Assets) /\ (v # 0 => AssetList(v) # <<>>)
         /\ Installed(v) = IF v = 0 THEN {} ELSE {"persona.json", "system.md", "agent"} \cup Elements(SkillsOf[v])
         /\ Installed(v) \subseteq PackageFiles
<1>1. CASE v = 0
  BY <1>1 DEF AssetList, Installed, Elements
<1>2. CASE v # 0
  <2>1. v \in Releases /\ SkillsOf[v] \in Seq(Assets) /\ <<"persona">> \in Seq(Assets) /\ <<"agent">> \in Seq(Assets)
    BY <1>2, AgentReleases DEF Assets
  <2>p. Elements(<<"persona">>) = {"persona"} /\ Elements(<<"agent">>) = {"agent"}
    BY AgentLists
  <2>2. /\ <<"persona">> \o SkillsOf[v] \in Seq(Assets)
        /\ Elements(<<"persona">> \o SkillsOf[v]) = Elements(<<"persona">>) \cup Elements(SkillsOf[v])
    <3>1. \A s, t \in Seq(Assets) : s \o t \in Seq(Assets) /\ Elements(s \o t) = Elements(s) \cup Elements(t)
      BY AgentJoined
    <3>2. QED
      BY <2>1, <3>1
  <2>s. \A s, t \in Seq(Assets) : s \o t \in Seq(Assets) /\ Elements(s \o t) = Elements(s) \cup Elements(t)
    BY AgentJoined
  <2>q. /\ (<<"persona">> \o SkillsOf[v]) \o <<"agent">> \in Seq(Assets)
        /\ Elements((<<"persona">> \o SkillsOf[v]) \o <<"agent">>) = Elements(<<"persona">> \o SkillsOf[v]) \cup Elements(<<"agent">>)
    BY <2>1, <2>2, <2>s
  <2>r. AssetList(v) = (<<"persona">> \o SkillsOf[v]) \o <<"agent">>
    BY <1>2 DEF AssetList
  <2>3. AssetList(v) \in Seq(Assets) /\ Elements(AssetList(v)) = {"persona"} \cup Elements(SkillsOf[v]) \cup {"agent"}
    BY <2>p, <2>2, <2>q, <2>r
  <2>4. AssetList(v) # <<>>
    BY <2>3 DEF Elements
  <2>5. Installed(v) = {"persona.json", "system.md", "agent"} \cup Elements(SkillsOf[v])
    BY <2>1, <2>3, AgentFiles, AgentReleases DEF Installed
  <2>6. QED
    BY <1>2, <2>1, <2>3, <2>4, <2>5, AgentReleases, AgentFiles
<1>3. QED
  BY <1>1, <1>2

\* What is due of a list: the files of its first asset, and those of the rest.
LEMMA AgentDue ==
  ASSUME NEW todo \in Seq(Assets)
  PROVE  /\ UNION {FilesOf(a) : a \in Elements(todo)} \subseteq PackageFiles
         /\ todo = <<>> => UNION {FilesOf(a) : a \in Elements(todo)} = {}
         /\ todo # <<>> =>
              /\ Head(todo) \in Assets /\ Tail(todo) \in Seq(Assets) /\ FilesOf(Head(todo)) \subseteq PackageFiles
              /\ UNION {FilesOf(a) : a \in Elements(todo)}
                   = FilesOf(Head(todo)) \cup UNION {FilesOf(a) : a \in Elements(Tail(todo))}
<1>1. Elements(todo) \subseteq Assets
  BY AgentElements
<1>2. UNION {FilesOf(a) : a \in Elements(todo)} \subseteq PackageFiles
  BY <1>1, AgentFiles
<1>3. todo = <<>> => Elements(todo) = {}
  BY DEF Elements
<1>4. ASSUME todo # <<>>
      PROVE  /\ Head(todo) \in Assets /\ Tail(todo) \in Seq(Assets) /\ FilesOf(Head(todo)) \subseteq PackageFiles
             /\ UNION {FilesOf(a) : a \in Elements(todo)}
                   = FilesOf(Head(todo)) \cup UNION {FilesOf(a) : a \in Elements(Tail(todo))}
  <2>1. /\ Head(todo) \in Assets /\ Tail(todo) \in Seq(Assets)
        /\ Elements(todo) = {Head(todo)} \cup Elements(Tail(todo))
    BY <1>4, AgentElements
  <2>2. QED
    BY <2>1, AgentFiles
<1>5. QED
  BY <1>2, <1>3, <1>4

-----------------------------------------------------------------------------
(* Agents: the steps of a package operation, on the disk *)

PackageHolds == PackageTypes /\ OperationInOrder /\ PersonaLast

LEMMA AgentInstallPackage ==
  ASSUME PackageHolds, NEW v \in Releases, InstallPackage(v)
  PROVE  PackageHolds'
<1>1. /\ writer.step = "idle" /\ writer' = [step |-> "remove", to |-> v, todo |-> AssetList(installed)]
      /\ UNCHANGED <<files, userSkills, installed, killed>>
  BY DEF InstallPackage
<1>2. /\ AssetList(installed) \in Seq(Assets) /\ v # 0
      /\ Due' = Installed(installed)
  BY <1>1, AgentInstalled, AgentReleases DEF PackageHolds, PackageTypes, Due, Installed
<1>3. PackageTypes'
  BY <1>1, <1>2 DEF PackageHolds, PackageTypes
<1>4. OperationInOrder'
  BY <1>1, <1>2 DEF PackageHolds, OperationInOrder
<1>5. PersonaLast'
  BY <1>1 DEF PackageHolds, PersonaLast
<1>6. QED
  BY <1>3, <1>4, <1>5 DEF PackageHolds

LEMMA AgentRemoveFiles ==
  ASSUME PackageHolds, RemoveFiles
  PROVE  PackageHolds' /\ writer'.to = writer.to /\ writer'.step # "idle" /\ (writer.step # "remove" => writer'.step # "remove")
<1> DEFINE there == {f \in FilesOf(Head(writer.todo)) : files[f] # 0}
           due(todo) == UNION {FilesOf(a) : a \in Elements(todo)}
<1>1. /\ writer.step \in {"remove", "clear"} /\ writer.todo # <<>> /\ writer.todo \in Seq(Assets)
      /\ writer \in [step : {"idle", "remove", "clear", "copy", "register"}, to : {0} \cup Releases, todo : Seq(Assets)]
      /\ UNCHANGED <<userSkills, installed, killed>>
  BY DEF RemoveFiles, PackageHolds, PackageTypes
<1>2. /\ Head(writer.todo) \in Assets /\ Tail(writer.todo) \in Seq(Assets) /\ FilesOf(Head(writer.todo)) \subseteq PackageFiles
      /\ Elements(writer.todo) = {Head(writer.todo)} \cup Elements(Tail(writer.todo))
      /\ Due = FilesOf(Head(writer.todo)) \cup due(Tail(writer.todo)) /\ Due \subseteq PackageFiles
  BY <1>1, AgentDue, AgentElements DEF Due
<1>3. CASE there = {} /\ writer.step = "clear"
  <2>1. writer' = [writer EXCEPT !.step = "copy"] /\ UNCHANGED files
    BY <1>3 DEF RemoveFiles
  <2>2. writer'.step = "copy" /\ writer'.to = writer.to /\ writer'.todo = writer.todo /\ Due' = Due
    BY <1>1, <2>1 DEF Due
  <2>3. PackageTypes'
    BY <1>1, <1>3, <2>1, <2>2 DEF PackageHolds, PackageTypes
  <2>4. OperationInOrder'
    BY <1>1, <1>3, <2>1, <2>2 DEF PackageHolds, OperationInOrder
  <2>5. PersonaLast'
    <3>1. Head(writer.todo) = "persona" => files["persona.json"] = 0
      BY <1>3, AgentFiles
    <3>2. QED
      BY <2>1, <2>2, <3>1 DEF PackageHolds, PersonaLast
  <2>6. QED
    BY <2>2, <2>3, <2>4, <2>5 DEF PackageHolds
<1>4. CASE there = {} /\ writer.step = "remove"
  <2>1. writer' = [writer EXCEPT !.todo = Tail(@)] /\ UNCHANGED files
    BY <1>4 DEF RemoveFiles
  <2>2. writer'.step = "remove" /\ writer'.to = writer.to /\ writer'.todo = Tail(writer.todo) /\ Due' = due(Tail(writer.todo))
    BY <1>1, <1>4, <2>1 DEF Due
  <2>3. PackageTypes'
    BY <1>1, <1>2, <1>4, <2>1, <2>2 DEF PackageHolds, PackageTypes
  <2>4. OperationInOrder'
    <3>1. \A f \in FilesOf(Head(writer.todo)) : files[f] = 0
      BY <1>4
    <3>2. \A f \in Due : files[f] # 0 => f \in Due'
      BY <1>2, <2>2, <3>1
    <3>3. QED
      BY <1>1, <1>4, <2>1, <2>2, <3>2 DEF PackageHolds, OperationInOrder
  <2>5. PersonaLast'
    BY <2>1, <2>2 DEF PackageHolds, PersonaLast
  <2>6. QED
    BY <1>4, <2>2, <2>3, <2>4, <2>5 DEF PackageHolds
<1>5. CASE there # {}
  <2>1. PICK f \in there : files' = [files EXCEPT ![f] = 0] /\ UNCHANGED writer
    BY <1>5 DEF RemoveFiles
  <2>2. f \in PackageFiles /\ f # "user" /\ f \in Due /\ files[f] # 0
    BY <1>2, <2>1, AgentFiles
  <2>3. PackageTypes'
    BY <1>1, <2>1, <2>2, AgentFiles DEF PackageHolds, PackageTypes, Contents
  <2>4. OperationInOrder'
    <3>1. Due' = Due /\ writer' = writer
      BY <2>1 DEF Due
    <3>2. \A g \in PackageFiles : files'[g] = IF g = f THEN 0 ELSE files[g]
      BY <2>1, <2>2, AgentFiles DEF PackageHolds, PackageTypes
    <3>3. QED
      BY <1>1, <2>2, <3>1, <3>2 DEF PackageHolds, OperationInOrder
  <2>5. PersonaLast'
    BY <1>1, <2>1, <2>2, AgentFiles DEF PackageHolds, PackageTypes, PersonaLast
  <2>6. QED
    BY <1>1, <2>1, <2>3, <2>4, <2>5 DEF PackageHolds
<1>6. QED
  BY <1>1, <1>3, <1>4, <1>5

LEMMA AgentBeginAssets ==
  ASSUME PackageHolds, BeginAssets
  PROVE  PackageHolds' /\ writer'.to = writer.to /\ writer'.step = "clear"
<1>1. /\ writer.step = "remove" /\ writer.todo = <<>>
      /\ writer' = [writer EXCEPT !.step = "clear", !.todo = AssetList(writer.to)]
      /\ UNCHANGED <<files, userSkills, installed, killed>>
      /\ writer \in [step : {"idle", "remove", "clear", "copy", "register"}, to : {0} \cup Releases, todo : Seq(Assets)]
  BY DEF BeginAssets, PackageHolds, PackageTypes
<1>2. writer'.step = "clear" /\ writer'.to = writer.to /\ writer'.todo = AssetList(writer.to)
  BY <1>1
<1>3. writer.to # 0 /\ writer.to \in {0} \cup Releases
  BY <1>1 DEF PackageHolds, PackageTypes
<1>4. AssetList(writer.to) \in Seq(Assets) /\ AssetList(writer.to) # <<>> /\ Due = {} /\ Due' = Installed(writer.to)
  BY <1>1, <1>2, <1>3, AgentInstalled, AgentDue DEF Due, Installed
<1>5. PackageTypes'
  BY <1>1, <1>2, <1>3, <1>4 DEF PackageHolds, PackageTypes
<1>6. OperationInOrder'
  <2>1. ~killed => \A f \in PackageFiles : files[f] = 0
    BY <1>1, <1>4 DEF PackageHolds, OperationInOrder
  <2>2. QED
    BY <1>1, <1>2, <1>4, <2>1 DEF OperationInOrder
<1>7. PersonaLast'
  BY <1>1, <1>2 DEF PackageHolds, PersonaLast
<1>8. QED
  BY <1>2, <1>5, <1>6, <1>7 DEF PackageHolds

LEMMA AgentCopyFile ==
  ASSUME PackageHolds, NEW f \in Files, CopyFile(f)
  PROVE  /\ PackageHolds' /\ UNCHANGED files["user"]
         /\ (writer'.step # "idle" /\ writer'.to = writer.to /\ writer'.step # "remove")
<1> DEFINE due(todo) == UNION {FilesOf(a) : a \in Elements(todo)}
           complete == \A g \in FilesOf(Head(writer.todo)) : files'[g] = writer.to
<1>1. /\ writer.step = "copy" /\ f \in FilesOf(Head(writer.todo)) /\ writer.todo \in Seq(Assets) /\ writer.todo # <<>>
      /\ writer \in [step : {"idle", "remove", "clear", "copy", "register"}, to : {0} \cup Releases, todo : Seq(Assets)]
      /\ writer.to \in Releases /\ Elements(writer.todo) \subseteq Elements(AssetList(writer.to))
      /\ UNCHANGED <<userSkills, installed, killed>>
  BY DEF CopyFile, PackageHolds, PackageTypes
<1>2. /\ Head(writer.todo) \in Assets /\ Tail(writer.todo) \in Seq(Assets) /\ FilesOf(Head(writer.todo)) \subseteq PackageFiles
      /\ Elements(writer.todo) = {Head(writer.todo)} \cup Elements(Tail(writer.todo))
      /\ (Len(writer.todo) = 1 <=> Tail(writer.todo) = <<>>)
      /\ Due = FilesOf(Head(writer.todo)) \cup due(Tail(writer.todo))
  BY <1>1, AgentDue, AgentElements DEF Due
<1>3. f \in PackageFiles /\ f # "user" /\ f \in Installed(writer.to)
  BY <1>1, <1>2, AgentFiles DEF Installed
<1>4. PICK x \in {writer.to, -writer.to} :
        /\ files' = [files EXCEPT ![f] = x]
        /\ f = "persona.json" /\ x > 0 => files["system.md"] = writer.to
        /\ x < 0 => files[f] = 0
  BY <1>1, AgentReleases DEF CopyFile
<1>5. /\ writer.to \in Nat /\ writer.to > 0 /\ x \in Contents /\ x \in Int
      /\ \A g \in Files : files'[g] = IF g = f THEN x ELSE files[g]
      /\ files' \in [Files -> Int]
  BY <1>1, <1>3, <1>4, AgentReleases DEF PackageHolds, PackageTypes, Contents
<1>6. /\ writer' = IF complete THEN [writer EXCEPT !.todo = Tail(@), !.step = IF Len(writer.todo) = 1 THEN "register" ELSE "clear"]
                   ELSE writer
  BY DEF CopyFile
<1>7. /\ writer'.to = writer.to /\ writer'.step \in {"clear", "copy", "register"}
      /\ writer' \in [step : {"idle", "remove", "clear", "copy", "register"}, to : {0} \cup Releases, todo : Seq(Assets)]
      /\ IF complete THEN /\ writer'.todo = Tail(writer.todo)
                          /\ writer'.step = IF Tail(writer.todo) = <<>> THEN "register" ELSE "clear"
         ELSE writer'.todo = writer.todo /\ writer'.step = "copy"
  BY <1>1, <1>2, <1>6
<1>8. PackageTypes'
  <2>1. files'["user"] = files["user"] /\ \A g \in PackageFiles : files'[g] \in Contents
    BY <1>3, <1>5, AgentFiles DEF PackageHolds, PackageTypes
  <2>2. Elements(writer'.todo) \subseteq Elements(AssetList(writer.to))
    BY <1>1, <1>2, <1>7
  <2>3. writer'.step \in {"clear", "copy"} => writer'.todo # <<>>
    BY <1>1, <1>7
  <2>4. writer'.step = "register" => writer'.todo = <<>>
    BY <1>7
  <2>5. QED
    BY <1>1, <1>5, <1>7, <2>1, <2>2, <2>3, <2>4 DEF PackageHolds, PackageTypes
<1>9. OperationInOrder'
  <2>1. SUFFICES ASSUME ~killed, NEW g \in PackageFiles
                 PROVE  /\ files'[g] \in {0, writer.to, -writer.to}
                        /\ files'[g] # 0 => g \in Installed(writer.to)
                        /\ g \in Installed(writer.to) \ Due' => files'[g] = writer.to
    BY <1>1, <1>7 DEF OperationInOrder
  <2>2. g \in Files /\ files'[g] = IF g = f THEN x ELSE files[g]
    BY <1>5, AgentFiles
  <2>3. /\ files[g] \in {0, writer.to, -writer.to}
        /\ files[g] # 0 => g \in Installed(writer.to)
        /\ g \in Installed(writer.to) \ Due => files[g] = writer.to
    BY <1>1, <2>1 DEF PackageHolds, OperationInOrder
  <2>4. g \in Installed(writer.to) \ Due' => files'[g] = writer.to
    <3>1. CASE complete
      <4>1. Due' = due(Tail(writer.todo))
        BY <1>7, <3>1 DEF Due
      <4>2. g \in FilesOf(Head(writer.todo)) => files'[g] = writer.to
        BY <3>1
      <4>3. QED
        BY <1>1, <1>2, <2>2, <2>3, <4>1, <4>2
    <3>2. CASE ~complete
      <4>1. Due' = Due
        BY <1>7, <3>2 DEF Due
      <4>2. f \in Due
        BY <1>1, <1>2
      <4>3. QED
        BY <2>2, <2>3, <4>1, <4>2
    <3>3. QED
      BY <3>1, <3>2
  <2>5. QED
    BY <1>3, <1>4, <2>2, <2>3, <2>4
<1>10. PersonaLast'
  <2>1. "system.md" \in Files /\ "persona.json" \in Files
    BY DEF Files
  <2>2. CASE f = "system.md"
    <3>1. Head(writer.todo) = "persona"
      BY <1>1, <1>2, <2>2, AgentReleases DEF FilesOf, Assets
    <3>2. files["persona.json"] > 0 => files["system.md"] = writer.to
      BY <1>1, <3>1 DEF PackageHolds, PersonaLast
    <3>3. x < 0 => files["system.md"] = 0
      BY <1>4, <2>2
    <3>4. files'["persona.json"] = files["persona.json"] /\ files'["system.md"] = x
      BY <1>5, <2>1, <2>2
    <3>5. files["persona.json"] > 0 => x > 0
      BY <1>4, <1>5, <3>2, <3>3
    <3>6. files["persona.json"] \in Int
      BY <2>1 DEF PackageHolds, PackageTypes
    <3>7. x > 0 => x = writer.to
      BY <1>4, <1>5
    <3>8. QED
      BY <1>5, <1>7, <3>4, <3>5, <3>6, <3>7 DEF PersonaLast
  <2>3. CASE f = "persona.json"
    <3>1. files'["persona.json"] = x /\ files'["system.md"] = files["system.md"]
      BY <1>5, <2>1, <2>3
    <3>2. x > 0 => files["system.md"] = writer.to
      BY <1>4, <2>3
    <3>3. QED
      BY <1>5, <1>7, <3>1, <3>2 DEF PersonaLast
  <2>4. CASE f \notin {"system.md", "persona.json"}
    <3>1. files'["persona.json"] = files["persona.json"] /\ files'["system.md"] = files["system.md"]
      BY <1>5, <2>1, <2>4
    <3>2. Head(writer.todo) # "persona"
      BY <1>1, <2>4, AgentFiles
    <3>3. writer'.step = "copy" => writer'.todo = writer.todo
      BY <1>7
    <3>4. QED
      BY <3>1, <3>2, <3>3 DEF PackageHolds, PersonaLast
  <2>5. QED
    BY <2>2, <2>3, <2>4
<1>11. files'["user"] = files["user"]
  BY <1>3, <1>5, AgentFiles
<1>12. QED
  BY <1>7, <1>8, <1>9, <1>10, <1>11 DEF PackageHolds

LEMMA AgentRegisterPackage ==
  ASSUME PackageHolds, RegisterPackage
  PROVE  PackageHolds'
<1>1. /\ writer.step = "register" /\ installed' = writer.to /\ writer' = NoOp /\ UNCHANGED <<files, userSkills, killed>>
      /\ writer.to \in Releases /\ writer.todo = <<>>
  BY DEF RegisterPackage, PackageHolds, PackageTypes
<1>2. Due = {}
  BY <1>1, AgentDue DEF Due, PackageHolds, PackageTypes
<1>3. NoOp \in [step : {"idle", "remove", "clear", "copy", "register"}, to : {0} \cup Releases, todo : Seq(Assets)] /\ NoOp.step = "idle"
  BY DEF NoOp
<1>4. PackageTypes'
  BY <1>1, <1>3 DEF PackageHolds, PackageTypes
<1>5. OperationInOrder'
  BY <1>1, <1>2, <1>3 DEF PackageHolds, OperationInOrder
<1>6. PersonaLast'
  BY <1>1, <1>3 DEF PackageHolds, PersonaLast
<1>7. QED
  BY <1>4, <1>5, <1>6 DEF PackageHolds

LEMMA AgentKillOperation ==
  ASSUME PackageHolds, KillOperation
  PROVE  PackageHolds'
<1>1. writer' = NoOp /\ killed' = TRUE /\ UNCHANGED <<files, userSkills, installed>>
  BY DEF KillOperation
<1>2. NoOp \in [step : {"idle", "remove", "clear", "copy", "register"}, to : {0} \cup Releases, todo : Seq(Assets)] /\ NoOp.step = "idle"
  BY DEF NoOp
<1>3. QED
  BY <1>1, <1>2 DEF PackageHolds, PackageTypes, OperationInOrder, PersonaLast

-----------------------------------------------------------------------------
(* Agents: calls that meet a writer *)

LEMMA AgentActive ==
  ASSUME CallsHold, NEW c \in Calls
  PROVE  /\ calls[c] \in {NoCall} \cup CallRecords /\ CallHolds(calls[c]) /\ NoCall.step = "idle"
         /\ Active(c) => calls[c] \in CallRecords /\ calls[c].step \in {"read", "write"}
         /\ calls[c].step # "idle" => calls[c] \in CallRecords
         /\ calls[c].step \in {"idle", "read", "write", "done", "failed"}
BY DEF CallsHold, Active, NoCall, CallRecords

\* A call under way that meets a writer, and all that it keeps
MetOnce(r, to) == [r EXCEPT !.overlap = @ + 1, !.to = to]

LEMMA AgentMetOnce ==
  ASSUME NEW r \in CallRecords, r.step \in {"read", "write"}, CallHolds(r), NEW to \in {0} \cup Releases
  PROVE  LET m == MetOnce(r, to) IN
         /\ m \in CallRecords /\ m.overlap = r.overlap + 1 /\ m.overlap \in Nat \ {0} /\ m.to = to
         /\ m.step = r.step /\ m.kind = r.kind /\ m.seen = r.seen /\ m.version = r.version /\ m.todo = r.todo
         /\ CallHolds(m)
         /\ r.overlap # 0 => SawOneSeam(m)
         /\ to = 0 => SawOneSeam(m)
         /\ r.overlap = 0 /\ r.whole =>
              SawOneSeam(m) /\ (to # 0 /\ to # r.version => \A i \in DOMAIN m.seen : m.seen[i] \notin {to, -to})
<1> DEFINE m == MetOnce(r, to)
<1>1. /\ m \in CallRecords /\ m.overlap = r.overlap + 1 /\ m.overlap \in Nat \ {0} /\ m.to = to
      /\ m.step = r.step /\ m.kind = r.kind /\ m.seen = r.seen /\ m.version = r.version /\ m.todo = r.todo
  <2>1. r.overlap \in Nat /\ r.overlap + 1 \in Nat \ {0}
    BY DEF CallRecords
  <2>2. m \in CallRecords
    BY <2>1 DEF MetOnce, CallRecords
  <2>3. /\ m.overlap = r.overlap + 1 /\ m.to = to
        /\ m.step = r.step /\ m.kind = r.kind /\ m.seen = r.seen /\ m.version = r.version /\ m.todo = r.todo
    BY DEF MetOnce, CallRecords
  <2>4. QED
    BY <2>1, <2>2, <2>3
<1>2. /\ r.seen \in Seq(Int \ {0}) /\ r.version \in {0} \cup Releases /\ r.overlap \in Nat
  BY DEF CallRecords
<1>3. \A i \in DOMAIN r.seen : r.seen[i] \in Int \ {0}
  BY <1>2
<1>4. CallHolds(m)
  <2>1. m.step = "read" => Reads(m)
    BY <1>1 DEF CallHolds, Reads
  <2>2. m.step = "write" => m.kind = "create"
    BY <1>1 DEF CallHolds
  <2>3. Undisturbed(m) /\ SawWhole(m)
    BY <1>1 DEF Undisturbed, SawWhole
  <2>4. QED
    BY <1>1, <2>1, <2>2, <2>3 DEF CallHolds
<1>5. r.overlap # 0 => SawOneSeam(m)
  BY <1>1, <1>2 DEF SawOneSeam
<1>6. to = 0 => SawOneSeam(m)
  BY <1>1, <1>3 DEF SawOneSeam
<1>7. ASSUME r.overlap = 0, r.whole
      PROVE  SawOneSeam(m) /\ (to # 0 /\ to # r.version => \A i \in DOMAIN m.seen : m.seen[i] \notin {to, -to})
  <2>1. \A i \in DOMAIN r.seen : r.seen[i] = r.version
    BY <1>7 DEF CallHolds, Undisturbed
  <2>2. to # 0 /\ to # r.version => \A i \in DOMAIN m.seen : m.seen[i] \notin {to, -to}
    BY <1>1, <1>2, <1>3, <2>1, AgentReleases
  <2>3. SawOneSeam(m)
    BY <1>1, <1>3, <1>6, <2>2 DEF SawOneSeam
  <2>4. QED
    BY <2>2, <2>3
<1>8. QED
  BY <1>1, <1>4, <1>5, <1>6, <1>7

\* Those that a new writer meets
LEMMA AgentMet ==
  ASSUME CallsHold, NEW others \in SUBSET Calls, NEW to \in {0} \cup Releases,
         \A c \in others : Active(c) /\ calls[c].overlap = 0 /\ ~killed => calls[c].whole
  PROVE  LET met == Met(others, to) IN
         /\ met \in [Calls -> {NoCall} \cup CallRecords]
         /\ \A c \in Calls : /\ CallHolds(met[c]) /\ (~killed => SawOneSeam(met[c]))
                             /\ met[c].step = calls[c].step
                             /\ ~(c \in others /\ Active(c)) => met[c] = calls[c]
                             /\ c \in others /\ Active(c) => met[c] = MetOnce(calls[c], to)
<1> DEFINE met == Met(others, to)
<1>1. \A c \in Calls : met[c] = IF c \in others /\ Active(c) THEN MetOnce(calls[c], to) ELSE calls[c]
  BY DEF Met, MetOnce
<1>2. ASSUME NEW c \in Calls
      PROVE  /\ met[c] \in {NoCall} \cup CallRecords
             /\ CallHolds(met[c]) /\ (~killed => SawOneSeam(met[c]))
             /\ met[c].step = calls[c].step
  <2>1. CASE c \in others /\ Active(c)
    <3>1. calls[c] \in CallRecords /\ calls[c].step \in {"read", "write"} /\ CallHolds(calls[c])
      BY <2>1, AgentActive
    <3>2. ~killed => calls[c].whole \/ calls[c].overlap # 0
      BY <2>1
    <3>3. met[c] = MetOnce(calls[c], to)
      BY <1>1, <2>1
    <3>4. /\ MetOnce(calls[c], to) \in CallRecords /\ MetOnce(calls[c], to).step = calls[c].step
          /\ CallHolds(MetOnce(calls[c], to))
          /\ calls[c].overlap # 0 => SawOneSeam(MetOnce(calls[c], to))
          /\ calls[c].overlap = 0 /\ calls[c].whole => SawOneSeam(MetOnce(calls[c], to))
      BY <3>1, AgentMetOnce
    <3>5. QED
      BY <3>2, <3>3, <3>4
  <2>2. CASE ~(c \in others /\ Active(c))
    BY <1>1, <2>2 DEF CallsHold
  <2>3. QED
    BY <2>1, <2>2
<1>3. met \in [Calls -> {NoCall} \cup CallRecords]
  BY <1>2 DEF Met
<1>4. QED
  BY <1>1, <1>2, <1>3

-----------------------------------------------------------------------------
(* Agents: what a package operation leaves of the calls *)

LEMMA AgentsMeetInstall ==
  ASSUME AgentsInd, NEW v \in Releases, InstallPackage(v)
  PROVE  OneCreates' /\ CallsHold' /\ \A c \in Calls : Unmet(c)' /\ OneMet(c)'
<1>1. /\ writer.step = "idle" /\ calls' = Met(Calls, v) /\ UNCHANGED <<files, installed, killed>>
      /\ writer'.step = "remove" /\ writer'.to = v /\ v # 0 /\ v \in {0} \cup Releases
  BY AgentReleases DEF InstallPackage
<1>2. \A c \in Calls : Active(c) /\ calls[c].overlap = 0 /\ ~killed => calls[c].whole
  BY DEF AgentsInd, Unmet
<1>3. CallsHold
  BY DEF AgentsInd
<1>4. /\ calls' \in [Calls -> {NoCall} \cup CallRecords]
      /\ \A c \in Calls : /\ CallHolds(calls'[c]) /\ (~killed => SawOneSeam(calls'[c]))
                          /\ calls'[c].step = calls[c].step
                          /\ ~Active(c) => calls'[c] = calls[c]
                          /\ Active(c) => calls'[c] = MetOnce(calls[c], v)
  <2>1. Calls \in SUBSET Calls /\ v \in {0} \cup Releases
    BY <1>1
  <2>2. LET met == Met(Calls, v) IN
        /\ met \in [Calls -> {NoCall} \cup CallRecords]
        /\ \A c \in Calls : /\ CallHolds(met[c]) /\ (~killed => SawOneSeam(met[c]))
                            /\ met[c].step = calls[c].step
                            /\ ~(c \in Calls /\ Active(c)) => met[c] = calls[c]
                            /\ c \in Calls /\ Active(c) => met[c] = MetOnce(calls[c], v)
    BY <1>2, <1>3, <2>1, AgentMet
  <2>3. QED
    BY <1>1, <2>2
<1>5. CallsHold'
  BY <1>1, <1>4 DEF CallsHold
<1>6. Writing' = Writing /\ \A c \in Calls : Active(c)' <=> Active(c)
  BY <1>4 DEF Writing, Active
<1>7. ASSUME NEW c \in Calls, Active(c)
      PROVE  LET m == calls'[c] IN
             /\ m.overlap = calls[c].overlap + 1 /\ m.overlap # 0 /\ m.to = v /\ calls[c].overlap \in Nat
             /\ m.kind = calls[c].kind /\ m.version = calls[c].version
             /\ calls[c].overlap = 0 /\ calls[c].whole =>
                   (v # m.version => \A i \in DOMAIN m.seen : m.seen[i] \notin {v, -v})
  <2>1. calls[c] \in CallRecords /\ calls[c].step \in {"read", "write"} /\ CallHolds(calls[c])
    BY <1>3, <1>7, AgentActive
  <2>2. calls[c].overlap \in Nat
    BY <2>1 DEF CallRecords
  <2>3. calls'[c] = MetOnce(calls[c], v)
    BY <1>4, <1>7
  <2>4. LET m == MetOnce(calls[c], v) IN
        /\ m.overlap = calls[c].overlap + 1 /\ m.overlap \in Nat \ {0} /\ m.to = v
        /\ m.kind = calls[c].kind /\ m.version = calls[c].version
        /\ calls[c].overlap = 0 /\ calls[c].whole =>
              (v # 0 /\ v # calls[c].version => \A i \in DOMAIN m.seen : m.seen[i] \notin {v, -v})
    BY <1>1, <2>1, AgentMetOnce
  <2>5. QED
    BY <1>1, <2>2, <2>3, <2>4
<1>8. OneCreates'
  BY <1>1, <1>6, <1>7 DEF AgentsInd, OneCreates
<1>9. \A c \in Calls : Unmet(c)'
  BY <1>6, <1>7 DEF Unmet
<1>10. ASSUME NEW c \in Calls
       PROVE  OneMet(c)'
  <2>1. SUFFICES ASSUME ~killed, Active(c), calls'[c].overlap = 1, calls'[c].to # 0
                 PROVE  /\ IF writer'.step = "idle" THEN installed' = calls'[c].to
                           ELSE writer'.to = calls'[c].to /\ installed' = calls'[c].version
                        /\ calls'[c].to # calls'[c].version /\ (\E i \in DOMAIN calls'[c].seen : calls'[c].seen[i] \in {calls'[c].to, -calls'[c].to})
                             => writer'.step # "remove"
    BY <1>1, <1>6 DEF OneMet
  <2>2. calls[c].overlap = 0 /\ calls[c].whole
    BY <1>2, <1>7, <2>1
  <2>3. installed = calls[c].version
    BY <2>1, <2>2 DEF AgentsInd, Unmet
  <2>4. QED
    BY <1>1, <1>7, <2>1, <2>2, <2>3
<1>11. QED
  BY <1>5, <1>8, <1>9, <1>10

\* The steps of an operation that is under way
LEMMA AgentsDuringOperation ==
  ASSUME AgentsInd, writer.step # "idle", UNCHANGED <<installed, calls, killed, files["user"]>>,
         writer'.step # "idle", writer'.to = writer.to, writer.step # "remove" => writer'.step # "remove"
  PROVE  OneCreates' /\ CallsHold' /\ \A c \in Calls : Unmet(c)' /\ OneMet(c)'
<1>1. Writing' = Writing /\ \A c \in Calls : Active(c)' <=> Active(c)
  BY DEF Writing, Active
<1>2. OneCreates'
  BY <1>1 DEF AgentsInd, OneCreates
<1>3. CallsHold'
  BY DEF AgentsInd, CallsHold
<1>4. \A c \in Calls : Unmet(c)'
  BY <1>1 DEF AgentsInd, Unmet
<1>5. \A c \in Calls : OneMet(c)'
  BY <1>1 DEF AgentsInd, OneMet
<1>6. QED
  BY <1>2, <1>3, <1>4, <1>5

LEMMA AgentsAtEnd ==
  ASSUME AgentsInd, writer.step # "idle", UNCHANGED <<calls, files>>, writer' = NoOp, installed' \in {installed, writer.to},
         killed' \/ (killed' = killed /\ installed' = writer.to)
  PROVE  OneCreates' /\ CallsHold' /\ \A c \in Calls : Unmet(c)' /\ OneMet(c)'
<1>1. Writing' = Writing /\ writer'.step = "idle" /\ \A c \in Calls : Active(c)' <=> Active(c)
  BY DEF Writing, Active, NoOp
<1>2. OneCreates'
  BY <1>1 DEF AgentsInd, OneCreates
<1>3. CallsHold'
  BY DEF AgentsInd, CallsHold
<1>4. \A c \in Calls : Unmet(c)'
  BY <1>1 DEF AgentsInd, Unmet
<1>5. \A c \in Calls : OneMet(c)'
  BY <1>1 DEF AgentsInd, OneMet
<1>6. QED
  BY <1>2, <1>3, <1>4, <1>5

-----------------------------------------------------------------------------
(* Agents: what a call reads *)

Readers == {"context", "turn", "turn again", "create"}
TodoSet == Seq({"agents", "persona.json", "system.md"} \cup Skills)

\* What is still to read, by what comes next
LEMMA AgentReading ==
  ASSUME NEW r \in CallRecords, Reads(r)
  PROVE  /\ r.todo # <<>> /\ Head(r.todo) \in {"agents", "persona.json", "system.md"} \cup Skills
         /\ Head(r.todo) = "agents" =>
              \/ r.kind = "get" /\ r.todo = <<"agents">>
              \/ r.kind \in Readers \ {"create"} /\ r.todo = Context
         /\ Head(r.todo) = "persona.json" =>
              \/ r.kind = "personas" /\ Tail(r.todo) = <<>>
              \/ r.kind \in Readers /\ \E q \in Seq(Skills) : Tail(r.todo) = <<"system.md">> \o q
         /\ Head(r.todo) = "system.md" => r.kind \in Readers /\ Tail(r.todo) \in Seq(Skills)
         /\ Head(r.todo) \in Skills => r.kind \in Readers \cup {"skills"} /\ Tail(r.todo) \in Seq(Skills)
<1>1. PICK q \in Seq(Skills) :
        \/ r.kind \in {"context", "turn", "turn again"} /\ r.todo = Context
        \/ r.kind \in {"context", "turn", "turn again", "create"} /\ r.todo = <<"persona.json", "system.md">> \o q
        \/ r.kind \in {"context", "turn", "turn again", "create"} /\ r.todo = <<"system.md">> \o q
        \/ r.kind \in {"context", "turn", "turn again", "create", "skills"} /\ r.todo = q /\ q # <<>>
        \/ r.kind = "get" /\ r.todo = <<"agents">>
        \/ r.kind = "personas" /\ r.todo = <<"persona.json">>
  BY DEF Reads, CanRead
<1>a. /\ <<"persona.json", "system.md">> \o q # <<>> /\ Head(<<"persona.json", "system.md">> \o q) = "persona.json"
      /\ Tail(<<"persona.json", "system.md">> \o q) = <<"system.md">> \o q
      /\ <<"system.md">> \o q # <<>> /\ Head(<<"system.md">> \o q) = "system.md" /\ Tail(<<"system.md">> \o q) = q
  BY AgentAhead
<1>2. "agents" \notin Skills /\ "persona.json" \notin Skills /\ "system.md" \notin Skills
  BY AgentReleases
<1>3. CASE r.kind \in {"context", "turn", "turn again"} /\ r.todo = Context
  <2>1. Context # <<>> /\ Head(Context) = "agents"
    BY DEF Context
  <2>2. QED
    BY <1>2, <1>3, <2>1 DEF Readers
<1>4. CASE r.kind \in {"context", "turn", "turn again", "create"} /\ r.todo = <<"persona.json", "system.md">> \o q
  <2>1. r.todo # <<>> /\ Head(r.todo) = "persona.json" /\ Tail(r.todo) = <<"system.md">> \o q
    BY <1>4, <1>a
  <2>2. QED
    BY <1>2, <1>4, <2>1 DEF Readers
<1>5. CASE r.kind \in {"context", "turn", "turn again", "create"} /\ r.todo = <<"system.md">> \o q
  <2>1. r.todo # <<>> /\ Head(r.todo) = "system.md" /\ Tail(r.todo) = q
    BY <1>5, <1>a
  <2>2. QED
    BY <1>2, <1>5, <2>1 DEF Readers
<1>6. CASE r.kind \in {"context", "turn", "turn again", "create", "skills"} /\ r.todo = q /\ q # <<>>
  <2>1. Head(q) \in Skills /\ Tail(q) \in Seq(Skills)
    BY <1>6, AgentElements
  <2>2. QED
    BY <1>2, <1>6, <2>1 DEF Readers
<1>7. CASE r.kind = "get" /\ r.todo = <<"agents">>
  BY <1>2, <1>7
<1>8. CASE r.kind = "personas" /\ r.todo = <<"persona.json">>
  BY <1>2, <1>8
<1>9. QED
  BY <1>1, <1>3, <1>4, <1>5, <1>6, <1>7, <1>8

\* What a call becomes that has read a file, or cannot
AgentKeeps(r, a) ==
  /\ a.agent = r.agent /\ a.skills = r.skills /\ a.whole = r.whole /\ a.version = r.version
  /\ a.userSkills = r.userSkills /\ a.user = r.user /\ a.overlap = r.overlap /\ a.to = r.to
  /\ a.kind = r.kind \/ (r.kind = "turn" /\ a.kind = "turn again")

\* The call a is r when it has read v.
ReadsOn(r, v, a) ==
  /\ a \in CallRecords /\ AgentKeeps(r, a) /\ a.step \in {"read", "write", "done"}
  /\ a.seen = IF v = 0 THEN r.seen ELSE Append(r.seen, v)
  /\ Tail(r.todo) # <<>> => a.step = "read" /\ a.kind = r.kind /\ a.todo = Tail(r.todo)
  /\ Tail(r.todo) = <<>> /\ r.kind = "create" => a.step = "write" /\ a.kind = "create"
  /\ Tail(r.todo) = <<>> /\ r.kind = "turn" => a.step = "read" /\ a.kind = "turn again" /\ a.todo = Context
  /\ Tail(r.todo) = <<>> /\ r.kind \notin {"create", "turn"} => a.step = "done"

LEMMA AgentTook ==
  ASSUME NEW r \in CallRecords, r.step = "read", r.todo # <<>>, NEW v \in Int, NEW a, a = Took(r, v)
  PROVE  ReadsOn(r, v, a)
<1> DEFINE b == [r EXCEPT !.todo = Tail(@), !.seen = IF v = 0 THEN @ ELSE Append(@, v)]
           seen == IF v = 0 THEN r.seen ELSE Append(r.seen, v)
<1>1. a = Taken(b)
  BY DEF Took
<1>2. r.todo \in TodoSet /\ Tail(r.todo) \in TodoSet
  BY DEF CallRecords, TodoSet
<1>3. seen \in Seq(Int \ {0})
  <2>1. r.seen \in Seq(Int \ {0})
    BY DEF CallRecords
  <2>2. v # 0 => v \in Int \ {0}
    OBVIOUS
  <2>3. QED
    BY <2>1, <2>2, AgentAppended
<1>4. b \in CallRecords
  BY <1>2, <1>3 DEF CallRecords, TodoSet
<1>5. b.todo = Tail(r.todo) /\ b.seen = seen /\ b.step = "read" /\ b.kind = r.kind
  BY DEF CallRecords
<1>6. AgentKeeps(r, b)
  BY DEF CallRecords, AgentKeeps
<1>7. CASE Tail(r.todo) # <<>>
  <2>1. Taken(b) = b
    BY <1>5, <1>7 DEF Taken
  <2>2. QED
    BY <1>1, <1>4, <1>5, <1>6, <1>7, <2>1 DEF ReadsOn
<1>8. CASE Tail(r.todo) = <<>> /\ r.kind = "create"
  <2>1. Taken(b) = [b EXCEPT !.step = "write"]
    BY <1>5, <1>8 DEF Taken
  <2>2. /\ [b EXCEPT !.step = "write"] \in CallRecords /\ [b EXCEPT !.step = "write"].step = "write"
        /\ [b EXCEPT !.step = "write"].kind = b.kind /\ [b EXCEPT !.step = "write"].seen = b.seen
    BY <1>4 DEF CallRecords
  <2>3. AgentKeeps(r, [b EXCEPT !.step = "write"])
    BY <1>4, <1>6 DEF CallRecords, AgentKeeps
  <2>4. QED
    <3>1. a = [b EXCEPT !.step = "write"]
      BY <1>1, <2>1
    <3>2. QED
      BY <1>5, <1>8, <2>2, <2>3, <3>1 DEF ReadsOn
<1>9. CASE Tail(r.todo) = <<>> /\ r.kind = "turn"
  <2> DEFINE t == [b EXCEPT !.kind = "turn again", !.todo = Context]
  <2>1. Taken(b) = t
    BY <1>5, <1>9 DEF Taken
  <2>2. Context \in TodoSet
    BY DEF Context, TodoSet
  <2>3. t \in CallRecords
    <3>1. [b EXCEPT !.kind = "turn again"] \in CallRecords
      BY <1>4 DEF CallRecords, CallKinds
    <3>2. QED
      BY <2>2, <3>1 DEF CallRecords, TodoSet
  <2>4. t.step = b.step /\ t.kind = "turn again" /\ t.seen = b.seen /\ t.todo = Context
    BY <1>4 DEF CallRecords
  <2>5. AgentKeeps(r, t)
    BY <1>4, <1>6, <1>9 DEF CallRecords, AgentKeeps
  <2>6. a = t
    BY <1>1, <2>1
  <2>7. a.step = "read" /\ a.kind = "turn again" /\ a.seen = seen /\ a.todo = Context
    BY <1>5, <2>4, <2>6
  <2>8. a \in CallRecords /\ AgentKeeps(r, a)
    BY <2>3, <2>5, <2>6
  <2> HIDE DEF t, b
  <2>9. QED
    BY <1>9, <2>7, <2>8 DEF ReadsOn
<1>10. CASE Tail(r.todo) = <<>> /\ r.kind \notin {"create", "turn"}
  <2>1. Taken(b) = [b EXCEPT !.step = "done"]
    BY <1>5, <1>10 DEF Taken
  <2>2. /\ [b EXCEPT !.step = "done"] \in CallRecords /\ [b EXCEPT !.step = "done"].step = "done"
        /\ [b EXCEPT !.step = "done"].kind = b.kind /\ [b EXCEPT !.step = "done"].seen = b.seen
    BY <1>4 DEF CallRecords
  <2>3. AgentKeeps(r, [b EXCEPT !.step = "done"])
    BY <1>4, <1>6 DEF CallRecords, AgentKeeps
  <2>4. QED
    <3>1. a = [b EXCEPT !.step = "done"]
      BY <1>1, <2>1
    <3>2. QED
      BY <1>5, <1>10, <2>2, <2>3, <3>1 DEF ReadsOn
<1>11. QED
  BY <1>7, <1>8, <1>9, <1>10

LEMMA AgentFails ==
  ASSUME NEW r \in CallRecords
  PROVE  Fails(r) \in CallRecords /\ AgentKeeps(r, Fails(r)) /\ Fails(r).step = "failed" /\ Fails(r).seen = r.seen /\ Fails(r).kind = r.kind
<1>1. Fails(r) \in CallRecords /\ Fails(r).step = "failed" /\ Fails(r).seen = r.seen /\ Fails(r).kind = r.kind
  BY DEF Fails, CallRecords
<1>2. AgentKeeps(r, Fails(r))
  BY DEF Fails, CallRecords, AgentKeeps
<1>3. QED
  BY <1>1, <1>2

\* What a call asks, and what it finds, are the same after it has read on.
LEMMA AgentKeepsAnswer ==
  ASSUME NEW r \in CallRecords, NEW a \in CallRecords, AgentKeeps(r, a)
  PROVE  (Answerable(a) <=> Answerable(r)) /\ \A f : CanFind(a, f) <=> CanFind(r, f)
<1>1. Answerable(a) <=> Answerable(r)
  BY DEF AgentKeeps, Answerable, Had
<1>2. ASSUME NEW f
      PROVE  CanFind(a, f) <=> CanFind(r, f)
  BY DEF AgentKeeps, CanFind, Had
<1>3. QED
  BY <1>1, <1>2

\* A call that nobody disturbs reads on.
LEMMA AgentTookUndisturbed ==
  ASSUME NEW r \in CallRecords, r.step = "read", r.todo # <<>>, r.overlap = 0, r.whole,
         \A i \in DOMAIN r.seen : r.seen[i] = r.version,
         Answerable(r) <=> \A f \in Elements(Tail(r.todo)) : CanFind(r, f),
         NEW v \in {0, r.version}, NEW a, a = Took(r, v)
  PROVE  Undisturbed(a)
<1>1. v \in Int /\ r.version \in {0} \cup Releases
  BY AgentReleases DEF CallRecords
<1>2. /\ a \in CallRecords /\ AgentKeeps(r, a) /\ a.step \in {"read", "write", "done"}
      /\ a.seen = IF v = 0 THEN r.seen ELSE Append(r.seen, v)
      /\ Tail(r.todo) # <<>> => a.step = "read" /\ a.kind = r.kind /\ a.todo = Tail(r.todo)
      /\ Tail(r.todo) = <<>> /\ r.kind = "create" => a.step = "write" /\ a.kind = "create"
      /\ Tail(r.todo) = <<>> /\ r.kind = "turn" => a.step = "read" /\ a.kind = "turn again" /\ a.todo = Context
      /\ Tail(r.todo) = <<>> /\ r.kind \notin {"create", "turn"} => a.step = "done"
  <2>1. ReadsOn(r, v, a)
    BY <1>1, AgentTook
  <2>2. QED
    BY <2>1 DEF ReadsOn
<1>3. (Answerable(a) <=> Answerable(r)) /\ \A f : CanFind(a, f) <=> CanFind(r, f)
  BY <1>2, AgentKeepsAnswer
<1>4. a.version = r.version
  BY <1>2 DEF AgentKeeps
<1>5. \A i \in DOMAIN a.seen : a.seen[i] = a.version
  <2>1. r.seen \in Seq(Int \ {0})
    BY DEF CallRecords
  <2>2. CASE v = 0
    BY <1>2, <1>4, <2>2
  <2>3. CASE v # 0
    <3>1. v \in Int \ {0} /\ v = r.version
      BY <1>1, <2>3
    <3>2. \A i \in DOMAIN Append(r.seen, v) :
            (i \in DOMAIN r.seen /\ Append(r.seen, v)[i] = r.seen[i]) \/ (i = Len(r.seen) + 1 /\ Append(r.seen, v)[i] = v)
      BY <2>1, <3>1, AgentAppended
    <3>3. a.seen = Append(r.seen, v) /\ a.version = v
      BY <1>2, <1>4, <2>3, <3>1
    <3>4. \A i \in DOMAIN Append(r.seen, v) : Append(r.seen, v)[i] = v
      BY <3>1, <3>2
    <3>5. QED
      BY <3>3, <3>4
  <2>4. QED
    BY <2>2, <2>3
<1>6. CASE Tail(r.todo) # <<>>
  BY <1>2, <1>3, <1>5, <1>6 DEF Undisturbed
<1>7. CASE Tail(r.todo) = <<>>
  <2>1. Elements(Tail(r.todo)) = {}
    BY <1>7 DEF Elements
  <2>2. Answerable(r)
    BY <2>1
  <2>3. CASE r.kind = "turn"
    <3>1. Elements(Context) = {"agents", "persona.json", "system.md"}
      BY DEF Elements, Context
    <3>2. IF r.agent = "user" THEN r.user = 1 /\ Had(r, r.userSkills) ELSE r.version # 0
      BY <2>2, <2>3 DEF Answerable
    <3>3. r.version # 0
      BY <3>2 DEF Had
    <3>4. \A f \in Elements(Context) : CanFind(r, f)
      BY <2>3, <3>1, <3>2, <3>3, AgentReleases DEF CanFind, CallRecords
    <3>5. QED
      BY <1>2, <1>3, <1>5, <1>7, <2>2, <2>3, <3>4 DEF Undisturbed
  <2>4. CASE r.kind # "turn"
    <3>1. a.step \in {"write", "done"}
      BY <1>2, <1>7, <2>4
    <3>2. QED
      BY <1>3, <1>5, <2>2, <3>1 DEF Undisturbed
  <2>5. QED
    BY <2>3, <2>4
<1>8. QED
  BY <1>6, <1>7

LEMMA AgentFailsUndisturbed ==
  ASSUME NEW r \in CallRecords, \A i \in DOMAIN r.seen : r.seen[i] = r.version, ~Answerable(r)
  PROVE  Undisturbed(Fails(r))
<1>1. Fails(r) \in CallRecords /\ AgentKeeps(r, Fails(r)) /\ Fails(r).step = "failed" /\ Fails(r).seen = r.seen
  BY AgentFails
<1>2. ~Answerable(Fails(r))
  BY <1>1, AgentKeepsAnswer
<1>3. Fails(r).version = r.version
  BY <1>1 DEF AgentKeeps
<1>4. QED
  BY <1>1, <1>2, <1>3 DEF Undisturbed

-----------------------------------------------------------------------------
(* Agents: one read of a call *)

\* What the disk is for a call that has met no writer
DiskFor(r) ==
  r.overlap = 0 =>
    /\ Head(r.todo) = "system.md" => files["persona.json"] > 0
    /\ r.whole =>
         /\ files["user"] = r.user /\ r.user # -1 /\ userSkills = r.userSkills
         /\ \A f \in PackageFiles : files[f] = IF f \in Installed(r.version) THEN r.version ELSE 0

\* What has become of r after one read
AfterHolds(r, a) ==
  /\ a \in CallRecords /\ AgentKeeps(r, a)
  /\ a.step = "read" => Reads(a)
  /\ a.step = "write" => a.kind = "create"
  /\ \/ a.seen = r.seen
     \/ \E f \in PackageFiles : \E v \in {files[f], -files[f]} : v # 0 /\ a.seen = Append(r.seen, v)
  /\ a.step = "read" /\ Head(a.todo) = "system.md" => files["persona.json"] > 0
  /\ r.overlap = 0 => SawWhole(a) /\ (r.whole => Undisturbed(a))

\* The files of a package, for such a call
LEMMA AgentDisk ==
  ASSUME PackageHolds, NEW r \in CallRecords, DiskFor(r), NEW f \in PackageFiles
  PROVE  /\ files[f] \in Int /\ files[f] \in Contents /\ r.version \in {0} \cup Releases /\ r.version >= 0
         /\ r.overlap = 0 /\ r.whole =>
              /\ files[f] \in {0, r.version} /\ files[f] >= 0
              /\ files[f] # 0 <=> r.version # 0 /\ (f \in Skills => f \in Elements(SkillsOf[r.version]))
<1>1. files[f] \in Int /\ files[f] \in Contents
  BY AgentFiles DEF PackageHolds, PackageTypes
<1>2. r.version \in {0} \cup Releases /\ r.version >= 0 /\ r.version \in Int
  BY AgentReleases DEF CallRecords
<1>3. ASSUME r.overlap = 0, r.whole
      PROVE  /\ files[f] \in {0, r.version} /\ files[f] >= 0
             /\ files[f] # 0 <=> r.version # 0 /\ (f \in Skills => f \in Elements(SkillsOf[r.version]))
  <2>1. files[f] = IF f \in Installed(r.version) THEN r.version ELSE 0
    BY <1>3 DEF DiskFor
  <2>2. Installed(r.version) = IF r.version = 0 THEN {} ELSE {"persona.json", "system.md", "agent"} \cup Elements(SkillsOf[r.version])
    BY <1>2, AgentInstalled
  <2>3. f \in {"persona.json", "system.md", "agent"} \/ f \in Skills
    BY AgentFiles
  <2>4. f \in Skills => f \notin {"persona.json", "system.md", "agent"}
    BY AgentReleases
  <2>5. QED
    BY <1>2, <2>1, <2>2, <2>3, <2>4
<1>4. QED
  BY <1>1, <1>2, <1>3

\* What a call that has met no writer has read so far
ReadsWell(r) ==
  r.overlap = 0 => /\ \A i \in DOMAIN r.seen : r.seen[i] > 0
                   /\ r.whole => \A i \in DOMAIN r.seen : r.seen[i] = r.version

LEMMA AgentReadsWell ==
  ASSUME NEW r \in CallRecords, r.step = "read", CallHolds(r)
  PROVE  ReadsWell(r)
BY DEF CallHolds, SawWhole, Undisturbed, ReadsWell

LEMMA AgentReadsOn ==
  ASSUME NEW r \in CallRecords, r.step = "read", r.todo # <<>>, ReadsWell(r), NEW v \in Int, NEW a, a = Took(r, v),
         v # 0 => \E f \in PackageFiles : v \in {files[f], -files[f]},
         Tail(r.todo) # <<>> => CanRead(r.kind, Tail(r.todo)) /\ (Head(Tail(r.todo)) = "system.md" => files["persona.json"] > 0),
         r.overlap = 0 => v >= 0,
         r.overlap = 0 /\ r.whole =>
           v \in {0, r.version} /\ (Answerable(r) <=> \A f \in Elements(Tail(r.todo)) : CanFind(r, f))
  PROVE  AfterHolds(r, a)
<1>1. ReadsOn(r, v, a)
  BY AgentTook
<1>2. a \in CallRecords /\ AgentKeeps(r, a) /\ a.step \in {"read", "write", "done"}
  BY <1>1 DEF ReadsOn
<1>3. a.seen = IF v = 0 THEN r.seen ELSE Append(r.seen, v)
  BY <1>1 DEF ReadsOn
<1>4. a.step = "read" => Reads(a) /\ (Head(a.todo) = "system.md" => files["persona.json"] > 0)
  <2>1. CASE Tail(r.todo) # <<>>
    BY <1>1, <2>1 DEF ReadsOn, Reads
  <2>2. CASE Tail(r.todo) = <<>> /\ r.kind = "turn"
    <3>1. <<>> \in Seq(Skills) /\ Head(Context) = "agents"
      BY DEF Context
    <3>2. CanRead("turn again", Context)
      BY <3>1 DEF CanRead
    <3>3. QED
      BY <1>1, <2>2, <3>1, <3>2 DEF ReadsOn, Reads
  <2>3. CASE Tail(r.todo) = <<>> /\ r.kind # "turn"
    BY <1>1, <2>3 DEF ReadsOn
  <2>4. QED
    BY <2>1, <2>2, <2>3
<1>5. a.step = "write" => a.kind = "create"
  BY <1>1 DEF ReadsOn
<1>6. \/ a.seen = r.seen
      \/ \E f \in PackageFiles : \E w \in {files[f], -files[f]} : w # 0 /\ a.seen = Append(r.seen, w)
  BY <1>3
<1>7. r.overlap = 0 => SawWhole(a)
  <2>1. SUFFICES ASSUME r.overlap = 0
                 PROVE  \A i \in DOMAIN a.seen : a.seen[i] > 0
    BY DEF SawWhole
  <2>2. r.seen \in Seq(Int \ {0}) /\ \A i \in DOMAIN r.seen : r.seen[i] > 0
    BY <2>1 DEF ReadsWell, CallRecords
  <2>3. CASE v # 0
    <3>1. v \in Int \ {0} /\ v > 0
      BY <2>1, <2>3
    <3>2. \A i \in DOMAIN Append(r.seen, v) :
            (i \in DOMAIN r.seen /\ Append(r.seen, v)[i] = r.seen[i]) \/ (i = Len(r.seen) + 1 /\ Append(r.seen, v)[i] = v)
      BY <2>2, <3>1, AgentAppended
    <3>3. QED
      BY <1>3, <2>2, <2>3, <3>1, <3>2
  <2>4. QED
    BY <1>3, <2>2, <2>3
<1>8. r.overlap = 0 /\ r.whole => Undisturbed(a)
  BY AgentTookUndisturbed DEF ReadsWell
<1>9. QED
  BY <1>2, <1>4, <1>5, <1>6, <1>7, <1>8 DEF AfterHolds

LEMMA AgentCannotRead ==
  ASSUME NEW r \in CallRecords, r.step = "read", CallHolds(r), NEW a, a = Fails(r),
         r.overlap = 0 /\ r.whole => ~Answerable(r)
  PROVE  AfterHolds(r, a)
<1>1. a \in CallRecords /\ AgentKeeps(r, a) /\ a.step = "failed" /\ a.seen = r.seen
  BY AgentFails
<1>2. SawWhole(a)
  BY <1>1 DEF SawWhole
<1>3. r.overlap = 0 /\ r.whole => Undisturbed(a)
  BY AgentFailsUndisturbed DEF CallHolds, Undisturbed
<1>4. QED
  BY <1>1, <1>2, <1>3 DEF AfterHolds

\* What is still to find, when the next is found or not
LEMMA AgentFinds ==
  ASSUME NEW r \in CallRecords, r.step = "read", CallHolds(r), r.todo # <<>>, r.overlap = 0, r.whole
  PROVE  /\ CanFind(r, Head(r.todo)) => (Answerable(r) <=> \A f \in Elements(Tail(r.todo)) : CanFind(r, f))
         /\ ~CanFind(r, Head(r.todo)) => ~Answerable(r)
<1>1. Elements(r.todo) = {Head(r.todo)} \cup Elements(Tail(r.todo))
  BY AgentElements DEF CallRecords
<1>2. Answerable(r) <=> \A f \in Elements(r.todo) : CanFind(r, f)
  BY DEF CallHolds, Undisturbed
<1>3. QED
  BY <1>1, <1>2

LEMMA AgentReadsPersona ==
  ASSUME PackageHolds, NEW r \in CallRecords, r.step = "read", CallHolds(r), DiskFor(r), Head(r.todo) = "persona.json",
         NEW a \in After(r)
  PROVE  AfterHolds(r, a)
<1> DEFINE v == files["persona.json"]
<1>1. /\ r.todo # <<>>
      /\ \/ r.kind = "personas" /\ Tail(r.todo) = <<>>
         \/ r.kind \in Readers /\ \E q \in Seq(Skills) : Tail(r.todo) = <<"system.md">> \o q
  BY AgentReading DEF CallHolds
<1>2. "persona.json" \in PackageFiles /\ "persona.json" \notin Skills
  BY AgentFiles, AgentReleases
<1>3. /\ v \in Int /\ r.version >= 0
      /\ r.overlap = 0 /\ r.whole => v \in {0, r.version} /\ v >= 0 /\ (v # 0 <=> r.version # 0)
  BY <1>2, AgentDisk
<1>4. a \in IF r.kind = "personas" THEN ListPersona(r) ELSE TakePersona(r)
  BY <1>2 DEF After
<1>5. CASE r.kind = "personas"
  <2>1. a = IF v >= 0 THEN Took(r, v) ELSE Fails(r)
    BY <1>4, <1>5 DEF ListPersona, Readable
  <2>2. Answerable(r) /\ Tail(r.todo) = <<>> /\ \A f \in Elements(Tail(r.todo)) : CanFind(r, f)
    <3>1. Answerable(r)
      BY <1>5 DEF Answerable
    <3>2. Tail(r.todo) = <<>>
      BY <1>1, <1>5 DEF Readers
    <3>3. Elements(<<>>) = {}
      BY DEF Elements
    <3>4. QED
      BY <3>1, <3>2, <3>3
  <2>3. CASE v >= 0
    <3>1. a = Took(r, v) /\ ReadsWell(r)
      BY <2>1, <2>3, AgentReadsWell
    <3>2. v # 0 => \E f \in PackageFiles : v \in {files[f], -files[f]}
      BY <1>2
    <3>3. r.overlap = 0 /\ r.whole =>
            v \in {0, r.version} /\ (Answerable(r) <=> \A f \in Elements(Tail(r.todo)) : CanFind(r, f))
      BY <1>3, <2>2
    <3> HIDE DEF v
    <3>4. QED
      BY <1>1, <1>3, <2>2, <2>3, <3>1, <3>2, <3>3, AgentReadsOn
  <2>4. CASE ~(v >= 0)
    BY <1>3, <2>1, <2>4, AgentCannotRead
  <2>5. QED
    BY <2>3, <2>4
<1>6. CASE r.kind # "personas"
  <2>1. a = IF v > 0 THEN Took(r, v) ELSE Fails(r)
    BY <1>4, <1>6 DEF TakePersona
  <2>2. PICK q \in Seq(Skills) : Tail(r.todo) = <<"system.md">> \o q
    BY <1>1, <1>6
  <2>3. Tail(r.todo) # <<>> /\ Head(Tail(r.todo)) = "system.md"
    <3>1. <<"system.md">> \o q # <<>> /\ Head(<<"system.md">> \o q) = "system.md"
      BY AgentAhead
    <3>2. QED
      BY <2>2, <3>1
  <2>4. CanRead(r.kind, Tail(r.todo))
    <3>1. r.kind \in {"context", "turn", "turn again", "create"}
      BY <1>1, <1>6 DEF Readers
    <3>2. QED
      BY <2>2, <3>1 DEF CanRead
  <2>5. CanFind(r, "persona.json") <=> r.version # 0
    BY <1>2, <1>6 DEF CanFind
  <2>6. CASE v > 0
    <3>1. r.overlap = 0 /\ r.whole => v \in {0, r.version} /\ (Answerable(r) <=> \A f \in Elements(Tail(r.todo)) : CanFind(r, f))
      BY <1>1, <1>3, <2>5, <2>6, AgentFinds
    <3>2. a = Took(r, v) /\ ReadsWell(r)
      BY <2>1, <2>6, AgentReadsWell
    <3>3. Head(Tail(r.todo)) = "system.md" => files["persona.json"] > 0
      BY <2>6
    <3>4. v # 0 => \E f \in PackageFiles : v \in {files[f], -files[f]}
      BY <1>2
    <3>5. Tail(r.todo) # <<>> => CanRead(r.kind, Tail(r.todo)) /\ (Head(Tail(r.todo)) = "system.md" => files["persona.json"] > 0)
      BY <2>4, <3>3
    <3>6. r.todo # <<>> /\ v \in Int /\ (r.overlap = 0 => v >= 0)
      BY <1>1, <1>3, <2>6
    <3> HIDE DEF v
    <3>7. QED
      BY <3>1, <3>2, <3>4, <3>5, <3>6, AgentReadsOn
  <2>7. CASE ~(v > 0)
    <3>1. r.overlap = 0 /\ r.whole => ~Answerable(r)
      BY <1>1, <1>3, <2>5, <2>7, AgentFinds
    <3>2. QED
      BY <2>1, <2>7, <3>1, AgentCannotRead
  <2>8. QED
    BY <2>6, <2>7
<1>7. QED
  BY <1>5, <1>6

LEMMA AgentReadsPrompt ==
  ASSUME PackageHolds, NEW r \in CallRecords, r.step = "read", CallHolds(r), DiskFor(r), Head(r.todo) = "system.md",
         NEW a \in After(r)
  PROVE  AfterHolds(r, a)
<1> DEFINE v == files["system.md"]
<1>1. r.todo # <<>> /\ r.kind \in Readers /\ Tail(r.todo) \in Seq(Skills)
  BY AgentReading DEF CallHolds
<1>2. /\ "system.md" \in PackageFiles /\ "system.md" \notin Skills
      /\ "persona.json" \in PackageFiles
  BY AgentFiles, AgentReleases
<1>3. /\ v \in Int /\ r.version >= 0 /\ files["persona.json"] \in Int
      /\ r.overlap = 0 /\ r.whole => v \in {0, r.version} /\ v >= 0 /\ (v # 0 <=> r.version # 0)
  BY <1>2, AgentDisk
<1>4. r.overlap = 0 => v >= 0
  BY <1>3 DEF DiskFor, PackageHolds, PersonaLast
<1>5. a = IF v = 0 THEN Fails(r) ELSE Took(r, v)
  BY <1>2 DEF After, TakePrompt
<1>6. CanFind(r, "system.md") <=> r.version # 0
  BY <1>2 DEF CanFind
<1>7. Tail(r.todo) # <<>> => CanRead(r.kind, Tail(r.todo)) /\ Head(Tail(r.todo)) # "system.md"
  <2>1. SUFFICES ASSUME Tail(r.todo) # <<>>
                 PROVE  CanRead(r.kind, Tail(r.todo)) /\ Head(Tail(r.todo)) # "system.md"
    OBVIOUS
  <2>2. Head(Tail(r.todo)) \in Skills
    BY <1>1, <2>1, AgentElements
  <2>3. CanRead(r.kind, Tail(r.todo))
    BY <1>1, <2>1 DEF CanRead, Readers
  <2>4. QED
    BY <1>2, <2>2, <2>3
<1>8. CASE v # 0
  <2>1. r.overlap = 0 /\ r.whole => v \in {0, r.version} /\ (Answerable(r) <=> \A f \in Elements(Tail(r.todo)) : CanFind(r, f))
    BY <1>1, <1>3, <1>6, <1>8, AgentFinds
  <2>2. QED
    BY <1>1, <1>2, <1>3, <1>4, <1>5, <1>7, <1>8, <2>1, AgentReadsWell, AgentReadsOn
<1>9. CASE v = 0
  <2>1. r.overlap = 0 /\ r.whole => ~Answerable(r)
    BY <1>1, <1>3, <1>6, <1>9, AgentFinds
  <2>2. QED
    BY <1>5, <1>9, <2>1, AgentCannotRead
<1>10. QED
  BY <1>8, <1>9

LEMMA AgentReadsSkill ==
  ASSUME PackageHolds, NEW r \in CallRecords, r.step = "read", CallHolds(r), DiskFor(r), Head(r.todo) \in Skills,
         NEW a \in After(r)
  PROVE  AfterHolds(r, a)
<1> DEFINE s == Head(r.todo)
           v == files[s]
<1>1. r.todo # <<>> /\ r.kind \in Readers \cup {"skills"} /\ Tail(r.todo) \in Seq(Skills)
  BY AgentReading DEF CallHolds
<1>2. s \in PackageFiles /\ s \in Skills /\ s \notin {"agents", "agent", "persona", "persona.json", "system.md", "user"}
  BY AgentFiles, AgentReleases
<1>3. /\ v \in Int /\ r.version >= 0
      /\ r.overlap = 0 /\ r.whole => v \in {0, r.version} /\ v >= 0 /\ (v # 0 <=> r.version # 0 /\ s \in Elements(SkillsOf[r.version]))
  BY <1>2, AgentDisk
<1>4. CanFind(r, s) <=> r.kind = "skills" \/ (r.version # 0 /\ s \in Elements(SkillsOf[r.version]))
  BY <1>2 DEF CanFind
<1>5. Tail(r.todo) # <<>> => CanRead(r.kind, Tail(r.todo)) /\ Head(Tail(r.todo)) # "system.md"
  <2>1. SUFFICES ASSUME Tail(r.todo) # <<>>
                 PROVE  CanRead(r.kind, Tail(r.todo)) /\ Head(Tail(r.todo)) # "system.md"
    OBVIOUS
  <2>2. Head(Tail(r.todo)) \in Skills
    BY <1>1, <2>1, AgentElements
  <2>3. CanRead(r.kind, Tail(r.todo))
    BY <1>1, <2>1 DEF CanRead, Readers
  <2>4. QED
    BY <2>2, <2>3, AgentReleases
<1>6. \/ \E w \in {0, v, -v} : /\ a = Took(r, w) /\ (w < 0 => FALSE)
                               /\ (v >= 0 => w = v) /\ (w = 0 => v <= 0) /\ (r.kind # "skills" => v # 0)
      \/ a = Fails(r) /\ r.kind # "skills" /\ v <= 0
  <2>1. a \in IF r.kind = "skills" THEN ListSkill(r, s) ELSE IF r.kind = "create" THEN FindSkill(r, s) ELSE TakeSkill(r, s)
    BY <1>2 DEF After
  <2>2. CASE r.kind = "skills"
    BY <1>3, <2>1, <2>2 DEF ListSkill
  <2>3. CASE r.kind = "create"
    BY <1>3, <2>1, <2>3 DEF FindSkill
  <2>4. CASE r.kind \notin {"skills", "create"}
    BY <1>3, <2>1, <2>4 DEF TakeSkill
  <2>5. QED
    BY <2>2, <2>3, <2>4
<1>7. ASSUME NEW w \in {0, v, -v}, a = Took(r, w), ~(w < 0), v >= 0 => w = v, r.kind # "skills" => v # 0
      PROVE  AfterHolds(r, a)
  <2>1. w \in Int /\ w >= 0 /\ (w # 0 => w \in {files[s], -files[s]})
    BY <1>3, <1>7
  <2>2. ASSUME r.overlap = 0, r.whole
        PROVE  w \in {0, r.version} /\ (Answerable(r) <=> \A f \in Elements(Tail(r.todo)) : CanFind(r, f))
    <3>1. CanFind(r, s)
      BY <1>3, <1>4, <1>7, <2>2
    <3>2. QED
      BY <1>1, <1>3, <1>7, <2>2, <3>1, AgentFinds
  <2>3. QED
    BY <1>1, <1>2, <1>5, <1>7, <2>1, <2>2, AgentReadsWell, AgentReadsOn
<1>8. CASE a = Fails(r) /\ r.kind # "skills" /\ v <= 0
  <2>1. r.overlap = 0 /\ r.whole => ~Answerable(r)
    BY <1>1, <1>3, <1>4, <1>8, AgentFinds
  <2>2. QED
    BY <1>8, <2>1, AgentCannotRead
<1>9. QED
  BY <1>6, <1>7, <1>8

\* The skills that the agent names follow what was to be read.
LEMMA AgentReadsAgents ==
  ASSUME PackageHolds, NEW r \in CallRecords, r.step = "read", CallHolds(r), DiskFor(r), Head(r.todo) = "agents",
         NEW a \in After(r)
  PROVE  AfterHolds(r, a)
<1> DEFINE v == files[r.agent]
           named == IF r.agent = "user" THEN userSkills ELSE SkillsOf[v]
           w == IF r.agent = "user" THEN 0 ELSE v
           todo == IF r.kind = "get" THEN r.todo ELSE r.todo \o named
           s == [r EXCEPT !.todo = todo]
           failing == ~Readable("agent") \/ ~Readable("user") \/ v = 0
<1>1. /\ r.todo # <<>>
      /\ \/ r.kind = "get" /\ r.todo = <<"agents">>
         \/ r.kind \in Readers \ {"create"} /\ r.todo = Context
  BY AgentReading DEF CallHolds
<1>2. a = IF failing THEN Fails(r) ELSE Took(s, w)
  <2>1. a \in TakeAgents(r)
    BY AgentReleases DEF After
  <2>2. QED
    BY <2>1 DEF TakeAgents
<1>3. /\ r.agent \in {"agent", "user"} /\ "agent" \in PackageFiles /\ "user" \notin PackageFiles /\ "agent" \notin Skills
      /\ files["user"] \in {-1, 0, 1}
  BY AgentFiles, AgentReleases DEF CallRecords, PackageHolds, PackageTypes
<1>4. /\ files["agent"] \in Int /\ files["agent"] \in Contents /\ r.version >= 0
      /\ r.overlap = 0 /\ r.whole =>
           files["agent"] \in {0, r.version} /\ files["agent"] >= 0 /\ (files["agent"] # 0 <=> r.version # 0)
  BY <1>3, AgentDisk
<1>5. r.overlap = 0 /\ r.whole => files["user"] = r.user /\ r.user # -1 /\ userSkills = r.userSkills
  BY DEF DiskFor
<1>6. CASE failing
  <2>1. ASSUME r.overlap = 0, r.whole
        PROVE  ~Answerable(r)
    <3>1. v = 0
      BY <1>3, <1>4, <1>5, <1>6, <2>1 DEF Readable
    <3>2. IF r.agent = "user" THEN r.user # 1 ELSE r.version = 0
      BY <1>3, <1>4, <1>5, <2>1, <3>1
    <3>3. QED
      BY <1>1, <1>3, <3>2 DEF Answerable, Readers
  <2>2. QED
    BY <1>2, <1>6, <2>1, AgentCannotRead
<1>7. CASE ~failing
  <2>1. v # 0 /\ files["agent"] >= 0 /\ files["user"] >= 0
    BY <1>3, <1>4, <1>7 DEF Readable
  <2>2. named \in Seq(Skills) /\ (r.agent = "agent" => v \in Releases)
    <3>1. CASE r.agent = "user"
      BY <3>1 DEF PackageHolds, PackageTypes
    <3>2. CASE r.agent # "user"
      <4>1. r.agent = "agent" /\ v = files["agent"]
        BY <1>3, <3>2
      <4>2. v > 0 /\ v \in Contents
        BY <1>4, <2>1, <4>1
      <4>3. v \in Releases
        <5>1. v \in Int /\ -v < 0
          BY <1>4, <4>1, <4>2
        <5>a. \A x \in Int : x < 0 => x \notin Releases
          BY AgentReleases
        <5>2. -v \notin Releases /\ v # 0
          BY <4>2, <5>1, <5>a
        <5>3. QED
          BY <4>2, <5>2 DEF Contents
      <4>4. QED
        BY <3>2, <4>3, AgentReleases
    <3>3. QED
      BY <3>1, <3>2
  <2>3. todo \in TodoSet
    <3>1. r.todo \in TodoSet /\ named \in TodoSet
      BY <2>2 DEF CallRecords, TodoSet
    <3>2. r.todo \o named \in TodoSet
      BY <3>1, AgentJoined DEF TodoSet
    <3>3. QED
      BY <3>1, <3>2
  <2>4. s \in CallRecords /\ s.step = "read" /\ s.todo = todo /\ s.kind = r.kind /\ s.seen = r.seen
    BY <2>3 DEF CallRecords, TodoSet
  <2>5. AgentKeeps(r, s) /\ AgentKeeps(s, r)
    BY DEF AgentKeeps, CallRecords
  <2>6. s.overlap = r.overlap /\ s.whole = r.whole /\ s.version = r.version /\ s.agent = r.agent
    BY <2>5 DEF AgentKeeps
  <2>7. (Answerable(s) <=> Answerable(r)) /\ \A f : CanFind(s, f) <=> CanFind(r, f)
    BY <2>4, <2>5, AgentKeepsAnswer
  <2>8. todo # <<>> /\ Head(todo) = "agents"
        /\ IF r.kind = "get" THEN Tail(todo) = <<>>
           ELSE /\ Tail(todo) = <<"persona.json", "system.md">> \o named /\ Tail(todo) # <<>> /\ Head(Tail(todo)) = "persona.json"
                /\ Elements(Tail(todo)) = {"persona.json", "system.md"} \cup Elements(named)
    <3>1. CASE r.kind = "get"
      <4>1. r.todo = <<"agents">> /\ todo = r.todo
        BY <1>1, <3>1 DEF Readers
      <4>2. <<"agents">> # <<>> /\ Head(<<"agents">>) = "agents" /\ Tail(<<"agents">>) = <<>>
        OBVIOUS
      <4>3. QED
        BY <3>1, <4>1, <4>2
    <3>2. CASE r.kind # "get"
      <4>1. todo = <<"agents", "persona.json", "system.md">> \o named
        BY <1>1, <3>2 DEF Context
      <4>2. /\ <<"agents", "persona.json", "system.md">> \o named # <<>>
            /\ Head(<<"agents", "persona.json", "system.md">> \o named) = "agents"
            /\ Tail(<<"agents", "persona.json", "system.md">> \o named) = <<"persona.json", "system.md">> \o named
            /\ <<"persona.json", "system.md">> \o named # <<>>
            /\ Head(<<"persona.json", "system.md">> \o named) = "persona.json"
        BY <2>2, AgentAhead
      <4>3. Elements(<<"persona.json", "system.md">> \o named) = Elements(<<"persona.json", "system.md">>) \cup Elements(named)
        <5>1. <<"persona.json", "system.md">> \in TodoSet /\ named \in TodoSet
          BY <2>2 DEF TodoSet
        <5>2. \A x, y \in TodoSet : Elements(x \o y) = Elements(x) \cup Elements(y)
          BY AgentJoined DEF TodoSet
        <5>3. QED
          BY <5>1, <5>2
      <4>4. Elements(<<"persona.json", "system.md">>) = {"persona.json", "system.md"}
        BY AgentLists
      <4>5. QED
        BY <3>2, <4>1, <4>2, <4>3, <4>4
    <3>3. QED
      BY <3>1, <3>2
  <2>10. Tail(todo) # <<>> => CanRead(s.kind, Tail(todo)) /\ Head(Tail(todo)) # "system.md"
    <3>1. SUFFICES ASSUME Tail(todo) # <<>>
                   PROVE  CanRead(r.kind, Tail(todo)) /\ Head(Tail(todo)) # "system.md"
      BY <2>4
    <3>2. r.kind # "get" /\ Tail(todo) = <<"persona.json", "system.md">> \o named /\ Head(Tail(todo)) = "persona.json"
      BY <2>8, <3>1
    <3>3. CanRead(r.kind, Tail(todo))
      BY <1>1, <2>2, <3>2 DEF CanRead, Readers
    <3>4. QED
      BY <3>2, <3>3
  <2>11. r.overlap = 0 /\ r.whole => w \in {0, r.version} /\ (Answerable(r) <=> \A f \in Elements(Tail(todo)) : CanFind(r, f))
    <3>1. SUFFICES ASSUME r.overlap = 0, r.whole
                   PROVE  w \in {0, r.version} /\ (Answerable(r) <=> \A f \in Elements(Tail(todo)) : CanFind(r, f))
      OBVIOUS
    <3>2. w \in {0, r.version}
      BY <1>3, <1>4, <3>1
    <3>3. IF r.agent = "user" THEN r.user = 1 /\ named = r.userSkills ELSE r.version # 0 /\ named = SkillsOf[r.version]
      BY <1>3, <1>4, <1>5, <2>1, <3>1
    <3>4. CASE r.kind = "get"
      <4>1. Elements(Tail(todo)) = {}
        BY <2>8, <3>4 DEF Elements
      <4>2. Answerable(r)
        BY <1>3, <3>3, <3>4 DEF Answerable
      <4>3. QED
        BY <3>2, <4>1, <4>2
    <3>5. CASE r.kind # "get"
      <4>1. r.kind \in {"context", "turn", "turn again"}
        BY <1>1, <3>5 DEF Readers
      <4>2. Answerable(r) <=> (r.version # 0 /\ (r.agent = "user" => Elements(r.userSkills) \subseteq Elements(SkillsOf[r.version])))
        BY <1>3, <3>3, <4>1 DEF Answerable, Had
      <4>3. Elements(Tail(todo)) = {"persona.json", "system.md"} \cup Elements(named) /\ Elements(named) \subseteq Skills
        BY <2>2, <2>8, <3>5, AgentElements
      <4>4. (CanFind(r, "persona.json") <=> r.version # 0) /\ (CanFind(r, "system.md") <=> r.version # 0)
        BY <4>1, AgentReleases DEF CanFind
      <4>5. \A f \in Elements(named) : CanFind(r, f) <=> r.version # 0 /\ f \in Elements(SkillsOf[r.version])
        BY <4>1, <4>3, AgentReleases DEF CanFind
      <4>6. QED
        BY <1>3, <3>2, <3>3, <4>2, <4>3, <4>4, <4>5
    <3>6. QED
      BY <3>4, <3>5
  <2>12. w \in Int /\ w >= 0 /\ (w # 0 => \E f \in PackageFiles : w \in {files[f], -files[f]})
    BY <1>3, <1>4, <2>1
  <2>13. ReadsWell(s)
    BY <2>4, <2>6, AgentReadsWell DEF ReadsWell
  <2>14. AfterHolds(s, a)
    <3>1. a = Took(s, w)
      BY <1>2, <1>7
    <3>2. s.todo # <<>> /\ Tail(s.todo) = Tail(todo)
      BY <2>4, <2>8
    <3>3. Tail(s.todo) # <<>> => CanRead(s.kind, Tail(s.todo)) /\ (Head(Tail(s.todo)) = "system.md" => files["persona.json"] > 0)
      BY <2>4, <2>10, <3>2
    <3>4. s.overlap = 0 => w >= 0
      BY <2>12
    <3>5. s.overlap = 0 /\ s.whole =>
            w \in {0, s.version} /\ (Answerable(s) <=> \A f \in Elements(Tail(s.todo)) : CanFind(s, f))
      BY <2>6, <2>7, <2>11, <3>2
    <3>6. s \in CallRecords /\ s.step = "read" /\ w \in Int
      BY <2>4, <2>12
    <3> HIDE DEF s, w
    <3>7. QED
      BY <2>12, <2>13, <3>1, <3>2, <3>3, <3>4, <3>5, <3>6, AgentReadsOn
  <2>15. QED
    BY <2>4, <2>5, <2>6, <2>14 DEF AfterHolds, AgentKeeps
<1>8. QED
  BY <1>6, <1>7

LEMMA AgentReadsAny ==
  ASSUME PackageHolds, NEW r \in CallRecords, r.step = "read", CallHolds(r), DiskFor(r), NEW a \in After(r)
  PROVE  AfterHolds(r, a)
<1>1. Head(r.todo) \in {"agents", "persona.json", "system.md"} \cup Skills
  BY AgentReading DEF CallHolds
<1>2. QED
  BY <1>1, AgentReadsAgents, AgentReadsPersona, AgentReadsPrompt, AgentReadsSkill

-----------------------------------------------------------------------------
(* Agents: calls that begin *)

AgentNames == {"agent", "user"}

LEMMA AgentBegins ==
  ASSUME AgentsInd, NEW what \in CallKinds, NEW agent \in AgentNames, NEW skills \in Seq(Skills), NEW reads \in TodoSet,
         BeginCall(what, agent, skills, reads), CanRead(what, reads), Head(reads) # "system.md",
         \A r \in CallRecords : r.kind = what /\ r.skills = skills =>
           (Answerable(r) <=> \A f \in Elements(reads) : CanFind(r, f))
  PROVE  AgentsInd'
<1>1. PICK c \in Calls :
        /\ ~Active(c)
        /\ \A d \in Calls : Active(d) => (calls[d].kind = "create") # (what = "create")
        /\ calls' = [calls EXCEPT ![c] =
             [kind |-> what, agent |-> agent, step |-> "read", skills |-> skills, todo |-> reads, seen |-> <<>>,
              whole |-> Whole, version |-> installed, userSkills |-> userSkills, user |-> files["user"],
              overlap |-> IF writer.step = "idle" /\ Writing = {} THEN 0 ELSE 1, to |-> writer.to]]
        /\ UNCHANGED <<files, userSkills, installed, writer, killed>>
  BY DEF BeginCall
<1> DEFINE r == [kind |-> what, agent |-> agent, step |-> "read", skills |-> skills, todo |-> reads, seen |-> <<>>,
                 whole |-> Whole, version |-> installed, userSkills |-> userSkills, user |-> files["user"],
                 overlap |-> IF writer.step = "idle" /\ Writing = {} THEN 0 ELSE 1, to |-> writer.to]
<1>2. r \in CallRecords
  <2>1. Whole \in BOOLEAN
    BY DEF Whole
  <2>2. userSkills \in Seq(Skills) /\ installed \in {0} \cup Releases /\ writer.to \in {0} \cup Releases /\ files["user"] \in {-1, 0, 1}
    BY DEF AgentsInd, PackageTypes
  <2>3. QED
    BY <2>1, <2>2 DEF CallRecords, TodoSet, AgentNames
<1>3. /\ r.kind = what /\ r.agent = agent /\ r.skills = skills /\ r.todo = reads /\ r.step = "read" /\ r.seen = <<>>
      /\ r.whole = Whole /\ r.version = installed /\ r.userSkills = userSkills /\ r.user = files["user"] /\ r.to = writer.to
      /\ r.overlap = IF writer.step = "idle" /\ Writing = {} THEN 0 ELSE 1
  OBVIOUS
<1> HIDE DEF r
<1>4. DOMAIN r.seen = {}
  BY <1>3
<1>5. CallHolds(r) /\ SawOneSeam(r)
  <2>1. Answerable(r) <=> \A f \in Elements(reads) : CanFind(r, f)
    BY <1>2, <1>3
  <2>2. Undisturbed(r) /\ SawWhole(r) /\ SawOneSeam(r)
    BY <1>3, <1>4, <2>1 DEF Undisturbed, SawWhole, SawOneSeam
  <2>3. QED
    BY <1>2, <1>3, <2>2 DEF CallHolds, Reads
<1>6. CallsHold /\ \A d \in Calls : calls'[d] = IF d = c THEN r ELSE calls[d]
  BY <1>1 DEF AgentsInd, CallsHold, r
<1>7. CallsHold'
  BY <1>1, <1>2, <1>5, <1>6 DEF CallsHold, r
<1>8. \A d \in Calls : Active(d)' <=> Active(d) \/ d = c
  BY <1>3, <1>6 DEF Active
<1>9. Writing' = Writing
  BY <1>1, <1>3, <1>6 DEF Writing, Active
<1>10. PackageTypes' /\ OperationInOrder' /\ PersonaLast'
  BY <1>1 DEF AgentsInd, PackageTypes, OperationInOrder, PersonaLast, Due
<1>11. OneCreates'
  <2>1. what = "create" => \A d \in Calls : Active(d) => calls[d].kind # "create"
    BY <1>1
  <2>2. ASSUME NEW d \in Calls, NEW e \in Calls, Active(d)', Active(e)', calls'[d].kind = "create", calls'[e].kind = "create"
        PROVE  d = e
    BY <1>3, <1>6, <1>8, <2>1, <2>2 DEF AgentsInd, OneCreates
  <2>3. ~killed' /\ files'["user"] = -1 => Writing' # {}
    BY <1>1, <1>9 DEF AgentsInd, OneCreates
  <2>4. QED
    BY <2>2, <2>3 DEF OneCreates
<1>12. ASSUME NEW d \in Calls, d # c
       PROVE  Unmet(d)' /\ OneMet(d)'
  <2>1. (Unmet(d)' <=> Unmet(d)) /\ (OneMet(d)' <=> OneMet(d))
    BY <1>1, <1>6, <1>8, <1>9, <1>12 DEF Unmet, OneMet
  <2>2. QED
    BY <2>1 DEF AgentsInd
<1>13. Unmet(c)'
  <2>1. SUFFICES ASSUME r.overlap = 0
                 PROVE  /\ writer.step = "idle" /\ Writing \subseteq {c} /\ installed = r.version
                        /\ ~killed => r.whole
                        /\ Head(r.todo) # "system.md"
                        /\ r.whole =>
                             /\ files["user"] = r.user /\ r.user # -1 /\ userSkills = r.userSkills
                             /\ \A f \in PackageFiles : files[f] = IF f \in Installed(r.version) THEN r.version ELSE 0
    BY <1>1, <1>6, <1>9 DEF Unmet
  <2>2. writer.step = "idle" /\ Writing = {}
    BY <1>3, <2>1
  <2>3. ~killed => Whole
    <3>1. ~killed => files["user"] \in {0, 1}
      BY <2>2 DEF AgentsInd, OneCreates, PackageTypes
    <3>2. QED
      BY <2>2, <3>1 DEF AgentsInd, OperationInOrder, Whole, PackageFiles
  <2>4. Whole => files["user"] # -1 /\ \A f \in PackageFiles : files[f] = IF f \in Installed(installed) THEN installed ELSE 0
    BY DEF Whole, PackageFiles
  <2>5. QED
    BY <1>3, <2>2, <2>3, <2>4
<1>14. OneMet(c)'
  <2>1. SUFFICES ASSUME r.to # 0
                 PROVE  IF writer.step = "idle" THEN installed = r.to ELSE writer.to = r.to /\ installed = r.version
    BY <1>1, <1>4, <1>6 DEF OneMet
  <2>2. writer.step # "idle"
    BY <1>3, <2>1 DEF AgentsInd, PackageTypes, NoOp
  <2>3. QED
    BY <1>3, <2>2
<1>15. QED
  BY <1>7, <1>10, <1>11, <1>12, <1>13, <1>14 DEF AgentsInd

\* Each what of call begins with files that are there exactly when it can be answered.
LEMMA AgentBeginContext ==
  ASSUME AgentsInd, NEW what \in {"context", "turn"}, NEW who \in AgentNames, BeginCall(what, who, <<>>, Context)
  PROVE  AgentsInd'
<1>1. Context \in TodoSet /\ <<>> \in Seq(Skills) /\ Head(Context) = "agents" /\ Elements(Context) = {"agents", "persona.json", "system.md"}
  BY DEF Context, TodoSet, Elements
<1>2. CanRead(what, Context)
  BY <1>1 DEF CanRead
<1>3. ASSUME NEW r \in CallRecords, r.kind = what
      PROVE  Answerable(r) <=> \A f \in Elements(Context) : CanFind(r, f)
  <2>1. Answerable(r) <=> IF r.agent = "user" THEN r.user = 1 /\ Had(r, r.userSkills) ELSE r.version # 0
    BY <1>3 DEF Answerable
  <2>2. CanFind(r, "agents") <=> IF r.agent = "agent" THEN r.version # 0 ELSE r.user = 1 /\ Had(r, r.userSkills)
    BY <1>3, AgentReleases DEF CanFind
  <2>3. (CanFind(r, "persona.json") <=> r.version # 0) /\ (CanFind(r, "system.md") <=> r.version # 0)
    BY <1>3, AgentReleases DEF CanFind
  <2>4. QED
    BY <1>1, <2>1, <2>2, <2>3 DEF Had, CallRecords
<1>4. what \in CallKinds /\ Head(Context) # "system.md"
  BY <1>1 DEF CallKinds
<1>5. \A r \in CallRecords : r.kind = what =>
        (Answerable(r) <=> \A f \in Elements(Context) : CanFind(r, f))
  BY <1>3
<1>6. QED
  BY <1>1, <1>2, <1>4, <1>5, AgentBegins

LEMMA AgentBeginGet ==
  ASSUME AgentsInd, NEW who \in AgentNames, getAgent(who)
  PROVE  AgentsInd'
<1>1. <<"agents">> \in TodoSet /\ <<>> \in Seq(Skills) /\ Head(<<"agents">>) = "agents" /\ Elements(<<"agents">>) = {"agents"}
  BY AgentLists DEF TodoSet
<1>2. CanRead("get", <<"agents">>)
  BY <1>1 DEF CanRead
<1>3. ASSUME NEW r \in CallRecords, r.kind = "get"
      PROVE  Answerable(r) <=> \A f \in Elements(<<"agents">>) : CanFind(r, f)
  <2>1. Answerable(r) <=> IF r.agent = "user" THEN r.user = 1 ELSE r.version # 0
    BY <1>3 DEF Answerable
  <2>2. CanFind(r, "agents") <=> IF r.agent = "agent" THEN r.version # 0 ELSE r.user = 1
    BY <1>3, AgentReleases DEF CanFind
  <2>3. QED
    BY <1>1, <2>1, <2>2 DEF CallRecords
<1>4. "get" \in CallKinds /\ Head(<<"agents">>) # "system.md" /\ BeginCall("get", who, <<>>, <<"agents">>)
  BY <1>1 DEF CallKinds, getAgent
<1>5. \A r \in CallRecords : r.kind = "get" =>
        (Answerable(r) <=> \A f \in Elements(<<"agents">>) : CanFind(r, f))
  BY <1>3
<1>6. QED
  BY <1>1, <1>2, <1>4, <1>5, AgentBegins

LEMMA AgentBeginPersonas ==
  ASSUME AgentsInd, listPersonas
  PROVE  AgentsInd'
<1>1. /\ <<"persona.json">> \in TodoSet /\ <<>> \in Seq(Skills) /\ Head(<<"persona.json">>) = "persona.json"
      /\ Elements(<<"persona.json">>) = {"persona.json"}
  BY AgentLists DEF TodoSet
<1>2. CanRead("personas", <<"persona.json">>)
  BY <1>1 DEF CanRead
<1>3. ASSUME NEW r \in CallRecords, r.kind = "personas"
      PROVE  Answerable(r) <=> \A f \in Elements(<<"persona.json">>) : CanFind(r, f)
  <2>1. Answerable(r)
    BY <1>3 DEF Answerable, AgentNames
  <2>2. CanFind(r, "persona.json")
    BY <1>3, AgentReleases DEF CanFind, AgentNames
  <2>3. QED
    BY <1>1, <2>1, <2>2
<1>4. QED
  BY <1>1, <1>2, <1>3, AgentBegins DEF CallKinds, AgentNames, listPersonas

LEMMA AgentBeginSkills ==
  ASSUME AgentsInd, NEW v \in Releases, listSkills(v)
  PROVE  AgentsInd'
<1>1. SkillsOf[v] \in Seq(Skills) /\ SkillsOf[v] # <<>> /\ SkillsOf[v] \in TodoSet /\ Head(SkillsOf[v]) \in Skills
  <2>1. SkillsOf[v] \in Seq(Skills) /\ SkillsOf[v] # <<>>
    BY AgentReleases DEF listSkills
  <2>2. QED
    BY <2>1, AgentElements DEF TodoSet
<1>2. CanRead("skills", SkillsOf[v])
  BY <1>1 DEF CanRead
<1>3. ASSUME NEW r \in CallRecords, r.kind = "skills"
      PROVE  Answerable(r) <=> \A f \in Elements(SkillsOf[v]) : CanFind(r, f)
  <2>1. Answerable(r)
    BY <1>3 DEF Answerable, AgentNames
  <2>2. \A f \in Skills : CanFind(r, f)
    BY <1>3, AgentReleases DEF CanFind, AgentNames
  <2>3. QED
    BY <2>1, <2>2, AgentReleases
<1>4. <<>> \in Seq(Skills) /\ Head(SkillsOf[v]) # "system.md"
  BY <1>1, AgentReleases
<1>5. QED
  BY <1>1, <1>2, <1>3, <1>4, AgentBegins DEF CallKinds, AgentNames, listSkills

LEMMA AgentBeginCreate ==
  ASSUME AgentsInd, NEW v \in Releases, createUserAgent(v)
  PROVE  AgentsInd'
<1> DEFINE q == SkillsOf[v]
           reads == <<"persona.json", "system.md">> \o q
<1>1. q \in Seq(Skills) /\ q \in TodoSet /\ <<"persona.json", "system.md">> \in TodoSet
  <2>1. q \in Seq(Skills)
    BY AgentReleases
  <2>2. QED
    BY <2>1 DEF TodoSet
<1>2. \A x, y \in TodoSet : x \o y \in TodoSet /\ Elements(x \o y) = Elements(x) \cup Elements(y)
  BY AgentJoined DEF TodoSet
<1>3. Elements(<<"persona.json", "system.md">>) = {"persona.json", "system.md"}
  BY AgentLists
<1>4. reads \in TodoSet /\ Elements(reads) = {"persona.json", "system.md"} \cup Elements(q)
  BY <1>1, <1>2, <1>3
<1>5. Head(reads) = "persona.json"
  BY <1>1, AgentAhead
<1>6. CanRead("create", reads)
  BY <1>1 DEF CanRead
<1>7. ASSUME NEW r \in CallRecords, r.kind = "create", r.skills = q
      PROVE  Answerable(r) <=> \A f \in Elements(reads) : CanFind(r, f)
  <2>1. Answerable(r) <=> r.version # 0 /\ Elements(q) \subseteq Elements(SkillsOf[r.version])
    BY <1>7 DEF Answerable, Had
  <2>2. (CanFind(r, "persona.json") <=> r.version # 0) /\ (CanFind(r, "system.md") <=> r.version # 0)
    BY <1>7, AgentReleases DEF CanFind
  <2>3. \A f \in Elements(q) : CanFind(r, f) <=> r.version # 0 /\ f \in Elements(SkillsOf[r.version])
    BY <1>7, AgentReleases DEF CanFind
  <2>4. QED
    BY <1>4, <2>1, <2>2, <2>3
<1>8. BeginCall("create", "user", q, reads) /\ "create" \in CallKinds /\ "user" \in AgentNames
  BY DEF createUserAgent, CallKinds, AgentNames
<1> HIDE DEF reads, q
<1>9. QED
  BY <1>1, <1>4, <1>5, <1>6, <1>7, <1>8, AgentBegins

-----------------------------------------------------------------------------
(* Agents: calls that read on, and creations that write *)

\* What a call that has read on still knows
LEMMA AgentAfterHolds ==
  ASSUME AgentsInd, NEW c \in Calls, calls[c].step = "read", NEW a \in After(calls[c])
  PROVE  /\ calls[c] \in CallRecords /\ AfterHolds(calls[c], a) /\ CallHolds(a)
         /\ ~killed => SawOneSeam(a)
         /\ ~killed /\ a.overlap = 1 /\ a.to # a.version /\ (\E i \in DOMAIN a.seen : a.seen[i] \in {a.to, -a.to})
              => writer.step # "remove"
<1> DEFINE r == calls[c]
<1>1. PackageHolds /\ r \in CallRecords /\ CallHolds(r) /\ Active(c) /\ (~killed => SawOneSeam(r))
  BY AgentActive DEF AgentsInd, PackageHolds, CallsHold, Active
<1>2. DiskFor(r)
  BY <1>1 DEF AgentsInd, Unmet, DiskFor
<1>3. AfterHolds(r, a)
  BY <1>1, <1>2, AgentReadsAny
<1>4. a \in CallRecords /\ a.overlap = r.overlap /\ a.whole = r.whole /\ a.version = r.version /\ a.to = r.to
  BY <1>3 DEF AfterHolds, AgentKeeps
<1>5. CallHolds(a)
  BY <1>3, <1>4 DEF AfterHolds, CallHolds, Undisturbed, SawWhole
<1>6. /\ r.seen \in Seq(Int \ {0}) /\ r.to \in {0} \cup Releases /\ r.version \in {0} \cup Releases
      /\ r.to \in Nat /\ r.version \in Nat
  BY <1>1, AgentReleases DEF CallRecords
<1>7. ASSUME ~killed, r.overlap = 1, r.to # 0, r.to # r.version
      PROVE  /\ (\E i \in DOMAIN r.seen : r.seen[i] \in {r.to, -r.to}) => writer.step # "remove"
             /\ \A f \in PackageFiles : \A v \in {files[f], -files[f]} : v # 0 =>
                  IF writer.step = "remove" THEN v \notin {r.to, -r.to} ELSE v # r.version
  <2>1. /\ IF writer.step = "idle" THEN installed = r.to ELSE writer.to = r.to /\ installed = r.version
        /\ (\E i \in DOMAIN r.seen : r.seen[i] \in {r.to, -r.to}) => writer.step # "remove"
    BY <1>1, <1>7 DEF AgentsInd, OneMet
  <2>2. ASSUME NEW f \in PackageFiles
        PROVE  IF writer.step = "remove" THEN files[f] \in {0, r.version} ELSE files[f] \in {0, r.to, -r.to}
    <3>1. writer.step \in {"idle", "remove", "clear", "copy", "register"}
      BY DEF AgentsInd, PackageTypes
    <3>2. QED
      BY <1>7, <2>1, <3>1 DEF AgentsInd, OperationInOrder
  <2>3. QED
    BY <1>6, <1>7, <2>1, <2>2
<1>8. CASE a.seen = r.seen
  <2>1. ~killed => SawOneSeam(a)
    BY <1>1, <1>4, <1>8 DEF SawOneSeam
  <2>2. ~killed /\ a.overlap = 1 /\ a.to # a.version /\ (\E i \in DOMAIN a.seen : a.seen[i] \in {a.to, -a.to})
          => writer.step # "remove"
    <3>1. \A i \in DOMAIN r.seen : r.seen[i] # 0
      BY <1>6
    <3>2. QED
      BY <1>4, <1>6, <1>7, <1>8, <3>1
  <2>3. QED
    BY <1>1, <1>3, <1>5, <2>1, <2>2
<1>9. ASSUME NEW f \in PackageFiles, NEW v \in {files[f], -files[f]}, v # 0, a.seen = Append(r.seen, v)
      PROVE  /\ ~killed => SawOneSeam(a)
             /\ ~killed /\ a.overlap = 1 /\ a.to # a.version /\ (\E i \in DOMAIN a.seen : a.seen[i] \in {a.to, -a.to})
                  => writer.step # "remove"
  <2>1. v \in Int \ {0}
    BY <1>1, <1>9, AgentFiles DEF PackageHolds, PackageTypes
  <2>2. /\ \A i \in DOMAIN a.seen : (i \in DOMAIN r.seen /\ a.seen[i] = r.seen[i]) \/ (i = Len(r.seen) + 1 /\ a.seen[i] = v)
        /\ \A i \in DOMAIN r.seen : i \in DOMAIN a.seen /\ a.seen[i] = r.seen[i] /\ i < Len(r.seen) + 1
        /\ DOMAIN r.seen \subseteq Nat /\ Len(r.seen) \in Nat
    <3>1. Len(r.seen) \in Nat
      BY <1>6
    <3>2. QED
      BY <1>6, <1>9, <2>1, <3>1, AgentAppended
  <2>3. \A i \in DOMAIN a.seen : a.seen[i] # 0
    <3>1. \A i \in DOMAIN r.seen : r.seen[i] # 0
      BY <1>6
    <3>2. QED
      BY <2>1, <2>2, <3>1
  <2>4. SUFFICES ASSUME ~killed, r.overlap = 1, r.to # r.version, NEW i \in DOMAIN a.seen, a.seen[i] \in {r.to, -r.to}
                 PROVE  /\ writer.step # "remove"
                        /\ a.step # "failed" => \A j \in DOMAIN a.seen : i < j => a.seen[j] # r.version
    BY <1>4 DEF SawOneSeam
  <2>5. r.to # 0
    BY <1>6, <2>3, <2>4
  <2>6. /\ (\E k \in DOMAIN r.seen : r.seen[k] \in {r.to, -r.to}) => writer.step # "remove"
        /\ IF writer.step = "remove" THEN v \notin {r.to, -r.to} ELSE v # r.version
    BY <1>7, <1>9, <2>4, <2>5
  <2>7. writer.step # "remove"
    BY <2>2, <2>4, <2>6
  <2>8. ASSUME NEW j \in DOMAIN a.seen, i < j
        PROVE  a.seen[j] # r.version
    <3>1. CASE j = Len(r.seen) + 1 /\ a.seen[j] = v
      BY <2>6, <2>7, <3>1
    <3>2. CASE j \in DOMAIN r.seen /\ a.seen[j] = r.seen[j]
      <4>1. j < Len(r.seen) + 1 /\ j \in Nat
        BY <2>2, <3>2
      <4>2. i \in DOMAIN r.seen /\ a.seen[i] = r.seen[i]
        BY <2>2, <2>8, <4>1
      <4>3. QED
        BY <1>1, <2>4, <2>8, <3>2, <4>2 DEF SawOneSeam
    <3>3. QED
      BY <2>2, <3>1, <3>2
  <2>9. QED
    BY <2>7, <2>8
<1>10. QED
  BY <1>1, <1>3, <1>5, <1>8, <1>9 DEF AfterHolds

LEMMA AgentReadNext ==
  ASSUME AgentsInd, NEW c \in Calls, ReadNext(c)
  PROVE  AgentsInd'
<1> DEFINE r == calls[c]
<1>1. calls[c].step = "read" /\ UNCHANGED <<installed, writer, killed>>
  BY DEF ReadNext
<1>2. PICK a \in After(calls[c]) :
        IF a.step = "write"
        THEN /\ calls' = [Met(Calls \ {c}, 0) EXCEPT ![c] = a]
             /\ files' = [files EXCEPT !["user"] = -1] /\ userSkills' = a.skills
        ELSE /\ calls' = [calls EXCEPT ![c] = a]
             /\ UNCHANGED <<files, userSkills>>
  BY DEF ReadNext
<1>3. /\ r \in CallRecords /\ AfterHolds(r, a) /\ CallHolds(a) /\ (~killed => SawOneSeam(a))
      /\ ~killed /\ a.overlap = 1 /\ a.to # a.version /\ (\E i \in DOMAIN a.seen : a.seen[i] \in {a.to, -a.to})
              => writer.step # "remove"
  BY <1>1, AgentAfterHolds
<1>4. /\ a \in CallRecords /\ a.overlap = r.overlap /\ a.whole = r.whole /\ a.version = r.version /\ a.to = r.to
      /\ a.userSkills = r.userSkills /\ a.user = r.user /\ (a.kind = "create" <=> r.kind = "create")
      /\ a.skills \in Seq(Skills) /\ a.step \in {"read", "write", "done", "failed"}
  BY <1>3 DEF AfterHolds, AgentKeeps, CallRecords
<1>5. CallsHold /\ Active(c) /\ c \notin Writing
  BY <1>1 DEF AgentsInd, Active, Writing
<1>6. Unmet(c) /\ OneMet(c)
  BY DEF AgentsInd
<1>7. CASE a.step # "write"
  <2>1. calls' = [calls EXCEPT ![c] = a] /\ UNCHANGED <<files, userSkills>>
    BY <1>2, <1>7
  <2>2. \A d \in Calls : calls'[d] = IF d = c THEN a ELSE calls[d]
    BY <1>5, <2>1 DEF CallsHold
  <2>3. CallsHold'
    BY <1>1, <1>3, <1>4, <1>5, <2>1, <2>2 DEF CallsHold
  <2>4. Writing' = Writing /\ \A d \in Calls : Active(d)' => Active(d)
    BY <1>5, <1>7, <2>2 DEF Writing, Active
  <2>5. PackageTypes' /\ OperationInOrder' /\ PersonaLast'
    BY <1>1, <2>1 DEF AgentsInd, PackageTypes, OperationInOrder, PersonaLast, Due
  <2>6. OneCreates'
    <3>1. \A d \in Calls : calls'[d].kind = "create" <=> calls[d].kind = "create"
      BY <1>4, <2>2
    <3>2. QED
      BY <1>1, <2>1, <2>4, <3>1 DEF AgentsInd, OneCreates
  <2>7. ASSUME NEW d \in Calls, d # c
        PROVE  Unmet(d)' /\ OneMet(d)'
    <3>1. calls'[d] = calls[d] /\ (Active(d)' <=> Active(d))
      BY <2>2, <2>7 DEF Active
    <3>2. (Unmet(d)' <=> Unmet(d)) /\ (OneMet(d)' <=> OneMet(d))
      BY <1>1, <2>1, <2>4, <3>1 DEF Unmet, OneMet
    <3>3. QED
      BY <3>2 DEF AgentsInd
  <2>8. Unmet(c)'
    <3>1. SUFFICES ASSUME a.overlap = 0
                   PROVE  /\ writer.step = "idle" /\ Writing \subseteq {c} /\ installed = a.version
                          /\ ~killed => a.whole
                          /\ a.step = "read" =>
                               /\ Head(a.todo) = "system.md" => files["persona.json"] > 0
                               /\ a.whole =>
                                    /\ files["user"] = a.user /\ a.user # -1 /\ userSkills = a.userSkills
                                    /\ \A f \in PackageFiles : files[f] = IF f \in Installed(a.version) THEN a.version ELSE 0
      BY <1>1, <2>1, <2>2, <2>4 DEF Unmet
    <3>2. a.step = "read" => (Head(a.todo) = "system.md" => files["persona.json"] > 0)
      BY <1>3 DEF AfterHolds
    <3>3. /\ writer.step = "idle" /\ Writing \subseteq {c} /\ installed = r.version
          /\ ~killed => r.whole
          /\ r.whole =>
               /\ files["user"] = r.user /\ r.user # -1 /\ userSkills = r.userSkills
               /\ \A f \in PackageFiles : files[f] = IF f \in Installed(r.version) THEN r.version ELSE 0
      BY <1>1, <1>4, <1>5, <1>6, <3>1 DEF Unmet
    <3>4. QED
      BY <1>4, <3>2, <3>3
  <2>9. OneMet(c)'
    <3>1. SUFFICES ASSUME ~killed, a.overlap = 1, a.to # 0
                   PROVE  /\ IF writer.step = "idle" THEN installed = a.to ELSE writer.to = a.to /\ installed = a.version
                          /\ a.to # a.version /\ (\E i \in DOMAIN a.seen : a.seen[i] \in {a.to, -a.to}) => writer.step # "remove"
      BY <1>1, <2>2 DEF OneMet
    <3>2. IF writer.step = "idle" THEN installed = r.to ELSE writer.to = r.to /\ installed = r.version
      BY <1>4, <1>5, <1>6, <3>1 DEF OneMet
    <3>3. QED
      BY <1>3, <1>4, <3>1, <3>2
  <2>10. QED
    BY <2>3, <2>5, <2>6, <2>7, <2>8, <2>9 DEF AgentsInd
<1>8. CASE a.step = "write"
  <2> DEFINE met == Met(Calls \ {c}, 0)
  <2>1. /\ calls' = [met EXCEPT ![c] = a] /\ files' = [files EXCEPT !["user"] = -1]
        /\ userSkills' = a.skills
    BY <1>2, <1>8
  <2>2. \A d \in Calls \ {c} : Active(d) /\ calls[d].overlap = 0 /\ ~killed => calls[d].whole
    BY DEF AgentsInd, Unmet
  <2>3. /\ met \in [Calls -> {NoCall} \cup CallRecords]
        /\ \A d \in Calls : /\ CallHolds(met[d]) /\ (~killed => SawOneSeam(met[d]))
                            /\ met[d].step = calls[d].step
                            /\ ~(d \in Calls \ {c} /\ Active(d)) => met[d] = calls[d]
                            /\ d \in Calls \ {c} /\ Active(d) => met[d] = MetOnce(calls[d], 0)
    BY <1>5, <2>2, AgentMet
  <2> HIDE DEF met
  <2>4. \A d \in Calls : calls'[d] = IF d = c THEN a ELSE met[d]
    BY <2>1, <2>3
  <2>5. CallsHold'
    BY <1>1, <1>3, <1>4, <2>1, <2>3, <2>4 DEF CallsHold
  <2>6. /\ Writing' = Writing \cup {c}
        /\ \A d \in Calls : Active(d)' <=> Active(d)
    BY <1>5, <1>8, <2>3, <2>4 DEF Writing, Active
  <2>7. ASSUME NEW d \in Calls, d # c, Active(d)
        PROVE  calls'[d].overlap # 0 /\ calls'[d].to = 0 /\ calls'[d].kind = calls[d].kind
    <3>1. calls[d] \in CallRecords /\ calls[d].step \in {"read", "write"} /\ CallHolds(calls[d]) /\ calls'[d] = MetOnce(calls[d], 0)
      BY <1>5, <2>3, <2>4, <2>7, AgentActive
    <3>2. /\ MetOnce(calls[d], 0).overlap \in Nat \ {0} /\ MetOnce(calls[d], 0).to = 0
          /\ MetOnce(calls[d], 0).kind = calls[d].kind
      BY <3>1, AgentMetOnce
    <3>3. QED
      BY <3>1, <3>2
  <2>8. /\ files' \in [Files -> Int] /\ files'["user"] = -1 /\ \A f \in PackageFiles : files'[f] = files[f]
        /\ "system.md" \in PackageFiles /\ "persona.json" \in PackageFiles
    BY <2>1, AgentFiles DEF AgentsInd, PackageTypes
  <2>9. PackageTypes'
    BY <1>1, <1>4, <2>1, <2>8 DEF AgentsInd, PackageTypes
  <2>10. OperationInOrder' /\ PersonaLast'
    BY <1>1, <2>8 DEF AgentsInd, OperationInOrder, PersonaLast, Due
  <2>11. OneCreates'
    <3>1. \A d \in Calls : Active(d) => (calls'[d].kind = "create" <=> calls[d].kind = "create")
      BY <1>4, <2>4, <2>7
    <3>2. QED
      BY <2>6, <3>1 DEF AgentsInd, OneCreates
  <2>12. ASSUME NEW d \in Calls, d # c
         PROVE  Unmet(d)' /\ OneMet(d)'
    BY <2>6, <2>7, <2>12 DEF Unmet, OneMet
  <2>13. Unmet(c)'
    <3>1. SUFFICES ASSUME a.overlap = 0
                   PROVE  writer.step = "idle" /\ Writing \cup {c} \subseteq {c} /\ installed = a.version /\ (~killed => a.whole)
      BY <1>1, <1>8, <2>4, <2>6 DEF Unmet
    <3>2. QED
      BY <1>4, <1>5, <1>6, <3>1 DEF Unmet
  <2>14. OneMet(c)'
    <3>1. SUFFICES ASSUME ~killed, a.overlap = 1, a.to # 0
                   PROVE  /\ IF writer.step = "idle" THEN installed = a.to ELSE writer.to = a.to /\ installed = a.version
                          /\ a.to # a.version /\ (\E i \in DOMAIN a.seen : a.seen[i] \in {a.to, -a.to}) => writer.step # "remove"
      BY <1>1, <2>4 DEF OneMet
    <3>2. IF writer.step = "idle" THEN installed = r.to ELSE writer.to = r.to /\ installed = r.version
      BY <1>4, <1>5, <1>6, <3>1 DEF OneMet
    <3>3. QED
      BY <1>3, <1>4, <3>1, <3>2
  <2>15. QED
    BY <2>5, <2>9, <2>10, <2>11, <2>12, <2>13, <2>14 DEF AgentsInd
<1>9. QED
  BY <1>7, <1>8

LEMMA AgentWriteAgent ==
  ASSUME AgentsInd, NEW c \in Calls, WriteAgent(c)
  PROVE  AgentsInd'
<1> DEFINE r == calls[c]
<1>1. r.step = "write" /\ UNCHANGED <<userSkills, installed, writer>>
  BY DEF WriteAgent
<1>2. CallsHold /\ r \in CallRecords /\ CallHolds(r) /\ (~killed => SawOneSeam(r)) /\ c \in Writing /\ Active(c) /\ NoCall.step = "idle"
  BY <1>1 DEF AgentsInd, CallsHold, NoCall, Writing, Active
<1>3. \A d \in Calls : d # c /\ Active(d) => calls[d].overlap # 0
  BY <1>2 DEF AgentsInd, Unmet
<1>4. CASE files' = [files EXCEPT !["user"] = 1] /\ calls' = [calls EXCEPT ![c].step = "done"] /\ UNCHANGED killed
  <2> DEFINE a == [r EXCEPT !.step = "done"]
  <2>1. /\ a \in CallRecords /\ a.step = "done" /\ a.overlap = r.overlap /\ a.whole = r.whole /\ a.seen = r.seen
        /\ a.version = r.version /\ a.to = r.to
    BY <1>2 DEF CallRecords
  <2>2. AgentKeeps(r, a)
    BY <1>2 DEF AgentKeeps, CallRecords
  <2>3. Answerable(a) <=> Answerable(r)
    BY <1>2, <2>1, <2>2, AgentKeepsAnswer
  <2>4. Undisturbed(a)
    BY <1>1, <1>2, <2>1, <2>3 DEF CallHolds, Undisturbed
  <2>5. SawWhole(a) /\ (SawOneSeam(r) => SawOneSeam(a))
    BY <1>1, <1>2, <2>1 DEF CallHolds, SawWhole, SawOneSeam
  <2>6. CallHolds(a)
    BY <2>1, <2>4, <2>5 DEF CallHolds
  <2>7. calls' = [calls EXCEPT ![c] = a]
    BY <1>4
  <2> HIDE DEF a
  <2>8. \A d \in Calls : calls'[d] = IF d = c THEN a ELSE calls[d]
    BY <1>2, <2>7 DEF CallsHold
  <2>9. CallsHold'
    BY <1>2, <1>4, <2>1, <2>5, <2>6, <2>7, <2>8 DEF CallsHold
  <2>10. \A d \in Calls : Active(d)' <=> Active(d) /\ d # c
    BY <2>1, <2>8 DEF Active
  <2>11. /\ files' \in [Files -> Int] /\ files'["user"] = 1 /\ \A f \in PackageFiles : files'[f] = files[f]
         /\ "system.md" \in PackageFiles /\ "persona.json" \in PackageFiles
    BY <1>4, AgentFiles DEF AgentsInd, PackageTypes
  <2>12. PackageTypes'
    BY <1>1, <1>4, <2>11 DEF AgentsInd, PackageTypes
  <2>13. OperationInOrder' /\ PersonaLast'
    BY <1>1, <1>4, <2>11 DEF AgentsInd, OperationInOrder, PersonaLast, Due
  <2>14. OneCreates'
    BY <2>8, <2>10, <2>11 DEF AgentsInd, OneCreates
  <2>15. \A d \in Calls : Unmet(d)' /\ OneMet(d)'
    <3>1. \A d \in Calls : Unmet(d)'
      BY <1>3, <2>8, <2>10 DEF Unmet
    <3>2. \A d \in Calls : OneMet(d)'
      BY <1>1, <1>4, <2>8, <2>10 DEF AgentsInd, OneMet
    <3>3. QED
      BY <3>1, <3>2
  <2>16. QED
    BY <2>9, <2>12, <2>13, <2>14, <2>15 DEF AgentsInd
<1>5. CASE calls' = [calls EXCEPT ![c] = NoCall] /\ killed' = TRUE /\ UNCHANGED files
  <2>1. \A d \in Calls : calls'[d] = IF d = c THEN NoCall ELSE calls[d]
    BY <1>2, <1>5 DEF CallsHold
  <2>2. CallHolds(NoCall)
    BY <1>2 DEF CallHolds, Undisturbed, SawWhole
  <2>3. CallsHold'
    BY <1>2, <1>5, <2>1, <2>2 DEF CallsHold
  <2>4. \A d \in Calls : Active(d)' <=> Active(d) /\ d # c
    BY <1>2, <2>1 DEF Active
  <2>5. PackageTypes' /\ OperationInOrder' /\ PersonaLast'
    BY <1>1, <1>5 DEF AgentsInd, PackageTypes, OperationInOrder, PersonaLast
  <2>6. OneCreates'
    BY <1>5, <2>1, <2>4 DEF AgentsInd, OneCreates
  <2>7. \A d \in Calls : Unmet(d)' /\ OneMet(d)'
    BY <1>3, <1>5, <2>1, <2>4 DEF Unmet, OneMet
  <2>8. QED
    BY <2>3, <2>5, <2>6, <2>7 DEF AgentsInd
<1>6. QED
  BY <1>4, <1>5 DEF WriteAgent

-----------------------------------------------------------------------------
(* Agents: the invariant *)

LEMMA AgentsBegin == AgentsInit => AgentsInd
<1> SUFFICES ASSUME AgentsInit
             PROVE  AgentsInd
  OBVIOUS
<1>1. PICK user \in {0} \cup ({1} \cap {installed}) :
        /\ files = [f \in Files |-> IF f = "user" THEN user ELSE IF f \in Installed(installed) THEN installed ELSE 0]
        /\ userSkills = IF user = 1 THEN SkillsOf[1] ELSE <<>>
  BY DEF AgentsInit
<1>2. installed \in {0} \cup Releases /\ installed \in Nat /\ writer = NoOp /\ calls = [c \in Calls |-> NoCall] /\ killed = FALSE
  <2>1. installed \in {0} \cup Releases /\ writer = NoOp /\ calls = [c \in Calls |-> NoCall] /\ killed = FALSE
    BY Zenon DEF AgentsInit
  <2>2. installed \in Nat
    BY <2>1, AgentReleases
  <2>3. QED
    BY <2>1, <2>2
<1>3. /\ "user" \in Files /\ files["user"] = user /\ user \in {0, 1}
      /\ \A f \in PackageFiles : files[f] = IF f \in Installed(installed) THEN installed ELSE 0
      /\ files \in [Files -> Int]
  BY <1>1, <1>2, AgentFiles
<1>4. userSkills \in Seq(Skills)
  <2>1. user = 1 => 1 \in Releases
    BY <1>2
  <2>2. QED
    BY <1>1, <2>1, AgentReleases
<1>5. NoOp \in [step : {"idle", "remove", "clear", "copy", "register"}, to : {0} \cup Releases, todo : Seq(Assets)] /\ NoOp.step = "idle"
  BY DEF NoOp
<1>6. PackageTypes
  BY <1>2, <1>3, <1>4, <1>5 DEF PackageTypes, Contents
<1>7. OperationInOrder
  BY <1>2, <1>3, <1>5 DEF OperationInOrder
<1>8. PersonaLast
  <2>1. "system.md" \in PackageFiles /\ "persona.json" \in PackageFiles
    BY AgentFiles
  <2>2. files["system.md"] >= 0
    BY <1>2, <1>3, <2>1
  <2>3. QED
    BY <1>2, <1>5, <2>1, <2>2, <1>3 DEF PersonaLast
<1>9. \A c \in Calls : calls[c] = NoCall /\ ~Active(c) /\ NoCall.step = "idle"
  BY <1>2 DEF Active, NoCall
<1>10. CallsHold
  BY <1>2, <1>9 DEF CallsHold, CallHolds, Undisturbed, SawWhole, SawOneSeam
<1>11. OneCreates
  BY <1>3, <1>9 DEF OneCreates
<1>12. \A c \in Calls : Unmet(c) /\ OneMet(c)
  BY <1>9 DEF Unmet, OneMet
<1>13. QED
  BY <1>6, <1>7, <1>8, <1>10, <1>11, <1>12 DEF AgentsInd

LEMMA AgentsStep == AgentsInd /\ [AgentsNext]_agentVars => AgentsInd'
<1> SUFFICES ASSUME AgentsInd, [AgentsNext]_agentVars
             PROVE  AgentsInd'
  OBVIOUS
<1>1. PackageHolds /\ PackageTypes
  BY DEF AgentsInd, PackageHolds
<1>2. ASSUME PackageHolds', OneCreates', CallsHold', \A c \in Calls : Unmet(c)' /\ OneMet(c)'
      PROVE  AgentsInd'
  BY <1>2 DEF AgentsInd, PackageHolds
<1>3. CASE UNCHANGED agentVars
  BY <1>3 DEF agentVars, AgentsInd, PackageTypes, OperationInOrder, Due, PersonaLast,
        OneCreates, CallsHold, Unmet, OneMet, Active, Writing
<1>4. ASSUME NEW v \in Releases, InstallPackage(v)
      PROVE  AgentsInd'
  BY <1>1, <1>2, <1>4, AgentInstallPackage, AgentsMeetInstall
<1>5. ASSUME NEW v \in Releases, listSkills(v)
      PROVE  AgentsInd'
  BY <1>5, AgentBeginSkills
<1>6. ASSUME NEW v \in Releases, createUserAgent(v)
      PROVE  AgentsInd'
  BY <1>6, AgentBeginCreate
<1>7. CASE RemoveFiles
  <2>1. /\ writer.step # "idle" /\ UNCHANGED <<installed, calls, killed>>
        /\ PackageHolds' /\ writer'.to = writer.to /\ writer'.step # "idle" /\ (writer.step # "remove" => writer'.step # "remove")
    BY <1>1, <1>7, AgentRemoveFiles DEF RemoveFiles
  <2>2. files'["user"] = files["user"]
    <3>1. writer.todo \in Seq(Assets) /\ writer.todo # <<>>
      BY <1>1, <1>7 DEF RemoveFiles, PackageTypes
    <3>2. FilesOf(Head(writer.todo)) \subseteq PackageFiles
      BY <3>1, AgentDue
    <3>3. "user" \notin FilesOf(Head(writer.todo))
      BY <3>2, AgentFiles
    <3>4. QED
      BY <1>1, <1>7, <3>3, AgentFiles DEF RemoveFiles, PackageTypes
  <2>3. QED
    BY <1>2, <2>1, <2>2, AgentsDuringOperation
<1>8. CASE BeginAssets
  <2>1. /\ writer.step # "idle" /\ UNCHANGED <<installed, calls, killed, files["user"]>>
        /\ PackageHolds' /\ writer'.to = writer.to /\ writer'.step = "clear"
    BY <1>1, <1>8, AgentBeginAssets DEF BeginAssets
  <2>2. QED
    BY <1>2, <2>1, AgentsDuringOperation
<1>9. ASSUME NEW f \in Files, CopyFile(f)
      PROVE  AgentsInd'
  <2>1. /\ writer.step # "idle" /\ UNCHANGED <<installed, calls, killed, files["user"]>>
        /\ PackageHolds' /\ writer'.step # "idle" /\ writer'.to = writer.to /\ writer'.step # "remove"
    BY <1>1, <1>9, AgentCopyFile DEF CopyFile
  <2>2. QED
    BY <1>2, <2>1, AgentsDuringOperation
<1>10. CASE RegisterPackage
  <2>1. /\ writer.step # "idle" /\ UNCHANGED <<calls, files>> /\ writer' = NoOp /\ installed' = writer.to /\ killed' = killed
        /\ PackageHolds'
    BY <1>1, <1>10, AgentRegisterPackage DEF RegisterPackage
  <2>2. QED
    BY <1>2, <2>1, AgentsAtEnd
<1>11. CASE KillOperation
  <2>1. /\ writer.step # "idle" /\ UNCHANGED <<calls, files>> /\ writer' = NoOp /\ installed' = installed /\ killed'
        /\ PackageHolds'
    BY <1>1, <1>11, AgentKillOperation DEF KillOperation
  <2>2. QED
    BY <1>2, <2>1, AgentsAtEnd
<1>12. ASSUME NEW agent \in AgentNames, resolveRuntimeContext(agent) \/ StartTurn(agent) \/ getAgent(agent)
       PROVE  AgentsInd'
  BY <1>12, AgentBeginContext, AgentBeginGet DEF resolveRuntimeContext, StartTurn
<1>13. CASE listPersonas
  BY <1>13, AgentBeginPersonas
<1>14. ASSUME NEW c \in Calls, ReadNext(c) \/ WriteAgent(c)
       PROVE  AgentsInd'
  BY <1>14, AgentReadNext, AgentWriteAgent
<1>15. QED
  BY <1>3, <1>4, <1>5, <1>6, <1>7, <1>8, <1>9, <1>10, <1>11, <1>12, <1>13,
        <1>14 DEF AgentsNext, AgentNames

LEMMA AgentsTypes == AgentsInd => AgentTypeOK
<1> SUFFICES ASSUME AgentsInd
             PROVE  AgentTypeOK
  OBVIOUS
<1>1. \A f \in Files \ {"user"} : files[f] \in Int /\ (files[f] >= 0 \/ -files[f] \in Releases)
  <2>1. ASSUME NEW f \in PackageFiles
        PROVE  files[f] \in Int /\ (files[f] >= 0 \/ -files[f] \in Releases)
    <3>1. files[f] \in Int /\ files[f] \in {0} \cup Releases \cup {v \in Int : -v \in Releases}
      BY AgentFiles DEF AgentsInd, PackageTypes, Contents
    <3>2. \A v \in {0} \cup Releases : v >= 0
      BY AgentReleases
    <3>3. QED
      BY <3>1, <3>2
  <2>2. QED
    BY <2>1 DEF PackageFiles
<1>2. \A c \in Calls : calls[c].step = "read" => calls[c].todo # <<>>
  BY AgentActive, AgentReading DEF AgentsInd, CallHolds
<1>3. QED
  BY <1>1, <1>2 DEF AgentsInd, PackageTypes, AgentTypeOK

LEMMA AgentsSafe == AgentsInd => AgentRegistryInv
<1> SUFFICES ASSUME AgentsInd
             PROVE  AgentRegistryInv
  OBVIOUS
<1>1. UndisturbedCalls /\ OneSeam /\ PromptsWhole
  BY DEF AgentsInd, CallsHold, CallHolds, Undisturbed, SawWhole, SawOneSeam,
        UndisturbedCalls, OneSeam, PromptsWhole
<1>2. QED
  BY <1>1, AgentsTypes DEF AgentRegistryInv

\* What a call reads of agents, personas and skills while no package operation disturbs it is of the registered
\* version and complete, and it fails exactly when something is not there; one operation brings it at most one
\* seam between two versions (agent-registry.ts, harness-factory.ts beside market-installer.ts).
THEOREM AgentReadsAreJust == AgentsSpec => []AgentRegistryInv
<1>1. AgentsInit => AgentsInd
  BY AgentsBegin
<1>2. AgentsInd /\ [AgentsNext]_agentVars => AgentsInd'
  BY AgentsStep
<1>3. AgentsInd => AgentRegistryInv
  BY AgentsSafe
<1>4. QED
  BY <1>1, <1>2, <1>3, PTL DEF AgentsSpec

-----------------------------------------------------------------------------
(* The panel of LLM calls: types, and what a step leaves of a buffer       *)

\* A capture leaves a buffer, with a time that nobody has used.
LEMMA CapturedTyped ==
  ASSUME Inspect!InspectAssumption, Inspect!TypeOK, NEW s \in Inspected, NEW q \in Nat,
         NEW r \in Inspect!Responses,
         buffer' = [buffer EXCEPT ![s] = [req |-> q, resp |-> r, dirty |-> TRUE]]
  PROVE  buffer' \in [Inspected -> Inspect!Maybe(Inspect!Buffers)]
<1>1. [req |-> q, resp |-> r, dirty |-> TRUE] \in Inspect!Buffers
  BY DEF Inspect!Buffers
<1>2. QED
  BY <1>1 DEF Inspect!TypeOK, Inspect!Maybe

\* What a delete or a second capture leaves of the exceptions
LEMMA DisturbTyped ==
  ASSUME Inspect!TypeOK, NEW s \in Inspected, Inspect!Disturb(s)
  PROVE  missed' \in Inspect!Pasts
BY DEF Inspect!TypeOK, Inspect!Disturb, Inspect!Pasts, Inspect!FlushesOf

\* What is read from a buffer that is there
LEMMA BufferFields ==
  ASSUME Inspect!InspectAssumption, Inspect!TypeOK, NEW s \in Inspected, buffer[s] # None
  PROVE  /\ buffer[s] \in Inspect!Buffers /\ buffer[s].req \in Nat /\ buffer[s].resp \in Inspect!Responses
         /\ buffer[s].resp.at \in Nat /\ buffer[s].resp.text \in Nat /\ buffer[s].dirty \in BOOLEAN
<1>1. buffer[s] \in Inspect!Buffers
  BY DEF Inspect!TypeOK, Inspect!Maybe
<1>2. QED
  BY <1>1 DEF Inspect!Buffers, Inspect!Responses

\* What is read from a flush that is under way
LEMMA FlushFields ==
  ASSUME Inspect!InspectAssumption, Inspect!TypeOK, Inspect!BuffersThere, NEW f \in flushes
  PROVE  /\ f.session \in Inspected /\ f.began \in Nat /\ f.held \in Inspect!Maybe(Inspect!Buffers)
         /\ Inspect!Held(f) \in Inspect!Buffers /\ Inspect!Held(f).req \in Nat /\ Inspect!Held(f).resp \in Inspect!Responses
         /\ f.step \in {"mkdir", "made", "request", "response"}
         /\ f.step # "response" => f.text \in Nat
         /\ f.step = "response" => f.text \in Inspect!Responses
<1>1. Inspect!TypedFlush(f)
  BY DEF Inspect!TypeOK
<1>2. f.session \in Inspected /\ f.held \in Inspect!Maybe(Inspect!Buffers) /\ f.began \in Nat
  BY <1>1 DEF Inspect!TypedFlush, Inspect!Flushes
<1>3. Inspect!Held(f) \in Inspect!Buffers
  BY <1>2 DEF Inspect!Held, Inspect!TypeOK, Inspect!Maybe, Inspect!BuffersThere
<1>4. QED
  BY <1>1, <1>2, <1>3 DEF Inspect!TypedFlush, Inspect!Flushes, Inspect!Buffers

\* A flush that goes on
LEMMA GoesOnTyped ==
  ASSUME Inspect!InspectAssumption, Inspect!TypeOK, Inspect!BuffersThere, NEW f \in flushes,
         NEW step, NEW text, Inspect!GoesOn(f, step, text),
         step = "response" => text \in Inspect!Responses,
         step # "response" => step \in {"mkdir", "made", "request"} /\ text \in Nat
  PROVE  \A g \in flushes' : Inspect!TypedFlush(g)
<1>1. Inspect!TypedFlush(f) /\ \A g \in flushes : Inspect!TypedFlush(g)
  BY DEF Inspect!TypeOK
<1>2. Inspect!TypedFlush([f EXCEPT !.step = step, !.text = text])
  BY <1>1 DEF Inspect!TypedFlush, Inspect!Flushes
<1>3. QED
  BY <1>1, <1>2 DEF Inspect!GoesOn

\* The files of a session that a flush writes
LEMMA SavedTyped ==
  ASSUME Inspect!InspectAssumption, Inspect!TypeOK, NEW s \in Inspected, NEW x,
         saved' = [saved EXCEPT ![s] = x], x \in Inspect!Maybe(Inspect!Files)
  PROVE  saved' \in [Inspected -> Inspect!Maybe(Inspect!Files)]
BY DEF Inspect!TypeOK

\* Requests that become late keep their types.
LEMMA LateTyped ==
  ASSUME Inspect!TypeOK, NEW cs \in SUBSET polls
  PROVE  Inspect!Late(cs) \subseteq Inspect!Calls
<1> SUFFICES ASSUME NEW c \in cs PROVE [c EXCEPT !.late = TRUE] \in Inspect!Calls
  BY DEF Inspect!Late
<1>1. c \in Inspect!Calls
  BY DEF Inspect!TypeOK
<1>2. QED
  BY <1>1 DEF Inspect!Calls

\* A new request of the panel
LEMMA AskTyped ==
  ASSUME Inspect!TypeOK, NEW k \in {"effect", "refresh"}, NEW s \in Inspected, NEW before \in SUBSET Inspect!Calls,
         Inspect!Ask(k, s, panel.etag, before)
  PROVE  polls' \subseteq Inspect!Calls /\ used' \in [asked : Nat, restarts : Nat]
<1>1. panel.etag \in Inspect!Maybe(Inspect!ETags) /\ used.asked \in Nat /\ used.restarts \in Nat
  BY DEF Inspect!TypeOK, Inspect!Panels
<1>2. used' \in [asked : Nat, restarts : Nat]
  BY <1>1 DEF Inspect!Ask, Inspect!TypeOK
<1>3. [n |-> used.asked, kind |-> k, session |-> s, sent |-> panel.etag, step |-> "sent",
       etag |-> None, data |-> None, told |-> None, late |-> FALSE] \in Inspect!Calls
  BY <1>1 DEF Inspect!Calls, Inspect!Maybe
<1>4. QED
  BY <1>2, <1>3 DEF Inspect!Ask

\* What the daemon answers is a snapshot, when it does not fail.
LEMMA CurrentTyped ==
  ASSUME Inspect!InspectAssumption, Inspect!TypeOK, NEW s \in Inspected, ~Inspect!Fails(s)
  PROVE  Inspect!Current(s) \in Inspect!Snapshots /\ Inspect!computeSessionLlmInspectETag(s) = Inspect!TagOf(Inspect!Current(s))
         /\ Inspect!TagOf(Inspect!Current(s)) \in Inspect!ETags
<1>1. Inspect!Current(s) \in Inspect!Snapshots
  <2>1. CASE buffer[s] # None
    BY <2>1, BufferFields DEF Inspect!Current, Inspect!Snapshots
  <2>2. CASE buffer[s] = None /\ saved[s] = None
    BY <2>2 DEF Inspect!Current, Inspect!Snapshots, Inspect!NoSnapshot,
          Inspect!NoResponse, Inspect!Responses
  <2>3. CASE buffer[s] = None /\ saved[s] # None
    <3>1. Inspect!Current(s) = saved[s] /\ saved[s] \in Inspect!Files
      BY <2>3 DEF Inspect!Current, Inspect!TypeOK, Inspect!Maybe
    <3>2. Torn \notin {saved[s].req, saved[s].resp}
      BY <3>1, <2>3 DEF Inspect!Fails
    <3>3. QED
      BY <3>1, <3>2 DEF Inspect!Files, Inspect!Snapshots
  <2>4. QED
    BY <2>1, <2>2, <2>3
<1>2. Inspect!Current(s).req \in Nat /\ Inspect!Current(s).resp.at \in Nat
  BY <1>1 DEF Inspect!Snapshots, Inspect!Responses
<1>3. QED
  BY <1>1, <1>2 DEF Inspect!computeSessionLlmInspectETag, Inspect!TagOf, Inspect!ETags

\* Every step keeps the types.
LEMMA InspectTypeStep ==
  ASSUME Inspect!InspectAssumption, Inspect!TypeOK, Inspect!BuffersThere, [Inspect!Next]_Inspect!vars
  PROVE  Inspect!TypeOK'
<1> USE DEF Inspect!TypeOK
<1>1. ASSUME NEW s \in Inspected, Inspect!CaptureRequest(s) PROVE Inspect!TypeOK'
  <2>1. clock' \in Nat /\ exchange' \in [Inspected -> {"idle", "sent", "answered", "gone"}]
    BY <1>1 DEF Inspect!CaptureRequest, Inspect!Tick
  <2>2. (IF buffer[s] = None THEN Inspect!NoResponse ELSE buffer[s].resp) \in Inspect!Responses
    BY BufferFields DEF Inspect!NoResponse, Inspect!Responses
  <2>3. buffer' \in [Inspected -> Inspect!Maybe(Inspect!Buffers)]
    BY <1>1, <2>1, <2>2, CapturedTyped DEF Inspect!CaptureRequest
  <2>4. QED
    BY <1>1, <2>1, <2>3, DisturbTyped DEF Inspect!CaptureRequest
<1>2. ASSUME NEW s \in Inspected, Inspect!CaptureStatus(s) PROVE Inspect!TypeOK'
  <2>1. clock' \in Nat /\ exchange' \in [Inspected -> {"idle", "sent", "answered", "gone"}]
    BY <1>2 DEF Inspect!CaptureStatus, Inspect!Tick
  <2>2. buffer[s] # None
    BY <1>2 DEF Inspect!CaptureStatus, Inspect!BuffersThere
  <2>3. [at |-> clock', text |-> buffer[s].resp.text] \in Inspect!Responses
    BY <2>1, <2>2, BufferFields DEF Inspect!Responses
  <2>4. buffer' \in [Inspected -> Inspect!Maybe(Inspect!Buffers)]
    BY <1>2, <2>2, <2>3, BufferFields, CapturedTyped DEF Inspect!CaptureStatus
  <2>5. QED
    BY <1>2, <2>1, <2>4, DisturbTyped DEF Inspect!CaptureStatus
<1>3. ASSUME NEW s \in Inspected, Inspect!TurnEnd(s) PROVE Inspect!TypeOK'
  <2>1. clock' \in Nat /\ exchange' \in [Inspected -> {"idle", "sent", "answered", "gone"}]
    BY <1>3 DEF Inspect!TurnEnd, Inspect!Tick
  <2>2. buffer[s] # None
    BY <1>3 DEF Inspect!TurnEnd, Inspect!BuffersThere
  <2>3. [at |-> clock', text |-> buffer[s].req] \in Inspect!Responses
    BY <2>1, <2>2, BufferFields DEF Inspect!Responses
  <2>4. buffer' \in [Inspected -> Inspect!Maybe(Inspect!Buffers)]
    BY <1>3, <2>2, <2>3, BufferFields, CapturedTyped DEF Inspect!TurnEnd
  <2>5. Inspect!TypedFlush(Inspect!Flush(s))
    BY <2>1 DEF Inspect!TypedFlush, Inspect!Flush, Inspect!Flushes, Inspect!Maybe
  <2>6. flushes' = flushes \cup {Inspect!Flush(s)}
    BY <1>3 DEF Inspect!TurnEnd
  <2>7. QED
    BY <1>3, <2>1, <2>4, <2>5, <2>6, DisturbTyped DEF Inspect!TurnEnd
<1>4. ASSUME NEW s \in Inspected, Inspect!EndWithoutTurn(s) PROVE Inspect!TypeOK'
  BY <1>4 DEF Inspect!EndWithoutTurn
<1>5. ASSUME NEW s \in Inspected, Inspect!Delete(s) PROVE Inspect!TypeOK'
  <2>1. buffer' \in [Inspected -> Inspect!Maybe(Inspect!Buffers)] /\ saved' \in [Inspected -> Inspect!Maybe(Inspect!Files)]
        /\ exchange' \in [Inspected -> {"idle", "sent", "answered", "gone"}]
    BY <1>5 DEF Inspect!Delete, Inspect!Maybe
  <2>2. ASSUME NEW f \in flushes' PROVE Inspect!TypedFlush(f)
    <3>1. PICK g \in flushes : f = IF g.session = s THEN [g EXCEPT !.held = buffer[s]] ELSE g
      BY <1>5 DEF Inspect!Delete
    <3>2. Inspect!TypedFlush(g) /\ buffer[s] \in Inspect!Maybe(Inspect!Buffers)
      BY DEF Inspect!TypeOK
    <3>3. QED
      BY <3>1, <3>2 DEF Inspect!TypedFlush, Inspect!Flushes
  <2>3. missed' \in Inspect!Pasts
    BY <1>5 DEF Inspect!Delete, Inspect!Pasts
  <2>4. QED
    BY <1>5, <2>1, <2>2, <2>3 DEF Inspect!Delete
<1>6. ASSUME NEW s \in Inspected, Inspect!Show(s) PROVE Inspect!TypeOK'
  <2>1. Inspect!Refreshes \in SUBSET Inspect!Calls
    BY LateTyped DEF Inspect!Refreshes
  <2>2. polls' \subseteq Inspect!Calls /\ used' \in [asked : Nat, restarts : Nat]
    BY <1>6, <2>1, AskTyped DEF Inspect!Show
  <2>3. panel' \in Inspect!Panels /\ panel'.session = s
    BY <1>6 DEF Inspect!Show, Inspect!Panels, Inspect!Maybe
  <2>4. QED
    BY <1>6, <2>2, <2>3 DEF Inspect!Show
<1>7. ASSUME NEW f \in flushes, Inspect!Mkdir(f) PROVE Inspect!TypeOK'
  <2>1. Inspect!NoSnapshot \in Inspect!Files
    BY DEF Inspect!NoSnapshot, Inspect!NoResponse, Inspect!Responses, Inspect!Files
  <2>2. saved' \in [Inspected -> Inspect!Maybe(Inspect!Files)]
    BY <1>7, <2>1, FlushFields DEF Inspect!Mkdir, Inspect!Maybe
  <2>3. \A g \in flushes' : Inspect!TypedFlush(g)
    BY <1>7, GoesOnTyped DEF Inspect!Mkdir
  <2>4. QED
    BY <1>7, <2>2, <2>3 DEF Inspect!Mkdir
<1>8. ASSUME NEW f \in flushes, Inspect!WriteFails(f) PROVE Inspect!TypeOK'
  <2>1. missed' \in Inspect!Pasts
    BY <1>8 DEF Inspect!WriteFails, Inspect!Pasts
  <2>2. QED
    BY <1>8, <2>1 DEF Inspect!WriteFails, Inspect!Stopped, Inspect!Maybe
<1>9. ASSUME NEW f \in flushes, Inspect!WriteRequest(f) PROVE Inspect!TypeOK'
  <2>1. saved[f.session] \in Inspect!Files
    BY <1>9, FlushFields DEF Inspect!WriteRequest, Inspect!Maybe
  <2>2. [req |-> Torn, resp |-> saved[f.session].resp] \in Inspect!Files
    BY <2>1 DEF Inspect!Files
  <2>3. saved' \in [Inspected -> Inspect!Maybe(Inspect!Files)]
    BY <1>9, <2>2, FlushFields DEF Inspect!WriteRequest, Inspect!Maybe
  <2>4. \A g \in flushes' : Inspect!TypedFlush(g)
    BY <1>9, FlushFields, GoesOnTyped DEF Inspect!WriteRequest
  <2>5. QED
    BY <1>9, <2>3, <2>4 DEF Inspect!WriteRequest
<1>10. ASSUME NEW f \in flushes, Inspect!WriteResponse(f) PROVE Inspect!TypeOK'
  <2>1. [req |-> f.text, resp |-> Torn] \in Inspect!Files
    BY <1>10, FlushFields DEF Inspect!Files, Inspect!WriteResponse
  <2>2. saved' \in [Inspected -> Inspect!Maybe(Inspect!Files)]
    BY <1>10, <2>1, FlushFields DEF Inspect!WriteResponse, Inspect!Maybe
  <2>3. \A g \in flushes' : Inspect!TypedFlush(g)
    BY <1>10, FlushFields, GoesOnTyped DEF Inspect!WriteResponse
  <2>4. QED
    BY <1>10, <2>2, <2>3 DEF Inspect!WriteResponse
<1>11. ASSUME NEW f \in flushes, Inspect!MarkClean(f) PROVE Inspect!TypeOK'
  <2>1. saved[f.session] \in Inspect!Files
    BY <1>11, FlushFields DEF Inspect!MarkClean, Inspect!Maybe
  <2>2. [req |-> saved[f.session].req, resp |-> f.text] \in Inspect!Files
    BY <1>11, <2>1, FlushFields DEF Inspect!Files, Inspect!MarkClean
  <2>3. saved' \in [Inspected -> Inspect!Maybe(Inspect!Files)]
    BY <1>11, <2>2, FlushFields DEF Inspect!MarkClean, Inspect!Maybe
  <2>4. buffer' \in [Inspected -> Inspect!Maybe(Inspect!Buffers)]
    <3>1. CASE f.held # None
      BY <1>11, <3>1 DEF Inspect!MarkClean
    <3>2. CASE f.held = None
      <4>1. buffer[f.session] \in Inspect!Buffers
        BY <3>2, FlushFields DEF Inspect!Held
      <4>2. [req |-> buffer[f.session].req, resp |-> buffer[f.session].resp, dirty |-> FALSE] \in Inspect!Buffers
        BY <4>1 DEF Inspect!Buffers
      <4>3. QED
        BY <1>11, <3>2, <4>2, FlushFields DEF Inspect!MarkClean, Inspect!Maybe
    <3>3. QED
      BY <3>1, <3>2
  <2>5. QED
    BY <1>11, <2>3, <2>4 DEF Inspect!MarkClean
<1>12. ASSUME NEW c \in polls, Inspect!Answer(c) PROVE Inspect!TypeOK'
  <2>1. c \in Inspect!Calls
    OBVIOUS
  <2>2. CASE Inspect!Fails(c.session)
    <3>1. [c EXCEPT !.step = "failed"] \in Inspect!Calls
      BY <2>1 DEF Inspect!Calls
    <3>2. QED
      BY <1>12, <2>2, <3>1 DEF Inspect!Answer
  <2>3. CASE ~Inspect!Fails(c.session)
    <3> DEFINE etag == Inspect!computeSessionLlmInspectETag(c.session)
               told == Inspect!Current(c.session)
               data == IF c.sent = etag THEN None ELSE told
    <3>1. c.session \in Inspected
      BY <2>1 DEF Inspect!Calls
    <3>2. etag \in Inspect!ETags /\ told \in Inspect!Snapshots
      BY <2>3, <3>1, CurrentTyped
    <3>3. etag \in Inspect!Maybe(Inspect!ETags) /\ told \in Inspect!Maybe(Inspect!Snapshots) /\ data \in Inspect!Maybe(Inspect!Snapshots)
      BY <3>2 DEF Inspect!Maybe
    <3>4. polls' = (polls \ {c}) \cup {[c EXCEPT !.step = "answered", !.etag = etag, !.told = told, !.data = data]}
      BY <1>12, <2>3 DEF Inspect!Answer
    <3> HIDE DEF etag, told, data
    <3>5. [c EXCEPT !.step = "answered", !.etag = etag, !.told = told, !.data = data] \in Inspect!Calls
      BY <2>1, <3>3 DEF Inspect!Calls
    <3>6. QED
      BY <1>12, <3>4, <3>5 DEF Inspect!Answer
  <2>4. QED
    BY <2>2, <2>3
<1>13. ASSUME NEW c \in polls, Inspect!Apply(c) PROVE Inspect!TypeOK'
  <2>1. c \in Inspect!Calls
    OBVIOUS
  <2>2. polls' \subseteq Inspect!Calls
    BY <1>13, LateTyped DEF Inspect!Apply
  <2>3. panel' \in Inspect!Panels /\ panel'.enabled = panel.enabled /\ panel'.session = panel.session
    BY <1>13, <2>1 DEF Inspect!Apply, Inspect!Panels, Inspect!Calls, Inspect!Maybe
  <2>4. missed' \in Inspect!Pasts
    BY <1>13, <2>1 DEF Inspect!Apply, Inspect!Pasts, Inspect!Calls
  <2>5. QED
    BY <1>13, <2>2, <2>3, <2>4 DEF Inspect!Apply
<1>14. ASSUME Inspect!Restart PROVE Inspect!TypeOK'
  BY <1>14 DEF Inspect!Restart, Inspect!Stopped, Inspect!Maybe
<1>15. ASSUME Inspect!Hide PROVE Inspect!TypeOK'
  <2>1. polls' \subseteq Inspect!Calls
    BY <1>15, LateTyped DEF Inspect!Hide, Inspect!Refreshes
  <2>2. panel' \in Inspect!Panels /\ ~panel'.enabled
    BY <1>15 DEF Inspect!Hide, Inspect!Closed, Inspect!Panels, Inspect!Maybe
  <2>3. QED
    BY <1>15, <2>1, <2>2 DEF Inspect!Hide
<1>16. ASSUME Inspect!refresh PROVE Inspect!TypeOK'
  <2>1. polls' \subseteq Inspect!Calls /\ used' \in [asked : Nat, restarts : Nat]
    BY <1>16, AskTyped DEF Inspect!refresh
  <2>2. QED
    BY <1>16, <2>1 DEF Inspect!refresh
<1>17. CASE UNCHANGED Inspect!vars
  BY <1>17 DEF Inspect!vars, Inspect!TypedFlush
<1>18. QED
  BY <1>1, <1>2, <1>3, <1>4, <1>5, <1>6, <1>7, <1>8, <1>9, <1>10, <1>11, <1>12, <1>13,
        <1>14, <1>15, <1>16,
     <1>17 DEF Inspect!Next

\* The buffers and files that a flush or an exchange relies on stay there.
LEMMA BuffersThereStep ==
  ASSUME Inspect!InspectAssumption, Inspect!TypeOK, Inspect!BuffersThere, [Inspect!Next]_Inspect!vars
  PROVE  Inspect!BuffersThere'
<1>0. None \notin Inspect!Buffers /\ None \notin Inspect!Files
  BY DEF Inspect!InspectAssumption, Inspect!Buffers, Inspect!Files
<1> DEFINE Exchanges == \A s \in Inspected : /\ exchange[s] \in {"sent", "answered"} => buffer[s] # None
                                             /\ exchange[s] = "gone" => buffer[s] = None
           Good(f) == /\ Inspect!Held(f) # None
                      /\ f.held # None => exchange[f.session] = "gone"
                      /\ f.session \notin missed.leftover =>
                           exchange[f.session] # "gone" /\ (f.step # "mkdir" => saved[f.session] # None)
<1>a. Exchanges /\ \A f \in flushes : Good(f)
  BY DEF Inspect!BuffersThere
<1>b. ASSUME Exchanges', \A f \in flushes' : Good(f)' PROVE Inspect!BuffersThere'
  BY <1>b DEF Inspect!BuffersThere
<1> HIDE DEF Exchanges, Good
\* A capture: the buffer is there, and no flush is of another object.
<1>c. ASSUME NEW s \in Inspected, NEW b \in Inspect!Buffers, NEW e \in {"idle", "sent", "answered"},
             exchange[s] # "gone", exchange' = [exchange EXCEPT ![s] = e],
             buffer' = [buffer EXCEPT ![s] = b], Inspect!Disturb(s), UNCHANGED saved
      PROVE  Exchanges' /\ \A f \in flushes : Good(f)'
  <2>1. missed'.leftover = missed.leftover
    BY <1>c DEF Inspect!Disturb, Inspect!Pasts, Inspect!TypeOK
  <2>2. Exchanges'
    BY <1>a, <1>c, <1>0 DEF Exchanges, Inspect!TypeOK
  <2>3. ASSUME NEW f \in flushes PROVE Good(f)'
    BY <1>a, <1>c, <1>0, <2>1, FlushFields DEF Inspect!Held, Good, Inspect!TypeOK
  <2>4. QED
    BY <2>2, <2>3
\* A flush goes on, and its directory is there.
<1>d. ASSUME NEW f \in flushes, NEW step, NEW text, Inspect!GoesOn(f, step, text), NEW x \in Inspect!Files,
             saved' = [saved EXCEPT ![f.session] = x], UNCHANGED <<buffer, exchange, missed>>
      PROVE  Inspect!BuffersThere'
  <2>1. Exchanges'
    BY <1>a, <1>d DEF Exchanges
  <2>2. ASSUME NEW g \in flushes, NEW h, h.session = g.session, h.held = g.held,
               h.session = f.session \/ h.step = g.step PROVE Good(h)'
    BY <1>a, <1>d, <1>0, <2>2, FlushFields DEF Inspect!Held, Good, Inspect!TypeOK
  <2>3. ASSUME NEW g \in flushes' PROVE Good(g)'
    <3>1. CASE g \in flushes
      BY <2>2, <3>1
    <3>2. CASE g = [f EXCEPT !.step = step, !.text = text]
      <4>1. g.session = f.session /\ g.held = f.held
        <5>1. Inspect!TypedFlush(f)
          BY DEF Inspect!TypeOK
        <5>2. QED
          BY <3>2, <5>1 DEF Inspect!TypedFlush, Inspect!Flushes
      <4>2. QED
        BY <4>1, <2>2
    <3>3. QED
      BY <1>d, <3>1, <3>2 DEF Inspect!GoesOn
  <2>4. QED
    BY <2>1, <2>3, <1>b
<1>1. ASSUME NEW s \in Inspected, Inspect!CaptureRequest(s) PROVE Inspect!BuffersThere'
  <2>1. clock' \in Nat
    BY <1>1 DEF Inspect!CaptureRequest, Inspect!Tick, Inspect!TypeOK
  <2>2. (IF buffer[s] = None THEN Inspect!NoResponse ELSE buffer[s].resp) \in Inspect!Responses
    BY BufferFields DEF Inspect!NoResponse, Inspect!Responses
  <2> DEFINE b == [req |-> clock', resp |-> IF buffer[s] = None THEN Inspect!NoResponse ELSE buffer[s].resp, dirty |-> TRUE]
  <2>3. b \in Inspect!Buffers
    BY <2>1, <2>2 DEF Inspect!Buffers
  <2>4. /\ buffer' = [buffer EXCEPT ![s] = b] /\ exchange' = [exchange EXCEPT ![s] = "sent"]
        /\ exchange[s] # "gone" /\ Inspect!Disturb(s) /\ UNCHANGED <<saved, flushes>>
    BY <1>1 DEF Inspect!CaptureRequest
  <2> HIDE DEF b
  <2>5. QED
    BY <2>3, <2>4, <1>b, <1>c
<1>2. ASSUME NEW s \in Inspected, Inspect!CaptureStatus(s) PROVE Inspect!BuffersThere'
  <2>1. clock' \in Nat
    BY <1>2 DEF Inspect!CaptureStatus, Inspect!Tick, Inspect!TypeOK
  <2>2. buffer[s] # None
    BY <1>2 DEF Inspect!CaptureStatus, Inspect!BuffersThere
  <2> DEFINE b == [req |-> buffer[s].req, resp |-> [at |-> clock', text |-> buffer[s].resp.text], dirty |-> TRUE]
  <2>3. b \in Inspect!Buffers
    BY <2>1, <2>2, BufferFields DEF Inspect!Buffers, Inspect!Responses
  <2>4. /\ buffer' = [buffer EXCEPT ![s] = b] /\ exchange' = [exchange EXCEPT ![s] = "answered"]
        /\ exchange[s] # "gone" /\ Inspect!Disturb(s) /\ UNCHANGED <<saved, flushes>>
    BY <1>2 DEF Inspect!CaptureStatus
  <2> HIDE DEF b
  <2>5. QED
    BY <2>3, <2>4, <1>b, <1>c
<1>3. ASSUME NEW s \in Inspected, Inspect!TurnEnd(s) PROVE Inspect!BuffersThere'
  <2>1. clock' \in Nat
    BY <1>3 DEF Inspect!TurnEnd, Inspect!Tick, Inspect!TypeOK
  <2>2. buffer[s] # None
    BY <1>3 DEF Inspect!TurnEnd, Inspect!BuffersThere
  <2> DEFINE b == [req |-> buffer[s].req, resp |-> [at |-> clock', text |-> buffer[s].req], dirty |-> TRUE]
  <2>3. b \in Inspect!Buffers
    BY <2>1, <2>2, BufferFields DEF Inspect!Buffers, Inspect!Responses
  <2>4. /\ buffer' = [buffer EXCEPT ![s] = b] /\ exchange' = [exchange EXCEPT ![s] = "idle"]
        /\ exchange[s] # "gone" /\ Inspect!Disturb(s) /\ flushes' = flushes \cup {Inspect!Flush(s)} /\ UNCHANGED saved
    BY <1>3 DEF Inspect!TurnEnd
  <2> HIDE DEF b
  <2>5. Exchanges' /\ \A f \in flushes : Good(f)'
    BY <2>3, <2>4, <1>c
  <2>6. ASSUME NEW f, f = Inspect!Flush(s) PROVE Good(f)'
    BY <2>3, <2>4, <2>6, <1>0 DEF Inspect!Flush, Inspect!Held, Good, Inspect!TypeOK
  <2>7. QED
    BY <2>4, <2>5, <2>6, <1>b
<1>4. ASSUME NEW s \in Inspected, Inspect!EndWithoutTurn(s) PROVE Inspect!BuffersThere'
  <2>1. Exchanges'
    BY <1>4, <1>a DEF Inspect!EndWithoutTurn, Exchanges, Inspect!TypeOK
  <2>2. \A f \in flushes : Good(f)'
    BY <1>4, <1>a, FlushFields DEF Inspect!EndWithoutTurn, Good, Inspect!TypeOK,
          Inspect!Held
  <2>3. QED
    BY <2>1, <2>2, <1>b, <1>4 DEF Inspect!EndWithoutTurn
\* The object of the buffer lives on in the flushes that have it.
<1>5. ASSUME NEW s \in Inspected, Inspect!Delete(s) PROVE Inspect!BuffersThere'
  <2>1. Exchanges'
    BY <1>5, <1>a DEF Inspect!Delete, Exchanges, Inspect!TypeOK
  <2>2. ASSUME NEW f \in flushes' PROVE Good(f)'
    <3>1. PICK g \in flushes : f = IF g.session = s THEN [g EXCEPT !.held = buffer[s]] ELSE g
      BY <1>5 DEF Inspect!Delete
    <3>2. Inspect!TypedFlush(g)
      BY DEF Inspect!TypeOK
    <3>3. CASE g.session # s
      BY <3>1, <3>3, <1>5, <1>a, FlushFields DEF Inspect!Delete, Good, Inspect!Held,
            Inspect!TypeOK, Inspect!Pasts
    <3>4. CASE g.session = s
      <4>1. f.held = buffer[s] /\ f.session = s /\ f.step = g.step
        BY <3>1, <3>2, <3>4 DEF Inspect!TypedFlush, Inspect!Flushes
      <4>2. g.held = None /\ buffer[s] # None
        BY <1>5, <3>4, <1>a DEF Inspect!Delete, Good, Inspect!Held
      <4>3. s \in missed'.leftover
        BY <1>5, <3>4 DEF Inspect!Delete, Inspect!FlushesOf, Inspect!TypeOK, Inspect!Pasts
      <4>4. exchange'[s] = "gone"
        BY <1>5 DEF Inspect!Delete, Inspect!TypeOK
      <4>5. QED
        BY <4>1, <4>2, <4>3, <4>4 DEF Good, Inspect!Held
    <3>5. QED
      BY <3>3, <3>4
  <2>3. QED
    BY <2>1, <2>2, <1>b
<1>6. ASSUME NEW s \in Inspected, Inspect!Show(s) PROVE Inspect!BuffersThere'
  BY <1>6, <1>a, <1>b DEF Inspect!Show, Exchanges, Good, Inspect!Held
<1>7. ASSUME NEW f \in flushes, Inspect!Mkdir(f) PROVE Inspect!BuffersThere'
  <2> DEFINE x == IF saved[f.session] = None THEN Inspect!NoSnapshot ELSE saved[f.session]
  <2>1. x \in Inspect!Files
    BY FlushFields DEF Inspect!NoSnapshot, Inspect!NoResponse, Inspect!Responses,
          Inspect!Files, Inspect!TypeOK, Inspect!Maybe
  <2>2. saved' = [saved EXCEPT ![f.session] = x] /\ Inspect!GoesOn(f, "made", 0) /\ UNCHANGED <<buffer, exchange, missed>>
    BY <1>7 DEF Inspect!Mkdir
  <2> HIDE DEF x
  <2>3. QED
    BY <2>1, <2>2, <1>d
\* Nothing is in memory after the end of the daemon, and no flush is under way.
<1>8. ASSUME Inspect!Stopped, saved' = saved PROVE Inspect!BuffersThere'
  BY <1>8, <1>b DEF Inspect!Stopped, Exchanges
<1>9. ASSUME NEW f \in flushes, Inspect!WriteRequest(f) PROVE Inspect!BuffersThere'
  <2>1. saved[f.session] \in Inspect!Files
    BY <1>9, FlushFields DEF Inspect!WriteRequest, Inspect!TypeOK, Inspect!Maybe
  <2>2. [req |-> Torn, resp |-> saved[f.session].resp] \in Inspect!Files
    BY <2>1 DEF Inspect!Files
  <2>3. QED
    BY <1>9, <2>2, <1>d DEF Inspect!WriteRequest
<1>10. ASSUME NEW f \in flushes, Inspect!WriteResponse(f) PROVE Inspect!BuffersThere'
  <2>1. [req |-> f.text, resp |-> Torn] \in Inspect!Files
    BY <1>10, FlushFields DEF Inspect!Files, Inspect!WriteResponse
  <2>2. QED
    BY <1>10, <2>1, <1>d DEF Inspect!WriteResponse
<1>11. ASSUME NEW f \in flushes, Inspect!MarkClean(f) PROVE Inspect!BuffersThere'
  <2>1. \A s \in Inspected : buffer'[s] = None <=> buffer[s] = None
    <3>1. CASE f.held # None
      BY <1>11, <3>1 DEF Inspect!MarkClean
    <3>2. CASE f.held = None
      <4>1. buffer[f.session] \in Inspect!Buffers /\ f.session \in Inspected
        BY <3>2, FlushFields DEF Inspect!Held
      <4>2. [req |-> buffer[f.session].req, resp |-> buffer[f.session].resp, dirty |-> FALSE] \in Inspect!Buffers
        BY <4>1 DEF Inspect!Buffers
      <4>3. QED
        BY <1>0, <1>11, <3>2, <4>1, <4>2 DEF Inspect!MarkClean, Inspect!TypeOK
    <3>3. QED
      BY <3>1, <3>2
  <2>2. Exchanges'
    BY <1>a, <1>11, <2>1 DEF Exchanges, Inspect!MarkClean
  <2>3. \A s \in Inspected : saved[s] # None => saved'[s] # None
    <3>1. saved[f.session] \in Inspect!Files
      BY <1>11, FlushFields DEF Inspect!MarkClean, Inspect!TypeOK, Inspect!Maybe
    <3>2. [req |-> saved[f.session].req, resp |-> f.text] \in Inspect!Files
      BY <1>11, <3>1, FlushFields DEF Inspect!Files, Inspect!MarkClean
    <3>3. QED
      BY <1>0, <1>11, <3>2, FlushFields DEF Inspect!MarkClean, Inspect!TypeOK
  <2>4. ASSUME NEW g \in flushes PROVE Good(g)'
    BY <1>a, <1>11, <2>1, <2>3, FlushFields DEF Inspect!MarkClean, Good, Inspect!Held
  <2>5. QED
    BY <2>2, <2>4, <1>b, <1>11 DEF Inspect!MarkClean
<1>12. ASSUME NEW c \in polls, Inspect!Answer(c) PROVE Inspect!BuffersThere'
  BY <1>12, <1>a, <1>b DEF Inspect!Answer, Exchanges, Good, Inspect!Held
<1>13. ASSUME NEW c \in polls, Inspect!Apply(c) PROVE Inspect!BuffersThere'
  <2>1. missed'.leftover = missed.leftover
    BY <1>13 DEF Inspect!Apply, Inspect!TypeOK, Inspect!Pasts
  <2>2. QED
    BY <1>13, <2>1, <1>a, <1>b DEF Inspect!Apply, Exchanges, Good, Inspect!Held
<1>14. ASSUME Inspect!Restart PROVE Inspect!BuffersThere'
  BY <1>14, <1>8 DEF Inspect!Restart
<1>15. ASSUME Inspect!Hide PROVE Inspect!BuffersThere'
  BY <1>15, <1>a, <1>b DEF Inspect!Hide, Exchanges, Good, Inspect!Held
<1>16. ASSUME Inspect!refresh PROVE Inspect!BuffersThere'
  BY <1>16, <1>a, <1>b DEF Inspect!refresh, Exchanges, Good, Inspect!Held
<1>17. CASE UNCHANGED Inspect!vars
  BY <1>17, <1>a, <1>b DEF Inspect!vars, Exchanges, Good, Inspect!Held
<1>18. ASSUME NEW f \in flushes, Inspect!WriteFails(f) PROVE Inspect!BuffersThere'
  BY <1>18, <1>8 DEF Inspect!WriteFails
<1>19. QED
  BY <1>1, <1>2, <1>3, <1>4, <1>5, <1>6, <1>7, <1>9, <1>10, <1>11, <1>12, <1>13, <1>14,
        <1>15, <1>16,
     <1>17, <1>18 DEF Inspect!Next

\* What FlushWritesBuffer and CleanIsSaved say of one session
FlushedAs(s) ==
  s \notin missed.mixed =>
    /\ \A f \in Inspect!FlushesOf(s) :
         /\ Inspect!FlushesOf(s) = {f}
         /\ f.held = None =>
              /\ buffer[s].dirty
              /\ f.step = "request" => f.text = buffer[s].req
              /\ f.step = "response" => f.text = buffer[s].resp /\ (saved[s] # None => saved[s].req = buffer[s].req)
    /\ buffer[s] # None /\ ~buffer[s].dirty => saved[s] = [req |-> buffer[s].req, resp |-> buffer[s].resp]

\* The two parts of the invariant hold when they hold of every session, now and in the next state.
LEMMA FlushedAsSplit ==
  ASSUME \A s \in Inspected : FlushedAs(s)
  PROVE  Inspect!FlushWritesBuffer /\ Inspect!CleanIsSaved
BY DEF FlushedAs, Inspect!FlushWritesBuffer, Inspect!CleanIsSaved

\* FlushedAs in the next state
LEMMA FlushedAsSplitNext ==
  ASSUME \A s \in Inspected : FlushedAs(s)'
  PROVE  Inspect!FlushWritesBuffer' /\ Inspect!CleanIsSaved'
BY DEF FlushedAs, Inspect!FlushWritesBuffer, Inspect!CleanIsSaved

\* The parts of every session make the parts of the invariant.
LEMMA FlushedAsJoin ==
  ASSUME Inspect!FlushWritesBuffer, Inspect!CleanIsSaved
  PROVE  \A s \in Inspected : FlushedAs(s)
BY DEF FlushedAs, Inspect!FlushWritesBuffer, Inspect!CleanIsSaved

\* The flushes of one session, when one flush goes on
LEMMA FlushesGoOn ==
  ASSUME Inspect!TypeOK, NEW f \in flushes, NEW step, NEW text, Inspect!GoesOn(f, step, text), NEW s
  PROVE  /\ s # f.session => Inspect!FlushesOf(s)' = Inspect!FlushesOf(s)
         /\ Inspect!FlushesOf(f.session) = {f} => Inspect!FlushesOf(f.session)' = {[f EXCEPT !.step = step, !.text = text]}
         /\ LET g == [f EXCEPT !.step = step, !.text = text] IN
            g.session = f.session /\ g.held = f.held /\ g.step = step /\ g.text = text
<1> DEFINE g == [f EXCEPT !.step = step, !.text = text]
<1>1. Inspect!TypedFlush(f)
  BY DEF Inspect!TypeOK
<1>2. g.session = f.session /\ g.held = f.held /\ g.step = step /\ g.text = text
  BY <1>1 DEF Inspect!TypedFlush, Inspect!Flushes
<1>3. flushes' = (flushes \ {f}) \cup {g}
  BY DEF Inspect!GoesOn
<1> HIDE DEF g
<1>4. s # f.session => Inspect!FlushesOf(s)' = Inspect!FlushesOf(s)
  BY <1>2, <1>3 DEF Inspect!FlushesOf
<1>5. Inspect!FlushesOf(f.session) = {f} => Inspect!FlushesOf(f.session)' = {g}
  BY <1>2, <1>3 DEF Inspect!FlushesOf
<1>6. QED
  BY <1>2, <1>4, <1>5 DEF g

\* A flush goes on with text, and with x in the files, as its buffer is.
AsBuffer(f, step, text, x) ==
  f.session \notin missed.mixed /\ f.held = None =>
    /\ step = "request" => text = buffer[f.session].req
    /\ step = "response" => text = buffer[f.session].resp /\ x.req = buffer[f.session].req

\* Every step keeps what a flush writes the same as the buffer, and what is clean on disk.
LEMMA FlushedAsStep ==
  ASSUME Inspect!InspectAssumption, Inspect!TypeOK, Inspect!BuffersThere,
         Inspect!FlushWritesBuffer, Inspect!CleanIsSaved, [Inspect!Next]_Inspect!vars
  PROVE  Inspect!FlushWritesBuffer' /\ Inspect!CleanIsSaved'
<1>0. None \notin Inspect!Buffers /\ None \notin Inspect!Files
  BY DEF Inspect!InspectAssumption, Inspect!Buffers, Inspect!Files
<1>a. \A s \in Inspected : FlushedAs(s)
  BY FlushedAsJoin
<1> SUFFICES ASSUME NEW s \in Inspected PROVE FlushedAs(s)'
  BY FlushedAsSplitNext
\* Another session
<1>b. ASSUME Inspect!FlushesOf(s)' = Inspect!FlushesOf(s), buffer'[s] = buffer[s], saved'[s] = saved[s],
             s \notin missed'.mixed => s \notin missed.mixed
      PROVE  FlushedAs(s)'
  <2>1. FlushedAs(s)
    BY <1>a
  <2>2. QED
    BY <1>b, <2>1 DEF FlushedAs
<1>c. ASSUME NEW t \in Inspected, Inspect!Disturb(t)
      PROVE  /\ s \notin missed'.mixed => s \notin missed.mixed
             /\ t \notin missed'.mixed => Inspect!FlushesOf(t) = {}
  BY <1>c DEF Inspect!Disturb, Inspect!TypeOK, Inspect!Pasts
\* A capture
<1>d. ASSUME NEW t \in Inspected, NEW b \in Inspect!Buffers, b.dirty, buffer' = [buffer EXCEPT ![t] = b], Inspect!Disturb(t),
             UNCHANGED <<saved, flushes>>
      PROVE  FlushedAs(s)'
  <2>1. Inspect!FlushesOf(s)' = Inspect!FlushesOf(s)
    BY <1>d DEF Inspect!FlushesOf
  <2>2. CASE s # t
    BY <2>1, <2>2, <1>b, <1>c, <1>d DEF Inspect!TypeOK
  <2>3. CASE s = t
    <3>1. s \notin missed'.mixed => Inspect!FlushesOf(s)' = {}
      BY <2>1, <2>3, <1>c, <1>d
    <3>2. buffer'[s] = b
      BY <1>d, <2>3 DEF Inspect!TypeOK
    <3>3. QED
      BY <3>1, <3>2, <1>d DEF FlushedAs
  <2>4. QED
    BY <2>2, <2>3
\* A buffer that a flush writes is dirty, or the flush holds one of a deleted session.
<1>e. ASSUME NEW f \in flushes, f.session = s, s \notin missed.mixed
      PROVE  /\ Inspect!FlushesOf(s) = {f}
             /\ f.held = None => buffer[s] \in Inspect!Buffers /\ buffer[s].dirty /\ Inspect!Held(f) = buffer[s]
             /\ f.held # None => buffer[s] = None
  <2>1. f \in Inspect!FlushesOf(s) /\ FlushedAs(s)
    BY <1>e, <1>a DEF Inspect!FlushesOf
  <2>2. f.held # None => buffer[s] = None
    BY <1>e DEF Inspect!BuffersThere
  <2>3. f.held = None => buffer[s] \in Inspect!Buffers /\ Inspect!Held(f) = buffer[s]
    BY <1>e, FlushFields DEF Inspect!Held
  <2>4. QED
    BY <2>1, <2>2, <2>3, <1>e DEF FlushedAs
\* A flush goes on.
<1>f. ASSUME NEW f \in flushes, NEW step, NEW text, Inspect!GoesOn(f, step, text), NEW x \in Inspect!Files,
             saved' = [saved EXCEPT ![f.session] = x], UNCHANGED <<buffer, missed>>,
             AsBuffer(f, step, text, x)
      PROVE  FlushedAs(s)'
  <2>1. CASE s # f.session
    BY <2>1, <1>b, <1>f, FlushesGoOn DEF Inspect!TypeOK
  <2>2. CASE s = f.session /\ s \notin missed.mixed
    <3> DEFINE g == [f EXCEPT !.step = step, !.text = text]
    <3>1. Inspect!FlushesOf(s)' = {g} /\ g.held = f.held /\ g.step = step /\ g.text = text
      BY <2>2, <1>e, <1>f, FlushesGoOn
    <3>2. saved'[s] = x /\ buffer' = buffer
      BY <2>2, <1>f DEF Inspect!TypeOK
    <3> HIDE DEF g
    <3>3. buffer[s] # None => f.held = None /\ buffer[s].dirty
      BY <1>e, <2>2
    <3>4. QED
      BY <3>1, <3>2, <3>3, <2>2, <1>0, <1>e, <1>f DEF FlushedAs, AsBuffer
  <2>3. CASE s \in missed.mixed
    BY <2>3, <1>f DEF FlushedAs
  <2>4. QED
    BY <2>1, <2>2, <2>3
<1>1. ASSUME NEW t \in Inspected, Inspect!CaptureRequest(t) PROVE FlushedAs(s)'
  <2>1. clock' \in Nat
    BY <1>1 DEF Inspect!CaptureRequest, Inspect!Tick, Inspect!TypeOK
  <2>2. (IF buffer[t] = None THEN Inspect!NoResponse ELSE buffer[t].resp) \in Inspect!Responses
    BY BufferFields DEF Inspect!NoResponse, Inspect!Responses
  <2> DEFINE b == [req |-> clock', resp |-> IF buffer[t] = None THEN Inspect!NoResponse ELSE buffer[t].resp, dirty |-> TRUE]
  <2>3. b \in Inspect!Buffers /\ b.dirty
    BY <2>1, <2>2 DEF Inspect!Buffers
  <2>4. buffer' = [buffer EXCEPT ![t] = b] /\ Inspect!Disturb(t) /\ UNCHANGED <<saved, flushes>>
    BY <1>1 DEF Inspect!CaptureRequest
  <2> HIDE DEF b
  <2>5. QED
    BY <2>3, <2>4, <1>d
<1>2. ASSUME NEW t \in Inspected, Inspect!CaptureStatus(t) PROVE FlushedAs(s)'
  <2>1. clock' \in Nat
    BY <1>2 DEF Inspect!CaptureStatus, Inspect!Tick, Inspect!TypeOK
  <2>2. buffer[t] # None
    BY <1>2 DEF Inspect!CaptureStatus, Inspect!BuffersThere
  <2> DEFINE b == [req |-> buffer[t].req, resp |-> [at |-> clock', text |-> buffer[t].resp.text], dirty |-> TRUE]
  <2>3. b \in Inspect!Buffers /\ b.dirty
    BY <2>1, <2>2, BufferFields DEF Inspect!Buffers, Inspect!Responses
  <2>4. buffer' = [buffer EXCEPT ![t] = b] /\ Inspect!Disturb(t) /\ UNCHANGED <<saved, flushes>>
    BY <1>2 DEF Inspect!CaptureStatus
  <2> HIDE DEF b
  <2>5. QED
    BY <2>3, <2>4, <1>d
\* The flush of this turn is the only one of the session, or the session is mixed.
<1>3. ASSUME NEW t \in Inspected, Inspect!TurnEnd(t) PROVE FlushedAs(s)'
  <2>1. /\ buffer'[t].dirty /\ buffer'[t] = [req |-> buffer[t].req, resp |-> [at |-> clock', text |-> buffer[t].req], dirty |-> TRUE]
        /\ Inspect!Disturb(t) /\ flushes' = flushes \cup {Inspect!Flush(t)} /\ UNCHANGED saved
        /\ s # t => buffer'[s] = buffer[s]
    BY <1>3 DEF Inspect!TurnEnd, Inspect!TypeOK
  <2>2. Inspect!Flush(t).session = t /\ Inspect!Flush(t).held = None /\ Inspect!Flush(t).step = "mkdir"
    BY DEF Inspect!Flush
  <2>3. Inspect!FlushesOf(s)' = IF s = t THEN Inspect!FlushesOf(s) \cup {Inspect!Flush(t)} ELSE Inspect!FlushesOf(s)
    BY <2>1, <2>2 DEF Inspect!FlushesOf
  <2>4. CASE s # t
    BY <2>1, <2>3, <2>4, <1>b, <1>c
  <2>5. CASE s = t
    <3>1. s \notin missed'.mixed => Inspect!FlushesOf(s)' = {Inspect!Flush(t)}
      BY <2>1, <2>3, <2>5, <1>c
    <3>2. QED
      BY <3>1, <2>1, <2>2, <2>5 DEF FlushedAs
  <2>6. QED
    BY <2>4, <2>5
<1>4. ASSUME NEW t \in Inspected, Inspect!EndWithoutTurn(t) PROVE FlushedAs(s)'
  BY <1>4, <1>b DEF Inspect!EndWithoutTurn, Inspect!FlushesOf
\* The buffer is gone; the flush, if there is one, holds it.
<1>5. ASSUME NEW t \in Inspected, Inspect!Delete(t) PROVE FlushedAs(s)'
  <2> DEFINE h(f) == IF f.session = t THEN [f EXCEPT !.held = buffer[t]] ELSE f
  <2>1. /\ flushes' = {h(f) : f \in flushes} /\ missed'.mixed = missed.mixed /\ exchange[t] = "idle"
        /\ buffer' = [buffer EXCEPT ![t] = None] /\ saved' = [saved EXCEPT ![t] = None]
    BY <1>5 DEF Inspect!Delete, Inspect!TypeOK, Inspect!Pasts
  <2>2. ASSUME NEW f \in flushes PROVE h(f).session = f.session /\ (f.session # t => h(f) = f)
                                       /\ (f.session = t => h(f).held = buffer[t])
    <3>1. Inspect!TypedFlush(f)
      BY DEF Inspect!TypeOK
    <3>2. QED
      BY <3>1 DEF Inspect!TypedFlush, Inspect!Flushes
  <2> HIDE DEF h
  <2>3. CASE s # t
    <3>1. Inspect!FlushesOf(s)' = Inspect!FlushesOf(s)
      BY <2>1, <2>2, <2>3 DEF Inspect!FlushesOf
    <3>2. QED
      BY <3>1, <2>1, <2>3, <1>b DEF Inspect!TypeOK
  <2>4. CASE s = t /\ s \notin missed.mixed
    <3>1. buffer'[s] = None
      BY <2>1, <2>4 DEF Inspect!TypeOK
    <3>2. ASSUME NEW g \in Inspect!FlushesOf(s)' PROVE Inspect!FlushesOf(s)' = {g} /\ g.held # None
      <4>1. PICK f \in flushes : g = h(f) /\ f.session = s
        BY <2>1, <2>2, <3>2 DEF Inspect!FlushesOf
      <4>2. Inspect!FlushesOf(s) = {f} /\ buffer[s] # None
        BY <4>1, <2>1, <2>4, <1>e, <1>0 DEF Inspect!BuffersThere
      <4>3. Inspect!FlushesOf(s)' = {h(f)}
        BY <4>1, <4>2, <2>1, <2>2 DEF Inspect!FlushesOf
      <4>4. QED
        BY <4>1, <4>2, <4>3, <2>2, <2>4
    <3>3. QED
      BY <3>1, <3>2 DEF FlushedAs
  <2>5. CASE s \in missed.mixed
    BY <2>1, <2>5 DEF FlushedAs
  <2>6. QED
    BY <2>3, <2>4, <2>5
<1>6. ASSUME NEW t \in Inspected, Inspect!Show(t) PROVE FlushedAs(s)'
  BY <1>6, <1>b DEF Inspect!Show, Inspect!FlushesOf
<1>7. ASSUME NEW f \in flushes, Inspect!Mkdir(f) PROVE FlushedAs(s)'
  <2> DEFINE x == IF saved[f.session] = None THEN Inspect!NoSnapshot ELSE saved[f.session]
  <2>1. saved' = [saved EXCEPT ![f.session] = x] /\ Inspect!GoesOn(f, "made", 0) /\ UNCHANGED <<buffer, missed>>
    BY <1>7 DEF Inspect!Mkdir
  <2>2. x \in Inspect!Files
    BY FlushFields DEF Inspect!NoSnapshot, Inspect!NoResponse, Inspect!Responses,
          Inspect!Files, Inspect!TypeOK, Inspect!Maybe
  <2> HIDE DEF x
  <2>3. AsBuffer(f, "made", 0, x)
    BY DEF AsBuffer
  <2>4. QED
    BY <2>1, <2>2, <2>3, <1>f
<1>8. ASSUME Inspect!Stopped PROVE FlushedAs(s)'
  BY <1>8 DEF Inspect!Stopped, FlushedAs, Inspect!FlushesOf
<1>9. ASSUME NEW f \in flushes, Inspect!WriteRequest(f) PROVE FlushedAs(s)'
  <2>1. saved[f.session] \in Inspect!Files
    BY <1>9, FlushFields DEF Inspect!WriteRequest, Inspect!TypeOK, Inspect!Maybe
  <2>2. [req |-> Torn, resp |-> saved[f.session].resp] \in Inspect!Files
    BY <2>1 DEF Inspect!Files
  <2> DEFINE x == [req |-> Torn, resp |-> saved[f.session].resp]
  <2>3. AsBuffer(f, "request", Inspect!Held(f).req, x)
    BY DEF AsBuffer, Inspect!Held
  <2>4. saved' = [saved EXCEPT ![f.session] = x] /\ Inspect!GoesOn(f, "request", Inspect!Held(f).req) /\ UNCHANGED <<buffer, missed>>
    BY <1>9 DEF Inspect!WriteRequest
  <2> HIDE DEF x
  <2>5. QED
    BY <2>2, <2>3, <2>4, <1>f DEF x
\* The file of the request holds what the buffer does.
<1>10. ASSUME NEW f \in flushes, Inspect!WriteResponse(f) PROVE FlushedAs(s)'
  <2>1. ASSUME f.session \notin missed.mixed, f.held = None
        PROVE  f.text = buffer[f.session].req /\ Inspect!Held(f).resp = buffer[f.session].resp
    <3>1. FlushedAs(f.session) /\ f \in Inspect!FlushesOf(f.session)
      BY <2>1, <1>a, FlushFields DEF Inspect!FlushesOf
    <3>2. QED
      BY <3>1, <2>1, <1>10 DEF FlushedAs, Inspect!WriteResponse, Inspect!Held
  <2> DEFINE x == [req |-> f.text, resp |-> Torn]
  <2>2. /\ saved' = [saved EXCEPT ![f.session] = x] /\ Inspect!GoesOn(f, "response", Inspect!Held(f).resp)
        /\ UNCHANGED <<buffer, missed>> /\ x.req = f.text /\ x \in Inspect!Files
    BY <1>10, FlushFields DEF Inspect!WriteResponse, Inspect!Files
  <2>3. AsBuffer(f, "response", Inspect!Held(f).resp, x)
    BY <2>1, <2>2 DEF AsBuffer
  <2> HIDE DEF x
  <2>4. QED
    BY <2>2, <2>3, <1>f
<1>11. ASSUME NEW f \in flushes, Inspect!MarkClean(f) PROVE FlushedAs(s)'
  <2>1. Inspect!FlushesOf(s)' = Inspect!FlushesOf(s) \ {f}
    BY <1>11 DEF Inspect!MarkClean, Inspect!FlushesOf
  <2>2. CASE s # f.session
    <3>1. Inspect!FlushesOf(s)' = Inspect!FlushesOf(s)
      BY <2>1, <2>2 DEF Inspect!FlushesOf
    <3>2. QED
      BY <3>1, <2>2, <1>11, <1>b DEF Inspect!MarkClean, Inspect!TypeOK
  <2>3. CASE s = f.session /\ s \notin missed.mixed
    <3>1. Inspect!FlushesOf(s)' = {}
      BY <2>1, <2>3, <1>e
    <3>2. CASE f.held # None
      <4>1. buffer'[s] = None
        BY <3>2, <2>3, <1>e, <1>11 DEF Inspect!MarkClean
      <4>2. QED
        BY <3>1, <4>1 DEF FlushedAs
    <3>3. CASE f.held = None
      <4>1. FlushedAs(s) /\ f \in Inspect!FlushesOf(s) /\ f.step = "response" /\ saved[s] # None
        BY <2>3, <1>a, <1>11 DEF Inspect!FlushesOf, Inspect!MarkClean
      <4>2. f.text = buffer[s].resp /\ saved[s].req = buffer[s].req
        BY <4>1, <3>3, <2>3 DEF FlushedAs
      <4>3. /\ buffer'[s] = [req |-> buffer[s].req, resp |-> buffer[s].resp, dirty |-> FALSE]
            /\ saved'[s] = [req |-> saved[s].req, resp |-> f.text]
        BY <1>11, <3>3, <2>3 DEF Inspect!MarkClean, Inspect!TypeOK
      <4>4. QED
        BY <4>2, <4>3, <3>1 DEF FlushedAs
    <3>4. QED
      BY <3>2, <3>3
  <2>4. CASE s \in missed.mixed
    BY <2>4, <1>11 DEF FlushedAs, Inspect!MarkClean
  <2>5. QED
    BY <2>2, <2>3, <2>4
<1>12. ASSUME NEW c \in polls, Inspect!Answer(c) PROVE FlushedAs(s)'
  BY <1>12, <1>b DEF Inspect!Answer, Inspect!FlushesOf
<1>13. ASSUME NEW c \in polls, Inspect!Apply(c) PROVE FlushedAs(s)'
  BY <1>13, <1>b DEF Inspect!Apply, Inspect!FlushesOf, Inspect!TypeOK, Inspect!Pasts
<1>15. ASSUME Inspect!Hide PROVE FlushedAs(s)'
  BY <1>15, <1>b DEF Inspect!Hide, Inspect!FlushesOf
<1>16. ASSUME Inspect!refresh PROVE FlushedAs(s)'
  BY <1>16, <1>b DEF Inspect!refresh, Inspect!FlushesOf
<1>17. CASE UNCHANGED Inspect!vars
  BY <1>17, <1>b DEF Inspect!vars, Inspect!FlushesOf
<1>18. QED
  BY <1>1, <1>2, <1>3, <1>4, <1>5, <1>6, <1>7, <1>8, <1>9, <1>10, <1>11, <1>12, <1>13,
        <1>15, <1>16,
     <1>17 DEF Inspect!Next, Inspect!Restart, Inspect!WriteFails

\* Every step leaves nothing of a deleted session, unless a flush was under way.
LEMMA DeletedIsGoneStep ==
  ASSUME Inspect!InspectAssumption, Inspect!TypeOK, Inspect!BuffersThere, Inspect!DeletedIsGone,
         [Inspect!Next]_Inspect!vars
  PROVE  Inspect!DeletedIsGone'
<1> USE DEF Inspect!TypeOK
<1>0. Inspect!BuffersThere'
  BY BuffersThereStep
<1> SUFFICES /\ \A s \in Inspected \ missed'.leftover : exchange'[s] = "gone" => saved'[s] = None
             /\ missed'.ended => missed'.leftover # {}
  BY <1>0 DEF Inspect!DeletedIsGone, Inspect!BuffersThere
<1>a. ASSUME NEW s \in Inspected, Inspect!Disturb(s)
      PROVE  missed'.leftover = missed.leftover /\ missed'.ended = missed.ended
  BY <1>a DEF Inspect!Disturb, Inspect!Pasts
<1>1. ASSUME NEW s \in Inspected, Inspect!CaptureRequest(s) \/ Inspect!CaptureStatus(s) \/ Inspect!TurnEnd(s)
      PROVE  /\ \A t \in Inspected \ missed'.leftover : exchange'[t] = "gone" => saved'[t] = None
             /\ missed'.ended => missed'.leftover # {}
  BY <1>1, <1>a DEF Inspect!CaptureRequest, Inspect!CaptureStatus, Inspect!TurnEnd,
        Inspect!DeletedIsGone
<1>2. ASSUME NEW s \in Inspected, Inspect!EndWithoutTurn(s)
      PROVE  /\ \A t \in Inspected \ missed'.leftover : exchange'[t] = "gone" => saved'[t] = None
             /\ missed'.ended => missed'.leftover # {}
  BY <1>2 DEF Inspect!EndWithoutTurn, Inspect!DeletedIsGone
<1>3. ASSUME NEW s \in Inspected, Inspect!Delete(s)
      PROVE  /\ \A t \in Inspected \ missed'.leftover : exchange'[t] = "gone" => saved'[t] = None
             /\ missed'.ended => missed'.leftover # {}
  <2>1. missed'.ended = missed.ended /\ missed.leftover \subseteq missed'.leftover
    BY <1>3 DEF Inspect!Delete, Inspect!Pasts
  <2>2. \A t \in Inspected : t # s => exchange'[t] = exchange[t] /\ saved'[t] = saved[t]
    BY <1>3 DEF Inspect!Delete
  <2>3. saved'[s] = None
    BY <1>3 DEF Inspect!Delete
  <2>4. QED
    BY <2>1, <2>2, <2>3 DEF Inspect!DeletedIsGone
\* A flush that is under way is of a session that is there, or of one that is excepted.
<1>4. ASSUME NEW f \in flushes, NEW x, saved' = [saved EXCEPT ![f.session] = x], UNCHANGED <<exchange, missed>>
      PROVE  /\ \A t \in Inspected \ missed'.leftover : exchange'[t] = "gone" => saved'[t] = None
             /\ missed'.ended => missed'.leftover # {}
  BY <1>4, FlushFields DEF Inspect!DeletedIsGone, Inspect!BuffersThere
\* A flush fails only when its session was deleted meanwhile.
<1>5. ASSUME NEW f \in flushes, Inspect!WriteFails(f)
      PROVE  /\ \A t \in Inspected \ missed'.leftover : exchange'[t] = "gone" => saved'[t] = None
             /\ missed'.ended => missed'.leftover # {}
  <2>1. f.session \in missed.leftover
    BY <1>5 DEF Inspect!WriteFails, Inspect!BuffersThere
  <2>2. missed'.leftover = missed.leftover
    BY <1>5 DEF Inspect!WriteFails, Inspect!Pasts
  <2>3. QED
    BY <1>5, <2>1, <2>2 DEF Inspect!WriteFails, Inspect!Stopped, Inspect!DeletedIsGone
<1>6. CASE Inspect!Restart
  BY <1>6 DEF Inspect!Restart, Inspect!Stopped, Inspect!DeletedIsGone
<1>7. ASSUME NEW s \in Inspected, Inspect!Show(s)
      PROVE  /\ \A t \in Inspected \ missed'.leftover : exchange'[t] = "gone" => saved'[t] = None
             /\ missed'.ended => missed'.leftover # {}
  BY <1>7 DEF Inspect!Show, Inspect!DeletedIsGone
<1>8. ASSUME NEW c \in polls, Inspect!Answer(c) \/ Inspect!Apply(c)
      PROVE  /\ \A t \in Inspected \ missed'.leftover : exchange'[t] = "gone" => saved'[t] = None
             /\ missed'.ended => missed'.leftover # {}
  BY <1>8 DEF Inspect!Answer, Inspect!Apply, Inspect!DeletedIsGone, Inspect!Pasts
<1>9. CASE Inspect!Hide \/ Inspect!refresh \/ UNCHANGED Inspect!vars
  BY <1>9 DEF Inspect!Hide, Inspect!refresh, Inspect!vars, Inspect!DeletedIsGone
<1>10. QED
  BY <1>1, <1>2, <1>3, <1>4, <1>5, <1>6, <1>7, <1>8, <1>9 DEF Inspect!Next,
        Inspect!Mkdir, Inspect!WriteRequest, Inspect!WriteResponse, Inspect!MarkClean

\* The responses in the memory of the daemon, in the files, and in the page
InMemory(r) == \/ \E s \in Inspected : buffer[s] # None /\ r = buffer[s].resp
               \/ \E f \in flushes : f.held # None /\ r = f.held.resp
               \/ \E f \in flushes : f.step = "response" /\ r = f.text
InFiles(r) == \E s \in Inspected : saved[s] # None /\ saved[s].resp # Torn /\ r = saved[s].resp
InPage(r) == \/ panel.inspect # None /\ r = panel.inspect.resp
             \/ panel.told # None /\ r = panel.told.resp
             \/ \E c \in polls : c.told # None /\ r = c.told.resp
             \/ \E c \in polls : c.data # None /\ r = c.data.resp

\* A response that is kept is kept in one of three places.
LEMMA KeptWhere ==
  ASSUME NEW r
  PROVE  r \in Inspect!Kept <=> r = Inspect!NoResponse \/ InMemory(r) \/ InFiles(r) \/ InPage(r)
BY DEF Inspect!Kept, InMemory, InFiles, InPage

\* KeptWhere in the next state
LEMMA KeptWhereNext ==
  ASSUME NEW r
  PROVE  r \in Inspect!Kept' <=> r = Inspect!NoResponse \/ InMemory(r)' \/ InFiles(r)' \/ InPage(r)'
BY DEF Inspect!Kept, InMemory, InFiles, InPage, Inspect!NoResponse

\* What is kept are responses.
LEMMA KeptTyped ==
  ASSUME Inspect!InspectAssumption, Inspect!TypeOK, Inspect!BuffersThere, NEW r \in Inspect!Kept
  PROVE  r \in Inspect!Responses
<1>1. CASE r = Inspect!NoResponse
  BY <1>1 DEF Inspect!NoResponse, Inspect!Responses
<1>2. CASE InMemory(r)
  BY <1>2, BufferFields, FlushFields DEF InMemory, Inspect!Maybe, Inspect!Buffers
<1>3. CASE InFiles(r)
  <2>1. PICK s \in Inspected : saved[s] # None /\ saved[s].resp # Torn /\ r = saved[s].resp
    BY <1>3 DEF InFiles
  <2>2. saved[s] \in Inspect!Files
    BY <2>1 DEF Inspect!TypeOK, Inspect!Maybe
  <2>3. QED
    BY <2>1, <2>2 DEF Inspect!Files
<1>4. CASE InPage(r)
  BY <1>4 DEF InPage, Inspect!TypeOK, Inspect!Panels, Inspect!Calls, Inspect!Maybe,
        Inspect!Snapshots
<1>5. QED
  BY <1>1, <1>2, <1>3, <1>4, KeptWhere

\* Times go on identifying responses when one with a new time is added.
LEMMA TimesGoOn ==
  ASSUME Inspect!InspectAssumption, Inspect!TypeOK, Inspect!BuffersThere, Inspect!TimesIdentify, NEW new,
         \A r \in Inspect!Kept' : r \in Inspect!Kept \/ r = new,
         new \in Inspect!Kept \/ (new.at = clock' /\ clock' = clock + 1), clock' \in {clock, clock + 1}
  PROVE  Inspect!TimesIdentify'
<1>1. \A r \in Inspect!Kept : r.at \in Nat /\ r.at <= clock
  BY KeptTyped DEF Inspect!Responses, Inspect!TimesIdentify
<1>2. clock \in Nat
  BY DEF Inspect!TypeOK
<1> SUFFICES ASSUME NEW r \in Inspect!Kept', NEW q \in Inspect!Kept'
             PROVE  r.at <= clock' /\ (r.at = q.at => r = q)
  BY DEF Inspect!TimesIdentify
<1>3. QED
  BY <1>1, <1>2 DEF Inspect!TimesIdentify

\* The responses that a step leaves are those that were there, and that of a capture.
LEMMA TimesIdentifyStep ==
  ASSUME Inspect!InspectAssumption, Inspect!TypeOK, Inspect!BuffersThere, Inspect!TimesIdentify,
         [Inspect!Next]_Inspect!vars
  PROVE  Inspect!TimesIdentify'
<1>a. ASSUME NEW new, \A r : InMemory(r)' => InMemory(r) \/ r \in Inspect!Kept \/ r = new,
             \A r : InFiles(r)' => InFiles(r) \/ r \in Inspect!Kept \/ r = new,
             \A r : InPage(r)' => InPage(r) \/ r \in Inspect!Kept \/ r = new,
             new \in Inspect!Kept \/ (new.at = clock' /\ clock' = clock + 1), clock' \in {clock, clock + 1}
      PROVE  Inspect!TimesIdentify'
  <2>1. \A r \in Inspect!Kept' : r \in Inspect!Kept \/ r = new
    BY <1>a, KeptWhere, KeptWhereNext
  <2>2. QED
    BY <1>a, <2>1, TimesGoOn
<1>b. Inspect!NoResponse \in Inspect!Kept
  BY KeptWhere
\* Nothing new
<1>c. ASSUME \A r : InMemory(r)' => InMemory(r) \/ r \in Inspect!Kept,
             \A r : InFiles(r)' => InFiles(r) \/ r \in Inspect!Kept,
             \A r : InPage(r)' => InPage(r) \/ r \in Inspect!Kept, clock' \in {clock, clock + 1}
      PROVE  Inspect!TimesIdentify'
  BY <1>a, <1>b, <1>c
<1>d. UNCHANGED <<buffer, flushes>> => \A r : InMemory(r)' => InMemory(r)
  BY DEF InMemory
<1>e. UNCHANGED saved => \A r : InFiles(r)' => InFiles(r)
  BY DEF InFiles
<1>f. UNCHANGED <<panel, polls>> => \A r : InPage(r)' => InPage(r)
  BY DEF InPage
\* A capture
<1>g. ASSUME NEW s \in Inspected, NEW b \in Inspect!Buffers, NEW e, buffer' = [buffer EXCEPT ![s] = b],
             flushes' = flushes \/ (flushes' = flushes \cup {e} /\ e.held = None /\ e.step # "response")
      PROVE  \A r : InMemory(r)' => InMemory(r) \/ r = b.resp
  BY <1>g DEF InMemory, Inspect!TypeOK
\* A flush goes on.
<1>h. ASSUME NEW f \in flushes, NEW step, NEW text, Inspect!GoesOn(f, step, text), UNCHANGED buffer,
             step = "response" => text \in Inspect!Kept
      PROVE  \A r : InMemory(r)' => InMemory(r) \/ r \in Inspect!Kept
  <2> SUFFICES ASSUME NEW g \in flushes' PROVE /\ g.held # None => InMemory(g.held.resp)
                                               /\ g.step = "response" => InMemory(g.text) \/ g.text \in Inspect!Kept
    BY <1>h DEF InMemory
  <2>1. CASE g \in flushes
    BY <2>1 DEF InMemory
  <2>2. CASE g = [f EXCEPT !.step = step, !.text = text]
    <3>1. g.held = f.held /\ g.step = step /\ g.text = text
      <4>1. Inspect!TypedFlush(f)
        BY DEF Inspect!TypeOK
      <4>2. QED
        BY <4>1, <2>2 DEF Inspect!TypedFlush, Inspect!Flushes
    <3>2. QED
      BY <3>1, <1>h DEF InMemory
  <2>3. QED
    BY <1>h, <2>1, <2>2 DEF Inspect!GoesOn
<1>i. ASSUME NEW f \in flushes, NEW x, saved' = [saved EXCEPT ![f.session] = x], x # None /\ x.resp # Torn => x.resp \in Inspect!Kept
      PROVE  \A r : InFiles(r)' => InFiles(r) \/ r \in Inspect!Kept
  BY <1>i, FlushFields DEF InFiles, Inspect!TypeOK
<1>j. \A r : InFiles(r) => r \in Inspect!Kept
  BY KeptWhere
<1>k. ASSUME NEW f \in flushes PROVE Inspect!Held(f).resp \in Inspect!Kept /\ (f.step = "response" => f.text \in Inspect!Kept)
                                     /\ (saved[f.session] # None /\ saved[f.session].resp # Torn => saved[f.session].resp \in Inspect!Kept)
  BY FlushFields, KeptWhere DEF Inspect!Held, InMemory, InFiles, Inspect!BuffersThere
\* Requests become late or are dropped.
<1>l. ASSUME NEW cs \in SUBSET polls, polls' = Inspect!Late(cs)
      PROVE  /\ \A c \in polls' : \E d \in polls : c.told = d.told /\ c.data = d.data
  <2>1. \A d \in polls : [d EXCEPT !.late = TRUE].told = d.told /\ [d EXCEPT !.late = TRUE].data = d.data
    BY DEF Inspect!TypeOK, Inspect!Calls
  <2>2. QED
    BY <1>l, <2>1 DEF Inspect!Late
<1>1. ASSUME NEW s \in Inspected, Inspect!CaptureRequest(s) PROVE Inspect!TimesIdentify'
  <2>1. clock' \in Nat /\ clock' = clock + 1
    BY <1>1 DEF Inspect!CaptureRequest, Inspect!Tick, Inspect!TypeOK
  <2>2. (IF buffer[s] = None THEN Inspect!NoResponse ELSE buffer[s].resp) \in Inspect!Responses
    BY BufferFields DEF Inspect!NoResponse, Inspect!Responses
  <2> DEFINE b == [req |-> clock', resp |-> IF buffer[s] = None THEN Inspect!NoResponse ELSE buffer[s].resp, dirty |-> TRUE]
  <2>3. b \in Inspect!Buffers
    BY <2>1, <2>2 DEF Inspect!Buffers
  <2>4. buffer' = [buffer EXCEPT ![s] = b] /\ UNCHANGED <<saved, flushes, panel, polls>>
    BY <1>1 DEF Inspect!CaptureRequest
  <2>5. b.resp \in Inspect!Kept
    BY KeptWhere DEF InMemory
  <2> HIDE DEF b
  <2>6. \A r : InMemory(r)' => InMemory(r) \/ r = b.resp
    BY <2>3, <2>4, <1>g
  <2>7. QED
    BY <2>1, <2>4, <2>5, <2>6, <1>c, <1>e, <1>f
<1>2. ASSUME NEW s \in Inspected, Inspect!CaptureStatus(s) PROVE Inspect!TimesIdentify'
  <2>1. clock' \in Nat /\ clock' = clock + 1
    BY <1>2 DEF Inspect!CaptureStatus, Inspect!Tick, Inspect!TypeOK
  <2>2. buffer[s] # None
    BY <1>2 DEF Inspect!CaptureStatus, Inspect!BuffersThere
  <2> DEFINE b == [req |-> buffer[s].req, resp |-> [at |-> clock', text |-> buffer[s].resp.text], dirty |-> TRUE]
  <2>3. b \in Inspect!Buffers /\ b.resp.at = clock'
    BY <2>1, <2>2, BufferFields DEF Inspect!Buffers, Inspect!Responses
  <2>4. buffer' = [buffer EXCEPT ![s] = b] /\ UNCHANGED <<saved, flushes, panel, polls>>
    BY <1>2 DEF Inspect!CaptureStatus
  <2> HIDE DEF b
  <2>5. \A r : InMemory(r)' => InMemory(r) \/ r = b.resp
    BY <2>3, <2>4, <1>g
  <2>6. QED
    BY <2>1, <2>3, <2>4, <2>5, <1>a, <1>e, <1>f
<1>3. ASSUME NEW s \in Inspected, Inspect!TurnEnd(s) PROVE Inspect!TimesIdentify'
  <2>1. clock' \in Nat /\ clock' = clock + 1
    BY <1>3 DEF Inspect!TurnEnd, Inspect!Tick, Inspect!TypeOK
  <2>2. buffer[s] # None
    BY <1>3 DEF Inspect!TurnEnd, Inspect!BuffersThere
  <2> DEFINE b == [req |-> buffer[s].req, resp |-> [at |-> clock', text |-> buffer[s].req], dirty |-> TRUE]
  <2>3. b \in Inspect!Buffers /\ b.resp.at = clock'
    BY <2>1, <2>2, BufferFields DEF Inspect!Buffers, Inspect!Responses
  <2>4. buffer' = [buffer EXCEPT ![s] = b] /\ flushes' = flushes \cup {Inspect!Flush(s)} /\ UNCHANGED <<saved, panel, polls>>
    BY <1>3 DEF Inspect!TurnEnd
  <2>5. Inspect!Flush(s).held = None /\ Inspect!Flush(s).step # "response"
    BY DEF Inspect!Flush
  <2> HIDE DEF b
  <2>6. \A r : InMemory(r)' => InMemory(r) \/ r = b.resp
    BY <2>3, <2>4, <2>5, <1>g
  <2>7. QED
    BY <2>1, <2>3, <2>4, <2>6, <1>a, <1>e, <1>f
<1>4. ASSUME NEW s \in Inspected, Inspect!EndWithoutTurn(s) PROVE Inspect!TimesIdentify'
  BY <1>4, <1>c, <1>d, <1>e, <1>f DEF Inspect!EndWithoutTurn
<1>5. ASSUME NEW s \in Inspected, Inspect!Delete(s) PROVE Inspect!TimesIdentify'
  <2>1. ASSUME NEW f \in flushes' PROVE /\ f.held # None => InMemory(f.held.resp)
                                        /\ f.step = "response" => InMemory(f.text)
    <3>1. PICK g \in flushes : f = IF g.session = s THEN [g EXCEPT !.held = buffer[s]] ELSE g
      BY <1>5 DEF Inspect!Delete
    <3>2. Inspect!TypedFlush(g)
      BY DEF Inspect!TypeOK
    <3>3. f.held \in {g.held, buffer[s]} /\ f.step = g.step /\ f.text = g.text
      BY <3>1, <3>2 DEF Inspect!TypedFlush, Inspect!Flushes
    <3>4. QED
      BY <3>3 DEF InMemory
  <2>2. \A r : InMemory(r)' => InMemory(r)
    BY <2>1, <1>5 DEF InMemory, Inspect!Delete, Inspect!TypeOK
  <2>3. \A r : InFiles(r)' => InFiles(r)
    BY <1>5 DEF InFiles, Inspect!Delete, Inspect!TypeOK
  <2>4. QED
    BY <1>5, <2>2, <2>3, <1>c, <1>f DEF Inspect!Delete
<1>6. ASSUME NEW s \in Inspected, Inspect!Show(s) PROVE Inspect!TimesIdentify'
  <2>1. panel'.inspect = panel.inspect /\ panel'.told = None
    BY <1>6 DEF Inspect!Show, Inspect!TypeOK, Inspect!Panels
  <2> DEFINE cs == {c \in polls : c.kind = "refresh"}
             new == [n |-> used.asked, kind |-> "effect", session |-> s, sent |-> panel.etag, step |-> "sent",
                     etag |-> None, data |-> None, told |-> None, late |-> FALSE]
  <2>2. polls' = Inspect!Late(cs) \cup {new}
    BY <1>6 DEF Inspect!Show, Inspect!Ask, Inspect!Refreshes
  <2>3. \A d \in polls : [d EXCEPT !.late = TRUE].told = d.told /\ [d EXCEPT !.late = TRUE].data = d.data
    BY DEF Inspect!TypeOK, Inspect!Calls
  <2>4. new.told = None /\ new.data = None
    OBVIOUS
  <2> HIDE DEF new
  <2>5. \A c \in polls' : (c.told = None /\ c.data = None) \/ \E d \in polls : c.told = d.told /\ c.data = d.data
    BY <2>2, <2>3, <2>4 DEF Inspect!Late
  <2>6. \A r : InPage(r)' => InPage(r)
    BY <2>1, <2>5 DEF InPage
  <2>7. QED
    BY <1>6, <2>6, <1>c, <1>d, <1>e DEF Inspect!Show
<1>7. ASSUME NEW f \in flushes, Inspect!Mkdir(f) PROVE Inspect!TimesIdentify'
  <2> DEFINE x == IF saved[f.session] = None THEN Inspect!NoSnapshot ELSE saved[f.session]
  <2>1. saved' = [saved EXCEPT ![f.session] = x] /\ Inspect!GoesOn(f, "made", 0) /\ UNCHANGED <<buffer, panel, polls, clock>>
    BY <1>7 DEF Inspect!Mkdir
  <2>2. x # None /\ x.resp # Torn => x.resp \in Inspect!Kept
    BY <1>b, <1>k DEF Inspect!NoSnapshot
  <2> HIDE DEF x
  <2>3. \A r : InMemory(r)' => InMemory(r) \/ r \in Inspect!Kept
    BY <2>1, <1>h
  <2>4. \A r : InFiles(r)' => InFiles(r) \/ r \in Inspect!Kept
    BY <2>1, <2>2, <1>i
  <2>5. QED
    BY <2>1, <2>3, <2>4, <1>c, <1>f
<1>8. ASSUME Inspect!Stopped, UNCHANGED <<saved, panel, polls, clock>> PROVE Inspect!TimesIdentify'
  <2>1. \A r : ~InMemory(r)'
    BY <1>8 DEF Inspect!Stopped, InMemory
  <2>2. QED
    BY <1>8, <2>1, <1>c, <1>e, <1>f
<1>9. ASSUME NEW f \in flushes, Inspect!WriteRequest(f) PROVE Inspect!TimesIdentify'
  <2> DEFINE x == [req |-> Torn, resp |-> saved[f.session].resp]
  <2>1. /\ saved' = [saved EXCEPT ![f.session] = x] /\ Inspect!GoesOn(f, "request", Inspect!Held(f).req)
        /\ UNCHANGED <<buffer, panel, polls, clock>>
    BY <1>9 DEF Inspect!WriteRequest
  <2>2. x # None /\ x.resp # Torn => x.resp \in Inspect!Kept
    BY <1>9, <1>k DEF Inspect!WriteRequest
  <2> HIDE DEF x
  <2>3. \A r : InMemory(r)' => InMemory(r) \/ r \in Inspect!Kept
    BY <2>1, <1>h
  <2>4. \A r : InFiles(r)' => InFiles(r) \/ r \in Inspect!Kept
    BY <2>1, <2>2, <1>i
  <2>5. QED
    BY <2>1, <2>3, <2>4, <1>c, <1>f
<1>10. ASSUME NEW f \in flushes, Inspect!WriteResponse(f) PROVE Inspect!TimesIdentify'
  <2> DEFINE x == [req |-> f.text, resp |-> Torn]
  <2>1. /\ saved' = [saved EXCEPT ![f.session] = x] /\ Inspect!GoesOn(f, "response", Inspect!Held(f).resp)
        /\ UNCHANGED <<buffer, panel, polls, clock>>
    BY <1>10 DEF Inspect!WriteResponse
  <2>2. x.resp = Torn
    OBVIOUS
  <2> HIDE DEF x
  <2>3. \A r : InMemory(r)' => InMemory(r) \/ r \in Inspect!Kept
    BY <2>1, <1>h, <1>k
  <2>4. \A r : InFiles(r)' => InFiles(r) \/ r \in Inspect!Kept
    BY <2>1, <2>2, <1>i
  <2>5. QED
    BY <2>1, <2>3, <2>4, <1>c, <1>f
<1>11. ASSUME NEW f \in flushes, Inspect!MarkClean(f) PROVE Inspect!TimesIdentify'
  <2> DEFINE x == [req |-> saved[f.session].req, resp |-> f.text]
  <2>1. saved' = [saved EXCEPT ![f.session] = x] /\ flushes' \subseteq flushes /\ UNCHANGED <<panel, polls, clock>>
    BY <1>11 DEF Inspect!MarkClean
  <2>2. x.resp \in Inspect!Kept
    BY <1>11, <1>k DEF Inspect!MarkClean
  <2> HIDE DEF x
  <2>3. \A r : InFiles(r)' => InFiles(r) \/ r \in Inspect!Kept
    BY <2>1, <2>2, <1>i
  <2>4. ASSUME NEW s \in Inspected, buffer'[s] # None PROVE buffer[s] # None /\ buffer'[s].resp = buffer[s].resp
    <3>1. CASE f.held = None /\ s = f.session
      <4>1. buffer[s] # None
        BY <3>1, FlushFields DEF Inspect!Held, Inspect!InspectAssumption, Inspect!Buffers
      <4>2. QED
        BY <3>1, <4>1, <1>11 DEF Inspect!MarkClean, Inspect!TypeOK
    <3>2. CASE f.held # None \/ s # f.session
      BY <2>4, <3>2, <1>11 DEF Inspect!MarkClean, Inspect!TypeOK
    <3>3. QED
      BY <3>1, <3>2
  <2>5. \A r : InMemory(r)' => InMemory(r)
    BY <2>1, <2>4 DEF InMemory
  <2>6. QED
    BY <2>1, <2>3, <2>5, <1>c, <1>f
\* What the daemon answers it has, in memory or in the files.
<1>12. ASSUME NEW c \in polls, Inspect!Answer(c) PROVE Inspect!TimesIdentify'
  <2>1. c \in Inspect!Calls
    BY DEF Inspect!TypeOK
  <2>2. CASE Inspect!Fails(c.session)
    <3>1. [c EXCEPT !.step = "failed"].told = c.told /\ [c EXCEPT !.step = "failed"].data = c.data
      BY <2>1 DEF Inspect!Calls
    <3>2. polls' = (polls \ {c}) \cup {[c EXCEPT !.step = "failed"]} /\ UNCHANGED <<buffer, saved, flushes, panel, clock>>
      BY <1>12, <2>2 DEF Inspect!Answer
    <3>3. \A r : InPage(r)' => InPage(r)
      BY <3>1, <3>2 DEF InPage
    <3>4. QED
      BY <3>2, <3>3, <1>c, <1>d, <1>e
  <2>3. CASE ~Inspect!Fails(c.session)
    <3> DEFINE etag == Inspect!computeSessionLlmInspectETag(c.session)
               told == Inspect!Current(c.session)
               data == IF c.sent = etag THEN None ELSE told
    <3>1. c.session \in Inspected
      BY <2>1 DEF Inspect!Calls
    <3>2. told \in Inspect!Snapshots
      BY <2>3, <3>1, CurrentTyped
    <3>3. told.resp \in Inspect!Kept
      <4>1. told.resp # Torn
        BY <3>2 DEF Inspect!InspectAssumption, Inspect!Snapshots
      <4>2. QED
        BY <3>1, <4>1, KeptWhere DEF Inspect!Current, Inspect!NoSnapshot, InMemory, InFiles
    <3>4. polls' = (polls \ {c}) \cup {[c EXCEPT !.step = "answered", !.etag = etag, !.told = told, !.data = data]}
          /\ UNCHANGED <<buffer, saved, flushes, panel, clock>>
      BY <1>12, <2>3 DEF Inspect!Answer
    <3>5. data \in {None, told}
      OBVIOUS
    <3> HIDE DEF etag, told, data
    <3> DEFINE new == [c EXCEPT !.step = "answered", !.etag = etag, !.told = told, !.data = data]
    <3>6. new.told = told /\ new.data = data
      BY <2>1 DEF Inspect!Calls
    <3> HIDE DEF new
    <3>7. \A r : InPage(r)' => InPage(r) \/ r \in Inspect!Kept
      BY <3>3, <3>4, <3>5, <3>6 DEF InPage, new
    <3>8. QED
      BY <3>4, <3>7, <1>c, <1>d, <1>e
  <2>4. QED
    BY <2>2, <2>3
<1>13. ASSUME NEW c \in polls, Inspect!Apply(c) PROVE Inspect!TimesIdentify'
  <2>1. \A d \in polls' : \E e \in polls : d.told = e.told /\ d.data = e.data
    BY <1>13, <1>l DEF Inspect!Apply
  <2>2. panel'.inspect \in {panel.inspect, c.data} /\ panel'.told \in {panel.told, c.told}
    BY <1>13 DEF Inspect!Apply, Inspect!TypeOK, Inspect!Panels
  <2>3. \A r : InPage(r)' => InPage(r)
    BY <2>1, <2>2 DEF InPage
  <2>4. QED
    BY <1>13, <2>3, <1>c, <1>d, <1>e DEF Inspect!Apply
<1>14. ASSUME Inspect!Hide PROVE Inspect!TimesIdentify'
  <2>1. \A d \in polls' : \E e \in polls : d.told = e.told /\ d.data = e.data
    BY <1>14, <1>l DEF Inspect!Hide, Inspect!Refreshes
  <2>2. panel'.inspect = None /\ panel'.told = None
    BY <1>14 DEF Inspect!Hide, Inspect!Closed
  <2>3. \A r : InPage(r)' => InPage(r)
    BY <2>1, <2>2 DEF InPage
  <2>4. QED
    BY <1>14, <2>3, <1>c, <1>d, <1>e DEF Inspect!Hide
<1>15. ASSUME Inspect!refresh PROVE Inspect!TimesIdentify'
  <2>1. \A d \in polls' : (d.told = None /\ d.data = None) \/ d \in polls
    BY <1>15 DEF Inspect!refresh, Inspect!Ask
  <2>2. panel' = panel
    BY <1>15 DEF Inspect!refresh
  <2>3. \A r : InPage(r)' => InPage(r)
    BY <2>1, <2>2 DEF InPage
  <2>4. QED
    BY <1>15, <2>3, <1>c, <1>d, <1>e DEF Inspect!refresh
<1>16. CASE UNCHANGED Inspect!vars
  BY <1>16, <1>c, <1>d, <1>e, <1>f DEF Inspect!vars
<1>17. QED
  BY <1>1, <1>2, <1>3, <1>4, <1>5, <1>6, <1>7, <1>8, <1>9, <1>10, <1>11, <1>12, <1>13,
        <1>14, <1>15, <1>16
  DEF Inspect!Next, Inspect!Restart, Inspect!WriteFails

\* What TagsTell says of a request under way
Right(c) == /\ ~c.late => c.sent = panel.etag
            /\ c.step = "answered" => /\ c.told # None /\ c.etag = Inspect!TagOf(c.told)
                                      /\ c.data = IF c.sent = c.etag THEN None ELSE c.told

\* Two snapshots that are kept and have the same ETag are the same.
LEMMA TagIdentifies ==
  ASSUME Inspect!TimesIdentify, NEW x \in Inspect!Snapshots, NEW y \in Inspect!Snapshots, x.resp \in Inspect!Kept, y.resp \in Inspect!Kept,
         Inspect!TagOf(x) = Inspect!TagOf(y)
  PROVE  x = y
<1>1. x.req = y.req /\ x.resp.at = y.resp.at
  BY DEF Inspect!TagOf
<1>2. x.resp = y.resp
  BY <1>1 DEF Inspect!TimesIdentify
<1>3. QED
  BY <1>1, <1>2 DEF Inspect!Snapshots

\* Every step keeps the panel and its requests right, and what it displays what it was told.
LEMMA PanelStep ==
  ASSUME Inspect!InspectAssumption, Inspect!TypeOK, Inspect!BuffersThere, Inspect!TimesIdentify,
         Inspect!TagsTell, Inspect!PanelIsTold, [Inspect!Next]_Inspect!vars
  PROVE  Inspect!TagsTell' /\ Inspect!PanelIsTold'
<1>a. /\ \A c \in polls : Right(c)
      /\ ~missed.late /\ panel.etag # None => panel.inspect # None /\ panel.etag = Inspect!TagOf(panel.inspect)
  BY DEF Inspect!TagsTell, Right
<1>b. ASSUME \A c \in polls' : Right(c)',
             ~missed'.late /\ panel'.etag # None => panel'.inspect # None /\ panel'.etag = Inspect!TagOf(panel'.inspect)
      PROVE  Inspect!TagsTell'
  BY <1>b DEF Inspect!TagsTell, Right, Inspect!TagOf
\* Nothing of the page, or only by another session's time
<1>c. ASSUME UNCHANGED <<panel, polls>>, missed'.late = missed.late
      PROVE  Inspect!TagsTell' /\ Inspect!PanelIsTold'
  BY <1>c, <1>a, <1>b DEF Right, Inspect!PanelIsTold, Inspect!TagOf
<1>d. ASSUME NEW s \in Inspected, Inspect!Disturb(s) PROVE missed'.late = missed.late
  BY <1>d DEF Inspect!Disturb, Inspect!TypeOK, Inspect!Pasts
<1>e. ASSUME NEW c \in polls
      PROVE  /\ [c EXCEPT !.late = TRUE].late /\ [c EXCEPT !.late = TRUE].step = c.step
             /\ [c EXCEPT !.late = TRUE].told = c.told /\ [c EXCEPT !.late = TRUE].etag = c.etag
             /\ [c EXCEPT !.late = TRUE].data = c.data /\ [c EXCEPT !.late = TRUE].sent = c.sent
  BY DEF Inspect!TypeOK, Inspect!Calls
\* A late request may have been sent with any ETag.
<1>f. ASSUME NEW cs \in SUBSET polls, NEW d \in Inspect!Late(cs) PROVE Right(d)'
  <2>1. PICK c \in cs : d = [c EXCEPT !.late = TRUE]
    BY DEF Inspect!Late
  <2>2. /\ d.late /\ d.step = c.step /\ d.told = c.told /\ d.etag = c.etag /\ d.data = c.data /\ d.sent = c.sent
    BY <2>1, <1>e
  <2>3. QED
    BY <2>2, <1>a DEF Right, Inspect!TagOf
<1>1. ASSUME NEW s \in Inspected, Inspect!CaptureRequest(s) \/ Inspect!CaptureStatus(s) \/ Inspect!TurnEnd(s) PROVE Inspect!TagsTell' /\ Inspect!PanelIsTold'
  BY <1>1, <1>c, <1>d DEF Inspect!CaptureRequest, Inspect!CaptureStatus, Inspect!TurnEnd
<1>2. ASSUME NEW s \in Inspected, Inspect!EndWithoutTurn(s) \/ Inspect!Delete(s) PROVE Inspect!TagsTell' /\ Inspect!PanelIsTold'
  BY <1>2, <1>c DEF Inspect!EndWithoutTurn, Inspect!Delete, Inspect!TypeOK, Inspect!Pasts
<1>3. ASSUME NEW f \in flushes, Inspect!Mkdir(f) \/ Inspect!WriteRequest(f) \/ Inspect!WriteResponse(f) \/ Inspect!MarkClean(f) \/ Inspect!WriteFails(f)
      PROVE  Inspect!TagsTell' /\ Inspect!PanelIsTold'
  BY <1>3, <1>c DEF Inspect!Mkdir, Inspect!WriteRequest, Inspect!WriteResponse,
        Inspect!MarkClean, Inspect!WriteFails, Inspect!TypeOK, Inspect!Pasts
\* The request of the effect is the only one that is not late.
<1>4. ASSUME NEW s \in Inspected, Inspect!Show(s) PROVE Inspect!TagsTell' /\ Inspect!PanelIsTold'
  <2> DEFINE new == [n |-> used.asked, kind |-> "effect", session |-> s, sent |-> panel.etag, step |-> "sent",
                     etag |-> None, data |-> None, told |-> None, late |-> FALSE]
  <2>1. polls' = Inspect!Refreshes \cup {new} /\ missed' = missed
    BY <1>4 DEF Inspect!Show, Inspect!Ask
  <2>2. panel'.inspect = panel.inspect /\ panel'.told = None /\ panel'.etag = panel.etag
    BY <1>4 DEF Inspect!Show, Inspect!TypeOK, Inspect!Panels
  <2>3. ASSUME NEW c \in polls' PROVE Right(c)'
    <3>1. CASE c \in Inspect!Refreshes
      BY <3>1, <1>f DEF Inspect!Refreshes
    <3>2. CASE c = new
      BY <3>2, <2>2 DEF Right
    <3>3. QED
      BY <3>1, <3>2, <2>1
  <2>4. QED
    BY <2>1, <2>2, <2>3, <1>a, <1>b DEF Inspect!PanelIsTold
<1>5. CASE Inspect!Hide
  <2>1. polls' = Inspect!Refreshes /\ panel'.etag = None /\ panel'.told = None
    BY <1>5 DEF Inspect!Hide, Inspect!Closed
  <2>2. ASSUME NEW c \in polls' PROVE Right(c)'
    BY <2>1, <1>f DEF Inspect!Refreshes
  <2>3. QED
    BY <2>1, <2>2, <1>b DEF Inspect!PanelIsTold
<1>6. CASE Inspect!refresh
  <2> DEFINE new == [n |-> used.asked, kind |-> "refresh", session |-> panel.session, sent |-> panel.etag,
                     step |-> "sent", etag |-> None, data |-> None, told |-> None, late |-> FALSE]
  <2>1. polls' = polls \cup {new} /\ panel' = panel /\ missed' = missed
    BY <1>6 DEF Inspect!refresh, Inspect!Ask
  <2>2. ASSUME NEW c \in polls' PROVE Right(c)'
    <3>1. CASE c \in polls
      BY <3>1, <2>1, <1>a DEF Right, Inspect!TagOf
    <3>2. CASE c = new
      BY <3>2, <2>1 DEF Right
    <3>3. QED
      BY <3>1, <3>2, <2>1
  <2>3. QED
    BY <2>1, <2>2, <1>a, <1>b DEF Inspect!PanelIsTold
<1>7. ASSUME NEW c \in polls, Inspect!Answer(c) PROVE Inspect!TagsTell' /\ Inspect!PanelIsTold'
  <2>1. c \in Inspect!Calls /\ c.session \in Inspected
    BY DEF Inspect!TypeOK, Inspect!Calls
  <2>2. panel' = panel /\ missed' = missed /\ Right(c)
    BY <1>7, <1>a DEF Inspect!Answer
  <2>3. ASSUME NEW d \in polls PROVE Right(d)'
    BY <2>2, <2>3, <1>a DEF Right, Inspect!TagOf
  <2>4. ASSUME NEW new, polls' = (polls \ {c}) \cup {new}, Right(new)' PROVE Inspect!TagsTell' /\ Inspect!PanelIsTold'
    BY <2>2, <2>3, <2>4, <1>a, <1>b DEF Inspect!PanelIsTold
  <2>5. CASE Inspect!Fails(c.session)
    <3> DEFINE new == [c EXCEPT !.step = "failed"]
    <3>1. polls' = (polls \ {c}) \cup {new}
      BY <1>7, <2>5 DEF Inspect!Answer
    <3>2. new.step = "failed" /\ new.late = c.late /\ new.sent = c.sent
      BY <2>1 DEF Inspect!Calls
    <3> HIDE DEF new
    <3>3. Right(new)'
      BY <3>2, <2>2 DEF Right, new
    <3>4. QED
      BY <3>1, <3>3, <2>4
  <2>6. CASE ~Inspect!Fails(c.session)
    <3> DEFINE etag == Inspect!computeSessionLlmInspectETag(c.session)
               told == Inspect!Current(c.session)
               data == IF c.sent = etag THEN None ELSE told
               new == [c EXCEPT !.step = "answered", !.etag = etag, !.told = told, !.data = data]
    <3>1. polls' = (polls \ {c}) \cup {new}
      BY <1>7, <2>6 DEF Inspect!Answer
    <3>2. told \in Inspect!Snapshots /\ etag = Inspect!TagOf(told)
      BY <2>1, <2>6, CurrentTyped
    <3>3. told # None
      BY <3>2 DEF Inspect!InspectAssumption, Inspect!Files, Inspect!Snapshots
    <3> HIDE DEF told, etag
    <3>4. new.step = "answered" /\ new.late = c.late /\ new.sent = c.sent /\ new.etag = etag /\ new.told = told
          /\ new.data = data
      BY <2>1 DEF Inspect!Calls
    <3> HIDE DEF new
    <3>5. QED
      BY <3>1, <3>2, <3>3, <3>4, <2>2, <2>3, <2>4 DEF Right
  <2>7. QED
    BY <2>5, <2>6
\* An answer that is not late was asked with the ETag of what is displayed; "not modified"
\* then says that this is what the daemon has.
<1>8. ASSUME NEW c \in polls, Inspect!Apply(c) PROVE Inspect!TagsTell' /\ Inspect!PanelIsTold'
  <2>1. c \in Inspect!Calls /\ Right(c) /\ c.step # "sent"
    BY <1>8, <1>a DEF Inspect!TypeOK, Inspect!Apply
  <2>2. \A d \in polls' : Right(d)'
    BY <1>8, <1>f DEF Inspect!Apply
  <2>3. CASE c.step = "failed"
    <3>1. panel' = panel /\ missed'.late = missed.late
      BY <1>8, <2>3 DEF Inspect!Apply, Inspect!TypeOK, Inspect!Pasts
    <3>2. QED
      BY <3>1, <2>2, <1>a, <1>b DEF Inspect!PanelIsTold
  <2>4. CASE c.step = "answered"
    <3>1. /\ panel'.etag = c.etag /\ panel'.told = c.told /\ panel'.enabled = panel.enabled
          /\ panel'.inspect = IF c.data = None THEN panel.inspect ELSE c.data
          /\ missed'.late = (c.late \/ (missed.late /\ c.data = None))
      BY <1>8, <2>4 DEF Inspect!Apply, Inspect!TypeOK, Inspect!Pasts, Inspect!Panels
    <3>2. c.told # None /\ c.etag = Inspect!TagOf(c.told) /\ (c.data = IF c.sent = c.etag THEN None ELSE c.told)
      BY <2>1, <2>4 DEF Right
    <3>3. CASE c.data # None
      <4>1. c.data = c.told
        BY <3>2, <3>3
      <4>2. QED
        BY <4>1, <3>1, <3>2, <3>3, <2>2, <1>b DEF Inspect!PanelIsTold
    <3>4. CASE c.data = None /\ ~missed'.late
      <4>1. c.sent = c.etag /\ c.sent = panel.etag /\ ~missed.late
        BY <3>1, <3>2, <3>4, <2>1 DEF Right
      <4>2. c.told \in Inspect!Snapshots
        BY <2>1, <3>2 DEF Inspect!Calls, Inspect!Maybe
      <4>3. c.etag # None
        BY <4>2, <3>2 DEF Inspect!TagOf, Inspect!Snapshots, Inspect!Responses,
              Inspect!InspectAssumption
      <4>4. panel.inspect # None /\ panel.etag = Inspect!TagOf(panel.inspect)
        BY <4>1, <4>3, <1>a
      <4>5. panel.inspect \in Inspect!Snapshots
        BY <4>4 DEF Inspect!TypeOK, Inspect!Panels, Inspect!Maybe
      <4>6. panel.inspect.resp \in Inspect!Kept /\ c.told.resp \in Inspect!Kept
        BY <4>4, <3>2, KeptWhere DEF InPage
      <4>7. panel.inspect = c.told
        BY <4>1, <4>2, <4>4, <4>5, <4>6, <3>2, TagIdentifies
      <4>8. QED
        BY <4>7, <3>1, <3>2, <3>4, <2>2, <1>b DEF Inspect!PanelIsTold
    <3>5. CASE missed'.late
      BY <3>5, <2>2, <1>b DEF Inspect!PanelIsTold
    <3>6. QED
      BY <3>3, <3>4, <3>5
  <2>5. QED
    BY <2>1, <2>3, <2>4 DEF Inspect!Calls
<1>9. CASE Inspect!Restart \/ UNCHANGED Inspect!vars
  BY <1>9, <1>c DEF Inspect!Restart, Inspect!vars
<1>10. QED
  BY <1>1, <1>2, <1>3, <1>4, <1>5, <1>6, <1>7, <1>8, <1>9 DEF Inspect!Next

\* LlmInspectInv is inductive.
LEMMA LlmInspectStep ==
  ASSUME Inspect!InspectAssumption, Inspect!LlmInspectInv, [Inspect!Next]_Inspect!vars
  PROVE  Inspect!LlmInspectInv'
BY InspectTypeStep, BuffersThereStep, FlushedAsStep, DeletedIsGoneStep,
      TimesIdentifyStep, PanelStep
DEF Inspect!LlmInspectInv

\* An empty daemon and a page without a panel
LEMMA LlmInspectStart ==
  ASSUME Inspect!InspectAssumption, Inspect!Init
  PROVE  Inspect!LlmInspectInv
<1> USE DEF Inspect!Init
<1>1. Inspect!TypeOK
  BY DEF Inspect!TypeOK, Inspect!Maybe, Inspect!Closed, Inspect!Panels, Inspect!Pasts,
        Inspect!NoResponse
<1>2. Inspect!BuffersThere /\ Inspect!FlushWritesBuffer /\ Inspect!CleanIsSaved /\ Inspect!DeletedIsGone
  BY DEF Inspect!BuffersThere, Inspect!FlushWritesBuffer, Inspect!CleanIsSaved,
        Inspect!DeletedIsGone, Inspect!FlushesOf
<1>3. Inspect!Kept = {Inspect!NoResponse}
  <2>1. ASSUME NEW r, r \in Inspect!Kept PROVE r = Inspect!NoResponse
    BY <2>1, KeptWhere DEF InMemory, InFiles, InPage, Inspect!Closed
  <2>2. Inspect!NoResponse \in Inspect!Kept
    BY KeptWhere
  <2>3. QED
    BY <2>1, <2>2
<1>4. Inspect!TimesIdentify
  BY <1>3 DEF Inspect!TimesIdentify, Inspect!NoResponse
<1>5. Inspect!TagsTell /\ Inspect!PanelIsTold
  BY DEF Inspect!TagsTell, Inspect!PanelIsTold, Inspect!Closed
<1>6. QED
  BY <1>1, <1>2, <1>4, <1>5 DEF Inspect!LlmInspectInv

-----------------------------------------------------------------------------
(* The picker: candidates, requests and streams                            *)

\* The picker's finite sets are those of the library.
LEMMA PickerCount ==
  ASSUME NEW S
  PROVE  (Picker!IsFiniteSet(S) <=> IsFiniteSet(S)) /\ Picker!Cardinality(S) = Cardinality(S)
<1>1. Picker!IsFiniteSet(S) <=> IsFiniteSet(S)
  BY DEF Picker!IsFiniteSet, IsFiniteSet
<1>2. Picker!Cardinality(S) = Cardinality(S)
  BY Zenon DEF Picker!Cardinality, Cardinality
<1>3. QED
  BY <1>1, <1>2

\* The candidates of a selection
LEMMA CandidatesAre ==
  ASSUME Picker!ModelPickerAssumption, NEW x \in Picker!Selections
  PROVE  /\ Picker!Candidates(x)[1] \in Picker!Elements(Picker!Candidates(x)) /\ Picker!Elements(Picker!Candidates(x)) \subseteq Picker!Models
         /\ None \notin Picker!Elements(Picker!Candidates(x))
         /\ x \in Picker!Tiers => Picker!Candidates(x) = Pools[x]
         /\ x \notin Picker!Tiers => x \in Explicit /\ Picker!Candidates(x)[1] = x
<1> USE DEF Picker!ModelPickerAssumption
<1>1. CASE x \in Picker!Tiers
  <2>1. Picker!Candidates(x) = Pools[x] /\ Pools[x] \in Seq(Picker!Models) /\ Pools[x] # <<>>
    BY <1>1 DEF Picker!Candidates
  <2>2. 1 \in DOMAIN Pools[x] /\ \A i \in DOMAIN Pools[x] : Pools[x][i] \in Picker!Models
    BY <2>1
  <2>3. QED
    BY <1>1, <2>1, <2>2 DEF Picker!Elements
<1>2. CASE x \notin Picker!Tiers
  <2>1. Picker!Candidates(x) = <<x>> /\ x \in Explicit
    BY <1>2 DEF Picker!Candidates, Picker!Selections
  <2>2. Picker!Elements(Picker!Candidates(x)) = {x} /\ Picker!Candidates(x)[1] = x
    BY <2>1 DEF Picker!Elements
  <2>3. x \in Picker!Models
    BY <2>1 DEF Picker!Models
  <2>4. QED
    BY <1>2, <2>1, <2>2, <2>3
<1>3. QED
  BY <1>1, <1>2

\* The model of a selection is its first candidate.
LEMMA EffectiveIs ==
  ASSUME Picker!ModelPickerAssumption, NEW x \in Picker!Selections \cup {None}
  PROVE  Picker!Effective(x) \in Picker!Selections /\ (x # None => Picker!Effective(x) = x)
BY DEF Picker!Effective, Picker!ModelPickerAssumption

\* What is read from a session
LEMMA SessionFields ==
  ASSUME Picker!ModelPickerAssumption, Picker!TypeOK, NEW s \in Picked
  PROVE  /\ meta[s] # None => /\ meta[s] \in Picker!Metas /\ meta[s].selection \in Picker!Selections \cup {None}
                              /\ meta[s].resolved \in Picker!Models \cup {None}
         /\ turn[s].selection \in Picker!Selections \cup {None} /\ turn[s].answered \in Picker!Models \cup {None}
         /\ stream[s] \in Seq(Picker!Models \cup Picker!Marks)
         /\ Picker!NoTurn.answered = None /\ Picker!NoTurn.selection = None
BY DEF Picker!TypeOK, Picker!Metas, Picker!Turns, Picker!NoTurn

\* What is read from a request
LEMMA RequestFields ==
  ASSUME Picker!TypeOK, NEW r \in requests
  PROVE  /\ r \in Picker!Requests /\ r.id \in Picked /\ r.kind \in {"connect", "get", "patch"}
         /\ r.step \in {"sent", "patched", "answered"} /\ r.selection \in Picker!Selections \cup {None}
         /\ r.answer \in Picker!Answers \cup {None}
BY DEF Picker!TypeOK, Picker!Requests

\* A new request
LEMMA RequestIs ==
  ASSUME Picker!TypeOK, NEW k \in {"connect", "get", "patch"}, NEW id \in Picked, NEW x \in Picker!Selections \cup {None}
  PROVE  LET r == Picker!Request(k, id, x) IN
         r \in Picker!Requests /\ r.kind = k /\ r.id = id /\ r.selection = x /\ r.step = "sent" /\ r.answer = None
<1>1. Picker!Cardinality(requests) \in Nat
  BY PickerCount, FS_CardinalityType DEF Picker!TypeOK
<1>2. QED
  BY <1>1 DEF Picker!Request, Picker!Requests

\* The page leaves its session.
LEMMA LeaveTyped ==
  ASSUME NEW s \in Picked \cup {None}, Picker!TypeOK, Picker!Leave(s)
  PROVE  races' \in [crossed : BOOLEAN, raced : SUBSET Picked]
         /\ stream' \in [Picked -> Seq(Picker!Models \cup Picker!Marks)]
<1>1. races' \in [crossed : BOOLEAN, raced : SUBSET Picked]
  BY DEF Picker!Leave, Picker!TypeOK
<1>2. <<>> \in Seq(Picker!Models \cup Picker!Marks)
  OBVIOUS
<1>3. [stream EXCEPT ![route] = <<>>] \in [Picked -> Seq(Picker!Models \cup Picker!Marks)]
  BY <1>2 DEF Picker!TypeOK
<1>4. stream' \in {stream, [stream EXCEPT ![route] = <<>>]}
  BY DEF Picker!Leave
<1>5. QED
  BY <1>1, <1>3, <1>4 DEF Picker!TypeOK

\* An event goes to the stream of an open session.
LEMMA PublishTyped ==
  ASSUME Picker!TypeOK, NEW s \in Picked, NEW e \in Picker!Models \cup Picker!Marks, Picker!Publish(s, e)
  PROVE  stream' \in [Picked -> Seq(Picker!Models \cup Picker!Marks)]
BY DEF Picker!TypeOK, Picker!Publish

\* ModelRefOf of a session that is there
LEMMA ModelRefTyped ==
  ASSUME Picker!ModelPickerAssumption, NEW m \in Picker!Metas
  PROVE  Picker!ModelRefOf(m) \in Picker!Models \cup {None}
BY DEF Picker!ModelRefOf, Picker!Metas, Picker!Models

\* A request goes on.
LEMMA ReplacedTyped ==
  ASSUME Picker!TypeOK, NEW r \in requests, NEW q \in Picker!Requests, requests' = (requests \ {r}) \cup {q}
  PROVE  Picker!IsFiniteSet(requests') /\ requests' \subseteq Picker!Requests
BY PickerCount, FS_RemoveElement, FS_AddElement DEF Picker!TypeOK

\* A request is sent.
LEMMA AddedTyped ==
  ASSUME Picker!TypeOK, NEW q \in Picker!Requests, requests' = requests \cup {q}
  PROVE  Picker!IsFiniteSet(requests') /\ requests' \subseteq Picker!Requests
BY PickerCount, FS_AddElement DEF Picker!TypeOK

\* A request is over.
LEMMA RemovedTyped ==
  ASSUME Picker!TypeOK, NEW r \in requests, requests' = requests \ {r}
  PROVE  Picker!IsFiniteSet(requests') /\ requests' \subseteq Picker!Requests
BY PickerCount, FS_RemoveElement DEF Picker!TypeOK

\* Every step keeps the types.
LEMMA PickerTypeStep ==
  ASSUME Picker!ModelPickerAssumption, Picker!TypeOK, Picker!SessionsThere, [Picker!Next]_Picker!vars
  PROVE  Picker!TypeOK'
<1>1. ASSUME NEW s \in Picked, Picker!OpenSession(s) PROVE Picker!TypeOK'
  BY <1>1, LeaveTyped DEF Picker!OpenSession, Picker!Leave, Picker!TypeOK
<1>2. CASE Picker!OpenNewChat
  BY <1>2, LeaveTyped DEF Picker!OpenNewChat, Picker!Leave, Picker!TypeOK
<1>3. CASE Picker!connectSession
  <2>1. route \in Picked
    BY <1>3 DEF Picker!connectSession, Picker!SessionsThere, Picker!TypeOK
  <2>2. Picker!Request("connect", route, None) \in Picker!Requests
    BY <2>1, RequestIs
  <2>3. Picker!IsFiniteSet(requests') /\ requests' \subseteq Picker!Requests
    BY <1>3, <2>2, AddedTyped DEF Picker!connectSession
  <2>4. QED
    BY <1>3, <2>3 DEF Picker!connectSession, Picker!TypeOK
<1>4. CASE Picker!Connected
  BY <1>4 DEF Picker!Connected, Picker!TypeOK
<1>5. ASSUME NEW x \in Picker!Selections, Picker!applySelection(x) PROVE Picker!TypeOK'
  <2>1. route \in Picked
    BY <1>5 DEF Picker!applySelection, Picker!SessionsThere, Picker!TypeOK
  <2>2. Picker!Request("patch", route, x) \in Picker!Requests
    BY <2>1, RequestIs
  <2>3. Picker!IsFiniteSet(requests') /\ requests' \subseteq Picker!Requests
    BY <1>5, <2>2, AddedTyped DEF Picker!applySelection
  <2>4. races' \in [crossed : BOOLEAN, raced : SUBSET Picked]
    BY <1>5, <2>1 DEF Picker!applySelection, Picker!TypeOK
  <2>5. QED
    BY <1>5, <2>3, <2>4 DEF Picker!applySelection, Picker!TypeOK
<1>6. ASSUME NEW x \in Picker!Selections, Picker!updateNewChatDraft(x) PROVE Picker!TypeOK'
  BY <1>6 DEF Picker!updateNewChatDraft, Picker!TypeOK
<1>7. ASSUME NEW s \in Picked, Picker!createSession(s) PROVE Picker!TypeOK'
  <2>1. Picker!Effective(newChatDraft) \in Picker!Selections
    BY EffectiveIs DEF Picker!TypeOK
  <2>2. meta' \in [Picked -> Picker!Metas \cup {None}]
    BY <1>7, <2>1 DEF Picker!createSession, Picker!TypeOK, Picker!Metas
  <2>3. QED
    BY <1>7, <2>2, LeaveTyped DEF Picker!createSession, Picker!Leave, Picker!TypeOK
<1>8. ASSUME NEW r \in requests, Picker!TakeAnswer(r) PROVE Picker!TypeOK'
  <2>1. Picker!IsFiniteSet(requests') /\ requests' \subseteq Picker!Requests
    BY <1>8, RemovedTyped DEF Picker!TakeAnswer
  <2>2. r.answer \in Picker!Answers
    BY <1>8, RequestFields DEF Picker!TakeAnswer, Picker!SessionsThere
  <2>3. r.answer.modelRef \in Picker!Models \cup {None}
    BY <2>2 DEF Picker!Answers
  <2>4. QED
    BY <1>8, <2>1, <2>2, <2>3 DEF Picker!TakeAnswer, Picker!TypeOK
<1>9. ASSUME NEW r \in requests, Picker!FailPatch(r) PROVE Picker!TypeOK'
  <2>1. Picker!IsFiniteSet(requests') /\ requests' \subseteq Picker!Requests
    BY <1>9, RemovedTyped DEF Picker!FailPatch
  <2>2. QED
    BY <1>9, <2>1 DEF Picker!FailPatch, Picker!TypeOK
<1>10. CASE Picker!TakeEvent
  <2>1. route \in Picked
    BY <1>10 DEF Picker!TakeEvent, Picker!SessionsThere, Picker!TypeOK
  <2>2. stream[route] \in Seq(Picker!Models \cup Picker!Marks) /\ stream[route] # <<>>
    BY <1>10, <2>1 DEF Picker!TakeEvent, Picker!TypeOK
  <2>3. Head(stream[route]) \in Picker!Models \cup Picker!Marks /\ Tail(stream[route]) \in Seq(Picker!Models \cup Picker!Marks)
    BY <2>2
  <2>4. Picker!IsFiniteSet(requests') /\ requests' \subseteq Picker!Requests
    <3>1. Picker!Request("get", route, None) \in Picker!Requests
      BY <2>1, RequestIs
    <3>2. requests' = requests \/ requests' = requests \cup {Picker!Request("get", route, None)}
      BY <1>10 DEF Picker!TakeEvent
    <3>3. QED
      BY <3>1, <3>2, AddedTyped DEF Picker!TypeOK
  <2>5. display' \in Picker!Models \cup {None} /\ dedup' \in Picker!Models \cup {None}
    BY <1>10, <2>3 DEF Picker!TakeEvent, Picker!TypeOK, Picker!Marks
  <2>6. stream' \in [Picked -> Seq(Picker!Models \cup Picker!Marks)]
    BY <1>10, <2>3 DEF Picker!TakeEvent, Picker!TypeOK
  <2>7. QED
    BY <1>10, <2>4, <2>5, <2>6 DEF Picker!TakeEvent, Picker!TypeOK
<1>11. ASSUME NEW s \in Picked, Picker!BeginTurn(s) PROVE Picker!TypeOK'
  <2>1. [selection |-> Picker!Effective(meta[s].selection), preferred |-> meta[s].resolved, answered |-> None] \in Picker!Turns
    BY <1>11, SessionFields, EffectiveIs DEF Picker!BeginTurn, Picker!Turns
  <2>2. stream' \in [Picked -> Seq(Picker!Models \cup Picker!Marks)]
    BY <1>11, PublishTyped DEF Picker!BeginTurn, Picker!Marks
  <2>3. QED
    BY <1>11, <2>1, <2>2 DEF Picker!BeginTurn, Picker!TypeOK
<1>12. ASSUME NEW s \in Picked, NEW m \in Picker!Models, Picker!ModelAnswers(s, m) PROVE Picker!TypeOK'
  <2>1. stream' \in [Picked -> Seq(Picker!Models \cup Picker!Marks)]
    BY <1>12, PublishTyped DEF Picker!ModelAnswers
  <2>2. turn' \in [Picked -> Picker!Turns]
    <3>1. [turn[s] EXCEPT !.answered = m] \in Picker!Turns
      <4>1. turn[s] \in Picker!Turns
        BY DEF Picker!TypeOK
      <4>2. QED
        BY <4>1 DEF Picker!Turns
    <3>2. turn' = [turn EXCEPT ![s] = [turn[s] EXCEPT !.answered = m]]
      BY <1>12 DEF Picker!ModelAnswers
    <3>3. QED
      BY <3>1, <3>2 DEF Picker!TypeOK
  <2>3. races' \in [crossed : BOOLEAN, raced : SUBSET Picked]
    BY <1>12 DEF Picker!ModelAnswers, Picker!TypeOK
  <2>4. QED
    BY <1>12, <2>1, <2>2, <2>3 DEF Picker!ModelAnswers, Picker!TypeOK
<1>13. ASSUME NEW s \in Picked, Picker!updateLastResolvedModel(s) PROVE Picker!TypeOK'
  <2>1. turn[s] # Picker!NoTurn
    BY <1>13 DEF Picker!updateLastResolvedModel, Picker!NoTurn
  <2>2. meta[s] \in Picker!Metas /\ turn[s].answered \in Picker!Models
    BY <1>13, <2>1, SessionFields DEF Picker!SessionsThere, Picker!updateLastResolvedModel
  <2>3. meta' \in [Picked -> Picker!Metas \cup {None}]
    BY <1>13, <2>2 DEF Picker!updateLastResolvedModel, Picker!TypeOK, Picker!Metas
  <2>4. turn' \in [Picked -> Picker!Turns]
    BY <1>13 DEF Picker!updateLastResolvedModel, Picker!TypeOK, Picker!Turns
  <2>5. races' \in [crossed : BOOLEAN, raced : SUBSET Picked]
    BY <1>13 DEF Picker!updateLastResolvedModel, Picker!TypeOK
  <2>6. QED
    BY <1>13, <2>3, <2>4, <2>5 DEF Picker!updateLastResolvedModel, Picker!TypeOK
<1>14. ASSUME NEW s \in Picked, Picker!EndTurn(s) PROVE Picker!TypeOK'
  <2>1. Picker!NoTurn \in Picker!Turns
    BY DEF Picker!NoTurn, Picker!Turns
  <2>2. stream' \in [Picked -> Seq(Picker!Models \cup Picker!Marks)]
    BY <1>14, PublishTyped DEF Picker!EndTurn, Picker!Marks
  <2>3. QED
    BY <1>14, <2>1, <2>2 DEF Picker!EndTurn, Picker!TypeOK
<1>15. ASSUME NEW r \in requests, Picker!updateModelSelection(r) PROVE Picker!TypeOK'
  <2>1. [r EXCEPT !.step = "patched"] \in Picker!Requests
    BY RequestFields DEF Picker!Requests
  <2>2. Picker!IsFiniteSet(requests') /\ requests' \subseteq Picker!Requests
    BY <1>15, <2>1, ReplacedTyped DEF Picker!updateModelSelection
  <2>3. [selection |-> r.selection, resolved |-> None] \in Picker!Metas
    BY RequestFields DEF Picker!Metas
  <2>4. races' \in [crossed : BOOLEAN, raced : SUBSET Picked]
    BY <1>15, RequestFields DEF Picker!updateModelSelection, Picker!TypeOK
  <2>5. QED
    BY <1>15, <2>2, <2>3, <2>4, RequestFields DEF Picker!updateModelSelection, Picker!TypeOK
<1>16. ASSUME NEW r \in requests, Picker!getSettings(r) PROVE Picker!TypeOK'
  <2> DEFINE a == [id |-> r.id, selection |-> meta[r.id].selection, modelRef |-> Picker!ModelRefOf(meta[r.id])]
  <2>1. meta[r.id] \in Picker!Metas
    BY RequestFields, SessionFields DEF Picker!SessionsThere
  <2>2. a \in Picker!Answers
    BY <2>1, ModelRefTyped, RequestFields DEF Picker!Answers, Picker!Metas
  <2>3. requests' = (requests \ {r}) \cup {[r EXCEPT !.step = "answered", !.answer = a]}
    BY <1>16 DEF Picker!getSettings
  <2> HIDE DEF a
  <2>4. [r EXCEPT !.step = "answered", !.answer = a] \in Picker!Requests
    BY <2>2, RequestFields DEF Picker!Requests
  <2>5. Picker!IsFiniteSet(requests') /\ requests' \subseteq Picker!Requests
    BY <2>3, <2>4, ReplacedTyped
  <2>6. QED
    BY <1>16, <2>5 DEF Picker!getSettings, Picker!TypeOK
<1>17. CASE UNCHANGED Picker!vars
  BY <1>17 DEF Picker!vars, Picker!TypeOK
<1>18. QED
  BY <1>1, <1>2, <1>3, <1>4, <1>5, <1>6, <1>7, <1>8, <1>9, <1>10, <1>11, <1>12, <1>13,
        <1>14, <1>15, <1>16,
     <1>17 DEF Picker!Next

\* The stream of a session when an event is put in or taken out
LEMMA StreamPut ==
  ASSUME NEW q \in Seq(Picker!Models \cup Picker!Marks), NEW e \in Picker!Models \cup Picker!Marks
  PROVE  /\ Picker!Silent(<<>>)
         /\ Append(q, e) # <<>>
         /\ Picker!Silent(Append(q, e)) <=> Picker!Silent(q) /\ e \in Picker!Marks
         /\ \A m : e \in Picker!Marks /\ Picker!EndsWith(q, m) => Picker!EndsWith(Append(q, e), m)
         /\ Picker!EndsWith(Append(q, e), e)
<1>1. /\ DOMAIN Append(q, e) = 1..Len(q) + 1 /\ Len(q) \in Nat /\ DOMAIN q = 1..Len(q)
      /\ \A i \in 1..Len(q) : Append(q, e)[i] = q[i]
      /\ Append(q, e)[Len(q) + 1] = e /\ Append(q, e) # <<>>
  OBVIOUS
<1>2. Picker!Silent(<<>>)
  BY DEF Picker!Silent
<1>3. Picker!Silent(Append(q, e)) <=> Picker!Silent(q) /\ e \in Picker!Marks
  <2>1. ASSUME Picker!Silent(Append(q, e)) PROVE Picker!Silent(q) /\ e \in Picker!Marks
    BY <1>1, <2>1 DEF Picker!Silent
  <2>2. ASSUME Picker!Silent(q), e \in Picker!Marks PROVE Picker!Silent(Append(q, e))
    BY <1>1, <2>2 DEF Picker!Silent
  <2>3. QED
    BY <2>1, <2>2
<1>4. ASSUME NEW m, e \in Picker!Marks, Picker!EndsWith(q, m) PROVE Picker!EndsWith(Append(q, e), m)
  BY <1>1, <1>4 DEF Picker!EndsWith
<1>5. Picker!EndsWith(Append(q, e), e)
  <2>1. Len(q) + 1 \in DOMAIN Append(q, e)
    BY <1>1
  <2>2. \A j \in DOMAIN Append(q, e) : ~(j > Len(q) + 1)
    BY <1>1
  <2>3. QED
    BY <1>1, <2>1, <2>2 DEF Picker!EndsWith
<1>6. QED
  BY <1>1, <1>2, <1>3, <1>4, <1>5

\* The first event of a stream is taken out.
LEMMA StreamTaken ==
  ASSUME Picker!ModelPickerAssumption, NEW q \in Seq(Picker!Models \cup Picker!Marks), q # <<>>,
         NEW m \in Picker!Models
  PROVE  /\ Picker!Silent(q) <=> Head(q) \in Picker!Marks /\ Picker!Silent(Tail(q))
         /\ Picker!EndsWith(q, m) => Picker!Silent(Tail(q)) \/ Picker!EndsWith(Tail(q), m)
         /\ Picker!EndsWith(q, m) /\ Picker!Silent(Tail(q)) => Head(q) = m
<1>1. /\ Len(q) \in Nat /\ DOMAIN q = 1..Len(q) /\ Len(q) > 0 /\ Head(q) = q[1] /\ 1 \in DOMAIN q
      /\ DOMAIN Tail(q) = 1..Len(q) - 1 /\ \A i \in 1..Len(q) - 1 : Tail(q)[i] = q[i + 1]
  OBVIOUS
<1>2. \A i \in DOMAIN q : i = 1 \/ (i - 1 \in DOMAIN Tail(q) /\ Tail(q)[i - 1] = q[i])
  BY <1>1
<1>3. \A i \in DOMAIN Tail(q) : i + 1 \in DOMAIN q /\ Tail(q)[i] = q[i + 1]
  BY <1>1
<1>4. Picker!Silent(q) <=> Head(q) \in Picker!Marks /\ Picker!Silent(Tail(q))
  BY <1>1, <1>2, <1>3 DEF Picker!Silent
<1>5. ASSUME Picker!EndsWith(q, m) PROVE /\ Picker!Silent(Tail(q)) \/ Picker!EndsWith(Tail(q), m)
                                         /\ Picker!Silent(Tail(q)) => Head(q) = m
  <2>1. PICK i \in DOMAIN q : q[i] = m /\ \A j \in DOMAIN q : j > i => q[j] \in Picker!Marks
    BY <1>5 DEF Picker!EndsWith
  <2>2. m \notin Picker!Marks
    BY DEF Picker!ModelPickerAssumption, Picker!Marks
  <2>3. CASE i = 1
    <3>1. ASSUME NEW j \in DOMAIN Tail(q) PROVE Tail(q)[j] \in Picker!Marks
      BY <1>1, <1>3, <2>1, <2>3
    <3>2. QED
      BY <1>1, <2>1, <2>3, <3>1 DEF Picker!Silent
  <2>4. CASE i # 1
    <3>1. i - 1 \in DOMAIN Tail(q) /\ Tail(q)[i - 1] = m
      BY <1>2, <2>1, <2>4
    <3>2. ASSUME NEW j \in DOMAIN Tail(q), j > i - 1 PROVE Tail(q)[j] \in Picker!Marks
      BY <1>1, <1>3, <2>1, <3>2
    <3>3. Picker!EndsWith(Tail(q), m) /\ ~Picker!Silent(Tail(q))
      BY <2>2, <3>1, <3>2 DEF Picker!EndsWith, Picker!Silent
    <3>4. QED
      BY <3>3
  <2>5. QED
    BY <2>3, <2>4
<1>6. QED
  BY <1>4, <1>5

\* What SessionsThere says of one session, of the page and of a request
SessionThere(s) ==
  /\ meta[s] = None => turn[s] = Picker!NoTurn /\ stream[s] = <<>>
  /\ turn[s] # Picker!NoTurn => turn[s].selection \in Picker!Selections
  /\ turn[s].answered # None => turn[s].answered \in Picker!Elements(Picker!Candidates(turn[s].selection))
PageThere == /\ route = None <=> status = "idle"
             /\ route # None => meta[route] # None
             /\ status \in {"loaded", "ready"} => settings # None
RequestThere(r) == /\ meta[r.id] # None /\ (r.step = "answered" => r.answer # None)
                   /\ r.kind = "patch" => r.selection \in Picker!Selections
ConnectsOnce == \A q, r \in requests : q.kind = "connect" /\ r.kind = "connect" => status = "connecting" /\ q = r

\* Every step keeps sessions, streams and requests of sessions that are there.
LEMMA SessionsThereStep ==
  ASSUME Picker!ModelPickerAssumption, Picker!TypeOK, Picker!SessionsThere, [Picker!Next]_Picker!vars
  PROVE  Picker!SessionsThere'
<1>a. (\A s \in Picked : SessionThere(s)) /\ PageThere /\ ConnectsOnce /\ \A r \in requests : RequestThere(r)
  BY DEF Picker!SessionsThere, SessionThere, PageThere, RequestThere, ConnectsOnce
<1>b. ASSUME \A s \in Picked : SessionThere(s)', PageThere', ConnectsOnce', \A r \in requests' : RequestThere(r)'
      PROVE  Picker!SessionsThere'
  BY <1>b DEF Picker!SessionsThere, SessionThere, PageThere, RequestThere, ConnectsOnce
\* Only the page
<1>c. ASSUME UNCHANGED <<meta, turn, stream>> PROVE \A s \in Picked : SessionThere(s)'
  BY <1>a, <1>c DEF SessionThere
<1>d. ASSUME NEW s \in Picked \cup {None}, Picker!Leave(s), UNCHANGED <<meta, turn>>
      PROVE  \A t \in Picked : SessionThere(t)'
  <2>1. \A t \in Picked : stream'[t] \in {stream[t], <<>>}
    BY <1>d DEF Picker!Leave, Picker!TypeOK
  <2>2. QED
    BY <2>1, <1>a, <1>d DEF SessionThere
<1>e. ASSUME \A s \in Picked : meta[s] # None => meta'[s] # None, NEW r \in requests, r.id \in Picked
      PROVE  RequestThere(r)'
  BY <1>a, <1>e DEF RequestThere
<1>f. \A r \in requests : r.id \in Picked
  BY RequestFields
<1>g. Picker!NoTurn.answered = None
  BY DEF Picker!NoTurn
<1>i. UNCHANGED <<requests, status>> => ConnectsOnce'
  BY <1>a DEF ConnectsOnce
\* A page that leaves its session waits for no connection.
<1>j. ASSUME status # "connecting", UNCHANGED requests PROVE ConnectsOnce'
  BY <1>a, <1>j DEF ConnectsOnce
\* The models of a turn when it has answered
<1>h. ASSUME NEW s \in Picked, meta[s] # None, meta'[s] # None, \A t \in Picked \ {s} : meta'[t] = meta[t],
             turn'[s] # Picker!NoTurn => turn'[s].selection \in Picker!Selections,
             turn'[s].answered # None => turn'[s].answered \in Picker!Elements(Picker!Candidates(turn'[s].selection)),
             \A t \in Picked \ {s} : turn'[t] = turn[t],
             \A t \in Picked \ {s} : stream'[t] = stream[t],
             UNCHANGED <<route, status, settings, requests>>
      PROVE  Picker!SessionsThere'
  <2>1. \A t \in Picked : SessionThere(t)'
    BY <1>a, <1>h DEF SessionThere
  <2>2. PageThere'
    BY <1>a, <1>h DEF PageThere, Picker!TypeOK
  <2>3. QED
    BY <2>1, <2>2, <1>b, <1>e, <1>f, <1>h, <1>i
<1>1. ASSUME NEW s \in Picked, Picker!OpenSession(s) PROVE Picker!SessionsThere'
  <2>1. PageThere'
    BY <1>1, <1>a DEF Picker!OpenSession, Picker!Leave, PageThere, Picker!TypeOK,
          Picker!ModelPickerAssumption
  <2>2. QED
    BY <1>1, <2>1, <1>b, <1>d, <1>e, <1>f, <1>j DEF Picker!OpenSession
<1>2. CASE Picker!OpenNewChat
  <2>1. PageThere'
    BY <1>2, <1>a DEF Picker!OpenNewChat, Picker!Leave, PageThere
  <2>2. QED
    BY <1>2, <2>1, <1>b, <1>d, <1>e, <1>f, <1>j DEF Picker!OpenNewChat
<1>3. CASE Picker!connectSession
  <2>1. PageThere'
    BY <1>3, <1>a DEF Picker!connectSession, PageThere
  <2>2. route \in Picked /\ meta[route] # None
    BY <1>3, <1>a DEF Picker!connectSession, PageThere, Picker!TypeOK
  <2> DEFINE new == Picker!Request("connect", route, None)
  <2>3. new.id = route /\ new.kind = "connect" /\ new.selection = None /\ new.step = "sent"
    BY DEF Picker!Request
  <2>a. requests' = requests \cup {new} /\ UNCHANGED meta
    BY <1>3 DEF Picker!connectSession
  <2> HIDE DEF new
  <2>4. ASSUME NEW r \in requests' PROVE RequestThere(r)'
    <3>1. CASE r = new
      BY <3>1, <2>2, <2>3, <2>a DEF RequestThere
    <3>2. CASE r \in requests
      BY <3>2, <2>a, <1>e, <1>f
    <3>3. QED
      BY <3>1, <3>2, <2>a
  <2>5. QED
    BY <1>3, <2>1, <2>3, <2>4, <2>a, <1>a, <1>b, <1>c DEF Picker!connectSession,
          ConnectsOnce
<1>4. CASE Picker!Connected
  <2>1. PageThere'
    BY <1>4, <1>a DEF Picker!Connected, PageThere
  <2>2. QED
    BY <1>4, <2>1, <1>b, <1>c, <1>e, <1>f, <1>j DEF Picker!Connected
<1>5. ASSUME NEW x \in Picker!Selections, Picker!applySelection(x) PROVE Picker!SessionsThere'
  <2>1. PageThere'
    BY <1>5, <1>a DEF Picker!applySelection, PageThere
  <2>2. route \in Picked /\ meta[route] # None
    BY <1>5, <1>a DEF Picker!applySelection, PageThere, Picker!TypeOK
  <2> DEFINE new == Picker!Request("patch", route, x)
  <2>3. new.id = route /\ new.kind = "patch" /\ new.selection = x /\ new.step = "sent"
    BY DEF Picker!Request
  <2>a. requests' = requests \cup {new} /\ UNCHANGED meta
    BY <1>5 DEF Picker!applySelection
  <2> HIDE DEF new
  <2>4. ASSUME NEW r \in requests' PROVE RequestThere(r)'
    <3>1. CASE r = new
      BY <3>1, <2>2, <2>3, <2>a DEF RequestThere
    <3>2. CASE r \in requests
      BY <3>2, <2>a, <1>e, <1>f
    <3>3. QED
      BY <3>1, <3>2, <2>a
  <2>5. QED
    BY <1>5, <2>1, <2>3, <2>4, <2>a, <1>a, <1>b, <1>c DEF Picker!applySelection,
          ConnectsOnce
<1>6. ASSUME NEW x \in Picker!Selections, Picker!updateNewChatDraft(x) PROVE Picker!SessionsThere'
  <2>1. PageThere'
    BY <1>6, <1>a DEF Picker!updateNewChatDraft, PageThere
  <2>2. QED
    BY <1>6, <2>1, <1>b, <1>c, <1>e, <1>f, <1>i DEF Picker!updateNewChatDraft
<1>7. ASSUME NEW s \in Picked, Picker!createSession(s) PROVE Picker!SessionsThere'
  <2>1. meta'[s] # None /\ meta[s] = None /\ \A t \in Picked \ {s} : meta'[t] = meta[t]
    <3>1. Picker!Effective(newChatDraft) \in Picker!Selections
      BY EffectiveIs DEF Picker!TypeOK
    <3>2. /\ [selection |-> Picker!Effective(newChatDraft), resolved |-> None] \in Picker!Metas
          /\ [selection |-> None, resolved |-> None] \in Picker!Metas
      BY <3>1 DEF Picker!Metas
    <3>3. QED
      BY <1>7, <3>2 DEF Picker!createSession, Picker!TypeOK, Picker!ModelPickerAssumption
  <2>2. PageThere'
    BY <1>7, <2>1, <1>a DEF Picker!createSession, Picker!Leave, PageThere, Picker!TypeOK,
          Picker!ModelPickerAssumption
  <2>3. \A t \in Picked : stream'[t] \in {stream[t], <<>>}
    BY <1>7 DEF Picker!createSession, Picker!Leave, Picker!TypeOK
  <2>4. \A t \in Picked : SessionThere(t)'
    BY <1>7, <2>1, <2>3, <1>a DEF SessionThere, Picker!createSession
  <2>5. QED
    BY <1>7, <2>1, <2>2, <2>4, <1>b, <1>e, <1>f, <1>j DEF Picker!createSession
<1>8. ASSUME NEW r \in requests, Picker!TakeAnswer(r) PROVE Picker!SessionsThere'
  <2>1. r.answer # None /\ meta[r.id] # None
    BY <1>8, <1>a DEF Picker!TakeAnswer, RequestThere
  <2>2. r.kind = "connect" => status = "connecting" /\ \A q \in requests' : q.kind # "connect"
    BY <1>8, <1>a DEF Picker!TakeAnswer, ConnectsOnce
  <2>3. PageThere'
    BY <1>8, <2>1, <2>2, <1>a DEF Picker!TakeAnswer, PageThere
  <2>4. ConnectsOnce'
    BY <1>8, <2>2, <1>a DEF Picker!TakeAnswer, ConnectsOnce
  <2>5. QED
    BY <1>8, <2>3, <2>4, <1>b, <1>c, <1>e, <1>f DEF Picker!TakeAnswer
<1>9. ASSUME NEW r \in requests, Picker!FailPatch(r) PROVE Picker!SessionsThere'
  <2>1. PageThere'
    BY <1>9, <1>a DEF Picker!FailPatch, PageThere
  <2>2. QED
    BY <1>9, <2>1, <1>a, <1>b, <1>c, <1>e, <1>f DEF Picker!FailPatch, ConnectsOnce
<1>10. CASE Picker!TakeEvent
  <2>1. PageThere'
    BY <1>10, <1>a DEF Picker!TakeEvent, PageThere
  <2>2. route \in Picked /\ meta[route] # None
    BY <1>10, <1>a DEF Picker!TakeEvent, PageThere, Picker!TypeOK
  <2> DEFINE new == Picker!Request("get", route, None)
  <2>3. new.id = route /\ new.kind = "get" /\ new.selection = None /\ new.step = "sent"
    BY DEF Picker!Request
  <2>a. (requests' = requests \cup {new} \/ requests' = requests) /\ UNCHANGED meta
    BY <1>10 DEF Picker!TakeEvent
  <2> HIDE DEF new
  <2>4. ASSUME NEW r \in requests' PROVE RequestThere(r)'
    <3>1. CASE r = new
      BY <3>1, <2>2, <2>3, <2>a DEF RequestThere
    <3>2. CASE r \in requests
      BY <3>2, <2>a, <1>e, <1>f
    <3>3. QED
      BY <3>1, <3>2, <2>a
  <2>5. \A t \in Picked : meta[t] = None => stream'[t] = stream[t]
    BY <1>10, <2>2 DEF Picker!TakeEvent, Picker!TypeOK
  <2>6. \A t \in Picked : SessionThere(t)'
    BY <1>10, <2>5, <1>a DEF Picker!TakeEvent, SessionThere
  <2>7. QED
    BY <1>10, <2>1, <2>3, <2>4, <2>6, <2>a, <1>a, <1>b DEF Picker!TakeEvent, ConnectsOnce
<1>11. ASSUME NEW s \in Picked, Picker!BeginTurn(s) PROVE Picker!SessionsThere'
  <2>1. Picker!Effective(meta[s].selection) \in Picker!Selections
    BY <1>11, SessionFields, EffectiveIs DEF Picker!BeginTurn
  <2>2. turn'[s] = [selection |-> Picker!Effective(meta[s].selection), preferred |-> meta[s].resolved, answered |-> None]
    BY <1>11 DEF Picker!BeginTurn, Picker!TypeOK
  <2>3. QED
    BY <1>11, <2>1, <2>2, <1>h DEF Picker!BeginTurn, Picker!Publish, Picker!TypeOK
\* A turn is answered by a candidate of its own selection.
<1>12. ASSUME NEW s \in Picked, NEW m \in Picker!Models, Picker!ModelAnswers(s, m) PROVE Picker!SessionsThere'
  <2>1. meta[s] # None /\ turn[s].selection \in Picker!Selections /\ m \in Picker!Elements(Picker!Candidates(turn[s].selection))
    BY <1>12, <1>a DEF Picker!ModelAnswers, SessionThere
  <2>2. turn'[s].selection = turn[s].selection /\ turn'[s].answered = m
    BY <1>12 DEF Picker!ModelAnswers, Picker!TypeOK, Picker!Turns
  <2>3. QED
    BY <1>12, <2>1, <2>2, <1>h DEF Picker!ModelAnswers, Picker!Publish, Picker!TypeOK
<1>13. ASSUME NEW s \in Picked, Picker!updateLastResolvedModel(s) PROVE Picker!SessionsThere'
  <2>1. turn[s] # Picker!NoTurn /\ turn[s].answered \in Picker!Models
    BY <1>13, <1>g, SessionFields DEF Picker!updateLastResolvedModel
  <2>2. meta[s] # None /\ turn[s].selection \in Picker!Selections
    BY <2>1, <1>a DEF SessionThere
  <2>3. [meta[s] EXCEPT !.resolved = turn[s].answered] \in Picker!Metas
    BY <2>1, <2>2, SessionFields DEF Picker!Metas
  <2>4. meta'[s] # None
    BY <1>13, <2>3 DEF Picker!updateLastResolvedModel, Picker!TypeOK,
          Picker!ModelPickerAssumption
  <2>5. turn'[s].selection = turn[s].selection /\ turn'[s].answered = None
    BY <1>13 DEF Picker!updateLastResolvedModel, Picker!TypeOK, Picker!Turns
  <2>6. QED
    BY <1>13, <2>2, <2>4, <2>5, <1>h DEF Picker!updateLastResolvedModel, Picker!TypeOK
<1>14. ASSUME NEW s \in Picked, Picker!EndTurn(s) PROVE Picker!SessionsThere'
  <2>1. meta[s] # None
    BY <1>14, <1>a DEF Picker!EndTurn, SessionThere
  <2>2. QED
    BY <1>14, <2>1, <1>g, <1>h DEF Picker!EndTurn, Picker!Publish, Picker!TypeOK
<1>15. ASSUME NEW r \in requests, Picker!updateModelSelection(r) PROVE Picker!SessionsThere'
  <2>1. [selection |-> r.selection, resolved |-> None] \in Picker!Metas /\ r.id \in Picked
    BY RequestFields DEF Picker!Metas
  <2>2. meta'[r.id] # None /\ \A t \in Picked \ {r.id} : meta'[t] = meta[t]
    BY <1>15, <2>1 DEF Picker!updateModelSelection, Picker!TypeOK,
          Picker!ModelPickerAssumption
  <2>3. meta[r.id] # None /\ r.selection \in Picker!Selections
    BY <1>15, <1>a DEF RequestThere, Picker!updateModelSelection
  <2>4. \A s \in Picked : SessionThere(s)'
    BY <1>15, <2>2, <2>3, <1>a DEF Picker!updateModelSelection, SessionThere
  <2>5. PageThere'
    BY <1>15, <2>1, <2>2, <1>a DEF Picker!updateModelSelection, PageThere, Picker!TypeOK
  <2> DEFINE new == [r EXCEPT !.step = "patched"]
  <2>6. new.id = r.id /\ new.kind = r.kind /\ new.selection = r.selection /\ new.step = "patched"
    BY RequestFields DEF Picker!Requests
  <2>7. requests' = (requests \ {r}) \cup {new}
    BY <1>15 DEF Picker!updateModelSelection
  <2> HIDE DEF new
  <2>8. ASSUME NEW q \in requests' PROVE RequestThere(q)'
    <3>1. CASE q = new
      BY <3>1, <2>2, <2>3, <2>6 DEF RequestThere
    <3>2. CASE q \in requests
      BY <3>2, <2>2, <1>e, <1>f
    <3>3. QED
      BY <3>1, <3>2, <2>7
  <2>9. QED
    BY <1>15, <2>4, <2>5, <2>6, <2>7, <2>8, <1>a, <1>b DEF Picker!updateModelSelection,
          ConnectsOnce
<1>16. ASSUME NEW r \in requests, Picker!getSettings(r) PROVE Picker!SessionsThere'
  <2> DEFINE a == [id |-> r.id, selection |-> meta[r.id].selection, modelRef |-> Picker!ModelRefOf(meta[r.id])]
             new == [r EXCEPT !.step = "answered", !.answer = a]
  <2>1. meta[r.id] \in Picker!Metas
    BY RequestFields, SessionFields DEF Picker!SessionsThere
  <2>2. a \in Picker!Answers
    BY <2>1, ModelRefTyped, RequestFields DEF Picker!Answers, Picker!Metas
  <2>3. a # None
    BY <2>2 DEF Picker!ModelPickerAssumption
  <2>4. requests' = (requests \ {r}) \cup {new}
    BY <1>16 DEF Picker!getSettings
  <2> HIDE DEF a
  <2>5. new.id = r.id /\ new.kind = r.kind /\ new.selection = r.selection /\ new.answer = a
    BY RequestFields DEF Picker!Requests
  <2> HIDE DEF new
  <2>6. ASSUME NEW q \in requests' PROVE RequestThere(q)'
    <3>1. CASE q = new
      BY <3>1, <2>3, <2>5, <1>16, <1>a DEF RequestThere, Picker!getSettings
    <3>2. CASE q \in requests
      BY <3>2, <1>16, <1>e, <1>f DEF Picker!getSettings
    <3>3. QED
      BY <3>1, <3>2, <2>4
  <2>7. PageThere'
    BY <1>16, <1>a DEF Picker!getSettings, PageThere
  <2>8. QED
    BY <1>16, <2>4, <2>5, <2>6, <2>7, <1>a, <1>b, <1>c DEF Picker!getSettings, ConnectsOnce
<1>17. CASE UNCHANGED Picker!vars
  BY <1>17, <1>a, <1>b, <1>c, <1>e, <1>f, <1>i DEF Picker!vars, PageThere
<1>18. QED
  BY <1>1, <1>2, <1>3, <1>4, <1>5, <1>6, <1>7, <1>8, <1>9, <1>10, <1>11, <1>12, <1>13,
        <1>14, <1>15, <1>16,
     <1>17 DEF Picker!Next

\* What RequestsInOrder says of one request, of two, and of the page
OrderOf(r) == /\ r.id = route
              /\ status = IF r.kind = "connect" THEN "connecting" ELSE "ready"
              /\ r.kind = "patch" => saving
              /\ r.step = "answered" => r.answer.selection = meta[route].selection
PatchesOnce == \A q, r \in requests : q.kind = r.kind /\ q.kind # "get" => q = r
SelectionFollows == status \in {"loaded", "ready"} =>
                      settings.selection = meta[route].selection \/ \E r \in Picker!Patches : r.step # "sent"
DisplayFollows == /\ status = "connecting" => display = None
                  /\ status \in {"connecting", "loaded"} => dedup = None
                  /\ status = "ready" /\ dedup # None => display = dedup

\* These are what RequestsInOrder says.
LEMMA OrderSplit ==
  ASSUME Picker!RequestsInOrder, ~races.crossed
  PROVE  (\A r \in requests : OrderOf(r)) /\ PatchesOnce /\ SelectionFollows /\ DisplayFollows
BY DEF Picker!RequestsInOrder, OrderOf, PatchesOnce, SelectionFollows, DisplayFollows

\* They make RequestsInOrder.
LEMMA OrderJoin ==
  ASSUME ~races'.crossed => /\ \A r \in requests' : OrderOf(r)'
                            /\ PatchesOnce' /\ SelectionFollows' /\ DisplayFollows'
  PROVE  Picker!RequestsInOrder'
BY DEF Picker!RequestsInOrder, OrderOf, PatchesOnce, SelectionFollows, DisplayFollows

\* Once answers have crossed it stays so.
LEMMA CrossedStays ==
  ASSUME Picker!TypeOK, [Picker!Next]_Picker!vars, ~races'.crossed
  PROVE  ~races.crossed
<1> USE DEF Picker!TypeOK
<1>1. ASSUME NEW s \in Picked, Picker!OpenSession(s) \/ Picker!createSession(s) PROVE ~races.crossed
  BY <1>1 DEF Picker!OpenSession, Picker!createSession, Picker!Leave
<1>2. CASE Picker!OpenNewChat
  BY <1>2 DEF Picker!OpenNewChat, Picker!Leave
<1>3. CASE Picker!connectSession \/ Picker!Connected \/ Picker!TakeEvent \/ UNCHANGED Picker!vars
  BY <1>3 DEF Picker!connectSession, Picker!Connected, Picker!TakeEvent, Picker!vars
<1>4. ASSUME NEW x \in Picker!Selections, Picker!applySelection(x) \/ Picker!updateNewChatDraft(x) PROVE ~races.crossed
  BY <1>4 DEF Picker!applySelection, Picker!updateNewChatDraft
<1>5. ASSUME NEW r \in requests, Picker!TakeAnswer(r) \/ Picker!FailPatch(r) \/ Picker!updateModelSelection(r) \/ Picker!getSettings(r)
      PROVE  ~races.crossed
  BY <1>5 DEF Picker!TakeAnswer, Picker!FailPatch, Picker!updateModelSelection,
        Picker!getSettings
<1>6. ASSUME NEW s \in Picked, Picker!BeginTurn(s) \/ Picker!updateLastResolvedModel(s) \/ Picker!EndTurn(s) PROVE ~races.crossed
  BY <1>6 DEF Picker!BeginTurn, Picker!updateLastResolvedModel, Picker!EndTurn
<1>7. ASSUME NEW s \in Picked, NEW m \in Picker!Models, Picker!ModelAnswers(s, m) PROVE ~races.crossed
  BY <1>7 DEF Picker!ModelAnswers
<1>8. QED
  BY <1>1, <1>2, <1>3, <1>4, <1>5, <1>6, <1>7 DEF Picker!Next

\* The page leaves its session, with no request under way.
LEMMA NothingCrosses ==
  ASSUME Picker!TypeOK, NEW s \in Picked \cup {None}, Picker!Leave(s), ~races'.crossed
  PROVE  requests = {}
BY DEF Picker!Leave, Picker!TypeOK

\* Every step keeps the requests in order, unless answers cross.
LEMMA RequestsInOrderStep ==
  ASSUME Picker!ModelPickerAssumption, Picker!TypeOK, Picker!SessionsThere,
         Picker!RequestsInOrder, [Picker!Next]_Picker!vars
  PROVE  Picker!RequestsInOrder'
<1>1. SUFFICES ASSUME ~races'.crossed
               PROVE  (\A r \in requests' : OrderOf(r)') /\ PatchesOnce' /\ SelectionFollows' /\ DisplayFollows'
  BY OrderJoin
<1> DEFINE Goal == (\A r \in requests' : OrderOf(r)') /\ PatchesOnce' /\ SelectionFollows' /\ DisplayFollows'
<1>a. ~races.crossed /\ (\A r \in requests : OrderOf(r)) /\ PatchesOnce /\ SelectionFollows /\ DisplayFollows
  BY <1>1, CrossedStays, OrderSplit
<1>b. ConnectsOnce /\ PageThere /\ (\A r \in requests : RequestThere(r))
  BY DEF Picker!SessionsThere, ConnectsOnce, PageThere, RequestThere
<1>c. \A r \in requests : r.id \in Picked /\ r.kind \in {"connect", "get", "patch"} /\ r.id # None
  BY RequestFields DEF Picker!ModelPickerAssumption
<1>d. requests # {} => route # None
  BY <1>a, <1>c DEF OrderOf
<1>e. Picker!Patches = {r \in requests : r.kind = "patch"} /\ Picker!Patches' = {r \in requests' : r.kind = "patch"}
  BY DEF Picker!Patches
<1> HIDE DEF Goal
\* What happens in the daemon leaves the selections.
<1>f. ASSUME UNCHANGED <<requests, route, status, settings, display, dedup, saving>>,
             \A s \in Picked : meta[s] # None => meta'[s].selection = meta[s].selection
      PROVE  Goal
  <2>1. route # None => meta'[route].selection = meta[route].selection
    BY <1>b, <1>f DEF PageThere, Picker!TypeOK
  <2>2. \A r \in requests' : OrderOf(r)'
    BY <2>1, <1>a, <1>d, <1>f DEF OrderOf
  <2>3. status \in {"loaded", "ready"} => route # None
    BY <1>b DEF PageThere
  <2>4. SelectionFollows'
    BY <2>1, <2>3, <1>a, <1>e, <1>f DEF SelectionFollows
  <2>5. QED
    BY <2>2, <2>4, <1>a, <1>f DEF Goal, PatchesOnce, DisplayFollows
\* The page leaves its session.
<1>g. ASSUME NEW s \in Picked \cup {None}, Picker!Leave(s), UNCHANGED requests, status' \in {"idle", "checking"}
      PROVE  Goal
  <2>1. requests' = {}
    BY <1>1, <1>g, NothingCrosses
  <2>2. QED
    BY <2>1, <1>g DEF Goal, PatchesOnce, SelectionFollows, DisplayFollows
\* While the page is about to connect there is no request.
<1>h. status \in {"idle", "checking", "loaded"} => requests = {}
  BY <1>a DEF OrderOf
<1>2. ASSUME NEW s \in Picked, Picker!OpenSession(s) PROVE Goal
  BY <1>2, <1>g DEF Picker!OpenSession
<1>3. ASSUME Picker!OpenNewChat PROVE Goal
  <2>1. None \in Picked \cup {None} /\ Picker!Leave(None) /\ UNCHANGED requests /\ status' = "idle"
    BY <1>3 DEF Picker!OpenNewChat
  <2>2. QED
    BY <2>1, <1>g
<1>4. ASSUME NEW s \in Picked, Picker!createSession(s) PROVE Goal
  BY <1>4, <1>g DEF Picker!createSession
<1>5. ASSUME Picker!connectSession PROVE Goal
  <2> DEFINE new == Picker!Request("connect", route, None)
  <2>1. new.id = route /\ new.kind = "connect" /\ new.step = "sent"
    BY DEF Picker!Request
  <2>2. requests' = {new} /\ UNCHANGED <<route, settings>> /\ status' = "connecting" /\ display' = None /\ dedup' = None
    BY <1>5, <1>h DEF Picker!connectSession
  <2> HIDE DEF new
  <2>3. QED
    BY <2>1, <2>2 DEF Goal, OrderOf, PatchesOnce, SelectionFollows, DisplayFollows
<1>6. ASSUME Picker!Connected PROVE Goal
  BY <1>6, <1>a, <1>e, <1>h DEF Picker!Connected, Goal, PatchesOnce, SelectionFollows,
        DisplayFollows
\* The picker saves one selection at a time.
<1>7. ASSUME NEW x \in Picker!Selections, Picker!applySelection(x) PROVE Goal
  <2> DEFINE new == Picker!Request("patch", route, x)
  <2>1. new.id = route /\ new.kind = "patch" /\ new.step = "sent"
    BY DEF Picker!Request
  <2>2. /\ requests' = requests \cup {new} /\ UNCHANGED <<meta, route, status, settings>> /\ status = "ready"
        /\ display' = None /\ dedup' = None /\ saving' = TRUE /\ ~saving
    BY <1>7 DEF Picker!applySelection
  <2> HIDE DEF new
  <2>3. \A r \in requests : r.kind = "get"
    BY <2>2, <1>a, <1>c DEF OrderOf
  <2>4. \A r \in requests' : OrderOf(r)'
    BY <2>1, <2>2, <1>a DEF OrderOf
  <2>5. PatchesOnce'
    BY <2>1, <2>2, <2>3 DEF PatchesOnce
  <2>6. SelectionFollows'
    BY <2>2, <2>3, <1>a, <1>e DEF SelectionFollows
  <2>7. QED
    BY <2>2, <2>4, <2>5, <2>6 DEF Goal, DisplayFollows
<1>8. ASSUME NEW x \in Picker!Selections, Picker!updateNewChatDraft(x) PROVE Goal
  BY <1>8, <1>f DEF Picker!updateNewChatDraft
\* The answer of the session on the screen brings the selection that it has.
<1>9. ASSUME NEW r \in requests, Picker!TakeAnswer(r) PROVE Goal
  <2>1. /\ requests' = requests \ {r} /\ UNCHANGED <<meta, route, dedup>> /\ settings' = r.answer /\ r.step = "answered"
        /\ saving' = (saving /\ r.kind # "patch")
    BY <1>9 DEF Picker!TakeAnswer
  <2>2. settings'.selection = meta'[route'].selection
    BY <2>1, <1>a DEF OrderOf
  <2>3. r.kind = "connect" => requests' = {} /\ status' = "loaded"
    BY <2>1, <1>9, <1>a, <1>c DEF OrderOf, PatchesOnce, Picker!TakeAnswer
  <2>4. r.kind # "connect" => UNCHANGED <<status, display>> /\ status = "ready"
    BY <1>9, <1>a DEF OrderOf, Picker!TakeAnswer
  <2>5. r.kind = "patch" => \A q \in requests' : q.kind # "patch"
    BY <2>1, <1>a DEF PatchesOnce
  <2>6. \A q \in requests' : OrderOf(q)'
    BY <2>1, <2>3, <2>4, <2>5, <1>a DEF OrderOf
  <2>7. r.kind = "connect" => dedup = None
    BY <1>a DEF OrderOf, DisplayFollows
  <2>8. DisplayFollows'
    BY <2>1, <2>3, <2>4, <2>7, <1>a DEF DisplayFollows
  <2>9. QED
    BY <2>1, <2>2, <2>6, <2>8, <1>a DEF Goal, PatchesOnce, SelectionFollows
<1>10. ASSUME NEW r \in requests, Picker!FailPatch(r) PROVE Goal
  BY <1>10, <1>1 DEF Picker!FailPatch, Picker!TypeOK
\* What was displayed last is what is remembered against duplicates.
<1>11. ASSUME Picker!TakeEvent PROVE Goal
  <2> DEFINE new == Picker!Request("get", route, None)
             e == Head(stream[route])
  <2>1. new.id = route /\ new.kind = "get" /\ new.step = "sent"
    BY DEF Picker!Request
  <2>2. /\ (requests' = requests \/ requests' = requests \cup {new}) /\ status = "ready"
        /\ UNCHANGED <<meta, route, status, settings, saving>>
        /\ \/ UNCHANGED <<display, dedup>>
           \/ dedup' = None
           \/ dedup' = e /\ display' = IF e = dedup THEN display ELSE e
    BY <1>11 DEF Picker!TakeEvent
  <2> HIDE DEF new, e
  <2>3. \A r \in requests' : OrderOf(r)'
    BY <2>1, <2>2, <1>a DEF OrderOf
  <2>4. PatchesOnce' /\ Picker!Patches' = Picker!Patches
    BY <2>1, <2>2, <1>a, <1>e DEF PatchesOnce
  <2>5. SelectionFollows'
    BY <2>2, <2>4, <1>a DEF SelectionFollows
  <2>6. DisplayFollows'
    BY <2>2, <1>a DEF DisplayFollows
  <2>7. QED
    BY <2>3, <2>4, <2>5, <2>6 DEF Goal
<1>12. ASSUME NEW s \in Picked, Picker!BeginTurn(s) \/ Picker!EndTurn(s) PROVE Goal
  BY <1>12, <1>f DEF Picker!BeginTurn, Picker!EndTurn
<1>13. ASSUME NEW s \in Picked, NEW m \in Picker!Models, Picker!ModelAnswers(s, m) PROVE Goal
  BY <1>13, <1>f DEF Picker!ModelAnswers
<1>14. ASSUME NEW s \in Picked, Picker!updateLastResolvedModel(s) PROVE Goal
  <2>1. \A t \in Picked : meta[t] # None => meta'[t].selection = meta[t].selection
    BY <1>14 DEF Picker!updateLastResolvedModel, Picker!TypeOK, Picker!Metas
  <2>2. QED
    BY <1>14, <2>1, <1>f DEF Picker!updateLastResolvedModel
\* Nothing that was read before is under way, or answers cross.
<1>15. ASSUME NEW r \in requests, Picker!updateModelSelection(r) PROVE Goal
  <2> DEFINE new == [r EXCEPT !.step = "patched"]
  <2>1. new.id = r.id /\ new.kind = "patch" /\ new.step = "patched" /\ r.kind = "patch"
    BY <1>15, RequestFields DEF Picker!Requests, Picker!updateModelSelection
  <2>2. /\ requests' = (requests \ {r}) \cup {new} /\ UNCHANGED <<route, status, settings, display, dedup, saving>>
        /\ \A q \in requests \ {r} : q.step = "sent"
    BY <1>15, <1>1 DEF Picker!updateModelSelection, Picker!TypeOK
  <2> HIDE DEF new
  <2>3. \A q \in requests' : q = new \/ (q \in requests /\ q.step = "sent")
    BY <2>2
  <2>4. \A q \in requests' : OrderOf(q)'
    BY <2>1, <2>2, <2>3, <1>a DEF OrderOf
  <2>5. PatchesOnce'
    BY <2>1, <2>2, <1>a DEF PatchesOnce
  <2>6. SelectionFollows'
    BY <2>1, <2>2, <1>e DEF SelectionFollows
  <2>7. QED
    BY <2>2, <2>4, <2>5, <2>6, <1>a DEF Goal, DisplayFollows
<1>16. ASSUME NEW r \in requests, Picker!getSettings(r) PROVE Goal
  <2> DEFINE a == [id |-> r.id, selection |-> meta[r.id].selection, modelRef |-> Picker!ModelRefOf(meta[r.id])]
             new == [r EXCEPT !.step = "answered", !.answer = a]
  <2>1. new.id = r.id /\ new.kind = r.kind /\ new.step = "answered" /\ new.answer = a /\ a.selection = meta[r.id].selection
    BY RequestFields DEF Picker!Requests
  <2>2. /\ requests' = (requests \ {r}) \cup {new} /\ UNCHANGED <<meta, route, status, settings, display, dedup, saving>>
        /\ r.kind = "patch" => r.step # "sent"
    BY <1>16 DEF Picker!getSettings
  <2> HIDE DEF new, a
  <2>3. \A q \in requests' : OrderOf(q)'
    BY <2>1, <2>2, <1>a DEF OrderOf
  <2>4. PatchesOnce'
    BY <2>1, <2>2, <1>a DEF PatchesOnce
  <2>5. SelectionFollows'
    BY <2>1, <2>2, <1>a, <1>e DEF SelectionFollows
  <2>6. QED
    BY <2>2, <2>3, <2>4, <2>5, <1>a DEF Goal, DisplayFollows
<1>17. ASSUME UNCHANGED Picker!vars PROVE Goal
  <2>1. UNCHANGED <<requests, route, status, settings, display, dedup, saving>> /\ meta' = meta
    BY <1>17 DEF Picker!vars
  <2>2. QED
    BY <2>1, <1>f
<1>18. QED
  BY <1>2, <1>3, <1>4, <1>5, <1>6, <1>7, <1>8, <1>9, <1>10, <1>11, <1>12, <1>13, <1>14,
        <1>15, <1>16, <1>17
  DEF Picker!Next, Goal

\* What StreamsEndResolved says of one session
EndsAsResolved(s) ==
  s \notin races.raced /\ meta[s] # None =>
    /\ turn[s] # Picker!NoTurn => turn[s].selection = Picker!Effective(meta[s].selection)
    /\ Picker!Resolved(s) \in Picker!Elements(Picker!Candidates(Picker!Effective(meta[s].selection))) \cup {None}
    /\ Picker!Silent(stream[s]) \/ (Picker!Resolved(s) # None /\ Picker!EndsWith(stream[s], Picker!Resolved(s)))
    /\ turn[s].answered # None /\ ~(s = route /\ status = "ready") => ~Picker!Silent(stream[s])

\* What StreamsEndResolved says of all sessions it says of one.
LEMMA StreamsSplit ==
  ASSUME Picker!StreamsEndResolved, ~races.crossed, NEW s \in Picked
  PROVE  EndsAsResolved(s)
BY DEF Picker!StreamsEndResolved, EndsAsResolved

\* What it says of each session it says of all.
LEMMA StreamsJoin ==
  ASSUME ~races'.crossed => \A s \in Picked : EndsAsResolved(s)'
  PROVE  Picker!StreamsEndResolved'
BY DEF Picker!StreamsEndResolved, EndsAsResolved

\* Every step keeps the model that answered last at the end of the stream.
LEMMA StreamsEndResolvedStep ==
  ASSUME Picker!ModelPickerAssumption, Picker!TypeOK, Picker!SessionsThere,
         Picker!RequestsInOrder, Picker!StreamsEndResolved, Picker!PageFollows,
         [Picker!Next]_Picker!vars
  PROVE  Picker!StreamsEndResolved'
<1>1. SUFFICES ASSUME ~races'.crossed, NEW s \in Picked
               PROVE  EndsAsResolved(s)'
  BY StreamsJoin
<1> DEFINE Goal == EndsAsResolved(s)'
<1>a. ~races.crossed /\ EndsAsResolved(s)
  BY <1>1, CrossedStays, StreamsSplit
<1>b. /\ \A t \in Picked : SessionThere(t)
      /\ \A r \in requests : RequestThere(r)
      /\ Picker!NoTurn.answered = None
  BY DEF Picker!SessionsThere, SessionThere, RequestThere, Picker!NoTurn
<1>c. /\ stream[s] \in Seq(Picker!Models \cup Picker!Marks) /\ turn[s].answered \in Picker!Models \cup {None} /\ None \notin Picker!Models
      /\ races.raced \subseteq Picked
  BY SessionFields DEF Picker!TypeOK, Picker!ModelPickerAssumption
<1> HIDE DEF Goal
\* Nothing of the session
<1>d. ASSUME turn'[s] = turn[s], meta'[s] = meta[s], stream'[s] = stream[s],
             s \notin races'.raced => s \notin races.raced,
             s = route /\ status = "ready" => s = route' /\ status' = "ready"
      PROVE  Goal
  BY <1>a, <1>d DEF Goal, EndsAsResolved, Picker!Resolved
\* An event that is no model
<1>e. ASSUME turn'[s].answered = None, turn[s].answered = None, meta'[s] = meta[s],
             NEW e \in Picker!Marks, stream'[s] = Append(stream[s], e), races' = races,
             turn'[s] # Picker!NoTurn => turn'[s].selection = Picker!Effective(meta[s].selection)
      PROVE  Goal
  <2>1. /\ Picker!Silent(stream'[s]) <=> Picker!Silent(stream[s])
        /\ \A m : Picker!EndsWith(stream[s], m) => Picker!EndsWith(stream'[s], m)
    BY <1>c, <1>e, StreamPut
  <2>2. Picker!Resolved(s)' = Picker!Resolved(s)
    BY <1>e DEF Picker!Resolved
  <2>3. QED
    BY <1>a, <1>e, <2>1, <2>2 DEF Goal, EndsAsResolved
\* The page leaves a session: its stream is empty, and no turn runs.
<1>f. ASSUME NEW t \in Picked \cup {None}, Picker!Leave(t), UNCHANGED <<meta, turn>> PROVE Goal
  <2>1. /\ races'.raced = IF route # None /\ turn[route] # Picker!NoTurn THEN races.raced \cup {route} ELSE races.raced
        /\ stream' = IF route = None \/ status # "ready" THEN stream ELSE [stream EXCEPT ![route] = <<>>]
    BY <1>f DEF Picker!Leave, Picker!TypeOK
  <2>2. CASE s = route /\ status = "ready"
    <3>1. stream'[s] = <<>> /\ (s \notin races'.raced => turn[s] = Picker!NoTurn /\ s \notin races.raced)
      BY <2>1, <2>2 DEF Picker!TypeOK, Picker!ModelPickerAssumption
    <3>2. Picker!Resolved(s)' = Picker!Resolved(s) /\ Picker!Silent(<<>>)
      BY <1>f DEF Picker!Resolved, Picker!Silent
    <3>3. QED
      BY <1>a, <1>b, <1>f, <3>1, <3>2 DEF Goal, EndsAsResolved
  <2>3. CASE ~(s = route /\ status = "ready")
    <3>1. stream'[s] = stream[s] /\ (s \notin races'.raced => s \notin races.raced)
      BY <2>1, <2>3 DEF Picker!TypeOK
    <3>2. QED
      BY <1>d, <1>f, <2>3, <3>1
  <2>4. QED
    BY <2>2, <2>3
<1>2. ASSUME NEW t \in Picked, Picker!OpenSession(t) PROVE Goal
  BY <1>2, <1>f DEF Picker!OpenSession
<1>3. ASSUME Picker!OpenNewChat PROVE Goal
  <2>1. None \in Picked \cup {None} /\ Picker!Leave(None) /\ UNCHANGED <<meta, turn>>
    BY <1>3 DEF Picker!OpenNewChat
  <2>2. QED
    BY <2>1, <1>f
<1>4. ASSUME NEW t \in Picked, Picker!createSession(t) PROVE Goal
  <2>1. CASE t # s
    <3>1. /\ races'.raced = IF route # None /\ turn[route] # Picker!NoTurn THEN races.raced \cup {route} ELSE races.raced
          /\ stream' = stream /\ status = "idle" /\ turn' = turn
      BY <1>4 DEF Picker!createSession, Picker!Leave, Picker!TypeOK
    <3>2. meta'[s] = meta[s]
      BY <1>4, <2>1 DEF Picker!createSession, Picker!TypeOK
    <3>3. QED
      BY <1>d, <3>1, <3>2
  <2>2. CASE t = s
    <3>1. turn'[s] = Picker!NoTurn /\ stream'[s] = <<>>
      BY <1>4, <1>b, <2>2 DEF Picker!createSession, Picker!Leave, SessionThere,
            Picker!TypeOK
    <3>2. meta'[s].resolved = None
      BY <1>4, <2>2 DEF Picker!createSession, Picker!TypeOK
    <3>3. QED
      BY <1>b, <3>1, <3>2 DEF Goal, EndsAsResolved, Picker!Resolved, Picker!Silent
  <2>3. QED
    BY <2>1, <2>2
<1>5. ASSUME Picker!connectSession \/ Picker!Connected PROVE Goal
  BY <1>5, <1>d DEF Picker!connectSession, Picker!Connected
<1>6. ASSUME NEW x \in Picker!Selections, Picker!applySelection(x) PROVE Goal
  <2>1. s \notin races'.raced => s \notin races.raced
    BY <1>6 DEF Picker!applySelection, Picker!TypeOK
  <2>2. QED
    BY <1>6, <1>d, <2>1 DEF Picker!applySelection
<1>7. ASSUME NEW x \in Picker!Selections, Picker!updateNewChatDraft(x) PROVE Goal
  BY <1>7, <1>d DEF Picker!updateNewChatDraft
<1>8. ASSUME NEW r \in requests, Picker!TakeAnswer(r) PROVE Goal
  <2>1. status = "ready" => status' = "ready"
    BY <1>8, <1>a, OrderSplit DEF Picker!TakeAnswer, OrderOf
  <2>2. QED
    BY <1>8, <1>d, <2>1 DEF Picker!TakeAnswer
<1>9. ASSUME NEW r \in requests, Picker!FailPatch(r) PROVE Goal
  BY <1>9, <1>1 DEF Picker!FailPatch, Picker!TypeOK
\* The page takes the first event; the last one stays, or no model does.
<1>10. ASSUME Picker!TakeEvent PROVE Goal
  <2>1. UNCHANGED <<meta, turn, route, status, races>> /\ status = "ready" /\ stream[route] # <<>>
        /\ stream' = [stream EXCEPT ![route] = Tail(@)]
    BY <1>10 DEF Picker!TakeEvent
  <2>2. CASE s = route
    <3>1. stream'[s] = Tail(stream[s]) /\ stream[s] # <<>> /\ Picker!Resolved(s)' = Picker!Resolved(s)
      BY <2>1, <2>2 DEF Picker!TypeOK, Picker!Resolved
    <3>2. meta[s] # None => Picker!Resolved(s) \in Picker!Models \cup {None}
      BY <1>c, SessionFields DEF Picker!Resolved
    <3>3. Picker!Silent(stream[s]) => Picker!Silent(Tail(stream[s]))
      <4>1. CASE Picker!Models # {}
        BY <1>c, <3>1, <4>1, StreamTaken
      <4>2. CASE Picker!Models = {}
        BY <1>c, <3>1, <4>2 DEF Picker!Silent
      <4>3. QED
        BY <4>1, <4>2
    <3>4. meta[s] # None /\ Picker!Resolved(s) # None /\ Picker!EndsWith(stream[s], Picker!Resolved(s)) =>
            Picker!Silent(Tail(stream[s])) \/ Picker!EndsWith(Tail(stream[s]), Picker!Resolved(s))
      BY <1>c, <3>1, <3>2, StreamTaken
    <3>5. QED
      BY <1>a, <2>1, <2>2, <3>1, <3>3, <3>4 DEF Goal, EndsAsResolved
  <2>3. CASE s # route
    BY <2>1, <2>3, <1>d DEF Picker!TypeOK
  <2>4. QED
    BY <2>2, <2>3
<1>11. ASSUME NEW t \in Picked, Picker!BeginTurn(t) PROVE Goal
  <2>1. CASE t = s
    <3>1. /\ meta'[s] = meta[s] /\ turn[s].answered = None /\ races' = races
          /\ turn'[s] = [selection |-> Picker!Effective(meta[s].selection), preferred |-> meta[s].resolved, answered |-> None]
          /\ stream'[s] = Append(stream[s], "start") /\ "start" \in Picker!Marks
      BY <1>11, <1>b, <2>1 DEF Picker!BeginTurn, Picker!Publish, Picker!TypeOK, Picker!Marks
    <3>2. QED
      BY <3>1, <1>e
  <2>2. CASE t # s
    BY <1>11, <1>d, <2>2 DEF Picker!BeginTurn, Picker!Publish, Picker!TypeOK
  <2>3. QED
    BY <2>1, <2>2
\* The model that answers is the last one of the stream.
<1>12. ASSUME NEW t \in Picked, NEW m \in Picker!Models, Picker!ModelAnswers(t, m) PROVE Goal
  <2>1. CASE t = s
    <3>1. /\ turn[s] # Picker!NoTurn /\ meta'[s] = meta[s] /\ m \in Picker!Elements(Picker!Candidates(turn[s].selection))
          /\ turn'[s].selection = turn[s].selection /\ turn'[s].answered = m
          /\ stream'[s] = Append(stream[s], m)
      BY <1>12, <2>1 DEF Picker!ModelAnswers, Picker!Publish, Picker!TypeOK, Picker!Turns
    <3>2. s \notin races'.raced /\ meta[s] # None => turn[s].selection = Picker!Effective(meta[s].selection)
      <4>1. s \notin races'.raced => s \notin races.raced \/ turn[s].selection = Picker!Effective(meta[s].selection)
        BY <1>12, <2>1 DEF Picker!ModelAnswers, Picker!TypeOK
      <4>2. QED
        BY <4>1, <1>a, <3>1 DEF EndsAsResolved
    <3>3. Picker!Resolved(s)' = m /\ m # None
      BY <1>c, <3>1 DEF Picker!Resolved
    <3>4. Picker!EndsWith(stream'[s], m) /\ ~Picker!Silent(stream'[s])
      <4>1. m \notin Picker!Marks
        BY DEF Picker!ModelPickerAssumption, Picker!Marks
      <4>2. QED
        BY <1>c, <3>1, <4>1, StreamPut
    <3>5. QED
      BY <3>1, <3>2, <3>3, <3>4 DEF Goal, EndsAsResolved
  <2>2. CASE t # s
    <3>1. s \notin races'.raced => s \notin races.raced
      BY <1>12, <2>2 DEF Picker!ModelAnswers, Picker!TypeOK
    <3>2. QED
      BY <1>12, <1>d, <2>2, <3>1 DEF Picker!ModelAnswers, Picker!Publish, Picker!TypeOK
  <2>3. QED
    BY <2>1, <2>2
<1>13. ASSUME NEW t \in Picked, Picker!updateLastResolvedModel(t) PROVE Goal
  <2>1. CASE t = s
    <3>1. turn[s].answered # None /\ turn[s] # Picker!NoTurn /\ meta[s] # None /\ meta[s] \in Picker!Metas
      BY <1>13, <1>b, <2>1, SessionFields DEF Picker!updateLastResolvedModel, SessionThere
    <3>2. meta'[s].selection = meta[s].selection /\ meta'[s].resolved = turn[s].answered
      BY <1>13, <2>1, <3>1 DEF Picker!updateLastResolvedModel, Picker!TypeOK, Picker!Metas
    <3>3. turn'[s].selection = turn[s].selection /\ turn'[s].answered = None
      BY <1>13, <2>1 DEF Picker!updateLastResolvedModel, Picker!TypeOK, Picker!Turns
    <3>4. UNCHANGED <<stream, route, status>> /\ (s \notin races'.raced => s \notin races.raced)
      BY <1>13 DEF Picker!updateLastResolvedModel, Picker!TypeOK
    <3>5. Picker!Resolved(s)' = Picker!Resolved(s)
      BY <3>1, <3>2, <3>3 DEF Picker!Resolved
    <3>6. QED
      BY <1>a, <3>1, <3>2, <3>3, <3>4, <3>5 DEF Goal, EndsAsResolved
  <2>2. CASE t # s
    <3>1. s \notin races'.raced => s \notin races.raced
      BY <1>13 DEF Picker!updateLastResolvedModel, Picker!TypeOK
    <3>2. QED
      BY <1>13, <1>d, <2>2, <3>1 DEF Picker!updateLastResolvedModel, Picker!TypeOK
  <2>3. QED
    BY <2>1, <2>2
<1>14. ASSUME NEW t \in Picked, Picker!EndTurn(t) PROVE Goal
  <2>1. CASE t = s
    <3>1. /\ meta'[s] = meta[s] /\ turn[s].answered = None /\ races' = races /\ turn'[s] = Picker!NoTurn
          /\ stream'[s] = Append(stream[s], "end") /\ "end" \in Picker!Marks
      BY <1>14, <2>1 DEF Picker!EndTurn, Picker!Publish, Picker!TypeOK, Picker!Marks
    <3>2. QED
      BY <3>1, <1>b, <1>e
  <2>2. CASE t # s
    BY <1>14, <1>d, <2>2 DEF Picker!EndTurn, Picker!Publish, Picker!TypeOK
  <2>3. QED
    BY <2>1, <2>2
\* A change of the selection finds no turn and no model in the stream, or it raced.
<1>15. ASSUME NEW r \in requests, Picker!updateModelSelection(r) PROVE Goal
  <2>1. /\ r.kind = "patch" /\ UNCHANGED <<turn, stream, route, status>>
        /\ meta' = [meta EXCEPT ![r.id] = [selection |-> r.selection, resolved |-> None]]
        /\ races'.raced = IF turn[r.id] # Picker!NoTurn THEN races.raced \cup {r.id} ELSE races.raced
    BY <1>15 DEF Picker!updateModelSelection, Picker!TypeOK
  <2>2. CASE s = r.id
    <3>1. route = s /\ r \in Picker!Patches
      BY <1>a, <2>1, <2>2, OrderSplit DEF OrderOf, Picker!Patches
    <3>2. s # None
      BY DEF Picker!ModelPickerAssumption
    <3>3. s \notin races.raced => Picker!Silent(stream[s])
      BY <1>a, <3>1, <3>2 DEF Picker!PageFollows
    <3>4. meta'[s].resolved = None
      BY <2>1, <2>2 DEF Picker!TypeOK
    <3>5. s \notin races'.raced => turn'[s] = Picker!NoTurn /\ s \notin races.raced
      BY <2>1, <2>2
    <3>6. QED
      BY <1>b, <2>1, <3>3, <3>4, <3>5 DEF Goal, EndsAsResolved, Picker!Resolved
  <2>3. CASE s # r.id
    BY <1>d, <2>1, <2>3 DEF Picker!TypeOK
  <2>4. QED
    BY <2>2, <2>3
<1>16. ASSUME NEW r \in requests, Picker!getSettings(r) PROVE Goal
  BY <1>16, <1>d DEF Picker!getSettings
<1>17. ASSUME UNCHANGED Picker!vars PROVE Goal
  BY <1>17, <1>d DEF Picker!vars
<1>18. QED
  BY <1>2, <1>3, <1>4, <1>5, <1>6, <1>7, <1>8, <1>9, <1>10, <1>11, <1>12, <1>13, <1>14,
        <1>15, <1>16, <1>17
  DEF Picker!Next, Goal

\* The parts of PageFollows
Quiet == Picker!Silent(stream[route])
ArrivedRight == \A r \in Picker!Arrived : r.answer.modelRef = Picker!ModelRefOf(meta[route])
PageConnecting == status = "connecting" /\ Quiet => ArrivedRight
PageDisplays ==
  status \in {"loaded", "ready"} /\ Picker!Patches = {} /\ Quiet =>
    IF display # None THEN display = Picker!WillTry(route)
    ELSE Picker!Resolved(route) = None /\ settings.modelRef = Picker!ModelRefOf(meta[route]) /\ ArrivedRight
PagePatches ==
  \A p \in Picker!Patches : /\ display = None /\ dedup = None /\ Quiet
                            /\ p.step # "sent" => Picker!Resolved(route) = None /\ ArrivedRight

\* These are what PageFollows says.
LEMMA PageSplit ==
  ASSUME Picker!PageFollows, ~races.crossed, route # None, route \notin races.raced
  PROVE  PageConnecting /\ PageDisplays /\ PagePatches
BY DEF Picker!PageFollows, PageConnecting, PageDisplays, PagePatches, Quiet, ArrivedRight

\* They make PageFollows.
LEMMA PageJoin ==
  ASSUME ~races'.crossed /\ route' # None /\ route' \notin races'.raced =>
           PageConnecting' /\ PageDisplays' /\ PagePatches'
  PROVE  Picker!PageFollows'
BY DEF Picker!PageFollows, PageConnecting, PageDisplays, PagePatches, Quiet, ArrivedRight

\* What a session tries next, by what answered last
LEMMA WillTryIs ==
  ASSUME Picker!ModelPickerAssumption, Picker!TypeOK, NEW s \in Picked, meta[s] # None,
         s \notin races.raced, EndsAsResolved(s)
  PROVE  /\ Picker!Resolved(s) # None => Picker!WillTry(s) = Picker!Resolved(s)
         /\ Picker!Resolved(s) = None => Picker!WillTry(s) = Picker!Candidates(Picker!Effective(meta[s].selection))[1]
         /\ turn[s].answered = None => Picker!Resolved(s) = meta[s].resolved
         /\ turn[s].answered = None /\ Picker!ModelRefOf(meta[s]) # None => Picker!ModelRefOf(meta[s]) = Picker!WillTry(s)
         /\ turn[s].answered = None /\ Picker!ModelRefOf(meta[s]) = None => Picker!Resolved(s) = None
<1> DEFINE x == meta[s].selection
<1>1. x \in Picker!Selections \cup {None} /\ Picker!Effective(x) \in Picker!Selections /\ (x # None => Picker!Effective(x) = x)
  BY SessionFields, EffectiveIs
<1>2. None \notin Picker!Elements(Picker!Candidates(Picker!Effective(x)))
  BY <1>1, CandidatesAre
<1>3. Picker!Resolved(s) \in Picker!Elements(Picker!Candidates(Picker!Effective(x))) \cup {None}
  BY DEF EndsAsResolved
<1>4. /\ Picker!Resolved(s) # None => Picker!WillTry(s) = Picker!Resolved(s)
      /\ Picker!Resolved(s) = None => Picker!WillTry(s) = Picker!Candidates(Picker!Effective(x))[1]
  BY <1>2, <1>3 DEF Picker!WillTry
<1>5. turn[s].answered = None => Picker!Resolved(s) = meta[s].resolved
  BY DEF Picker!Resolved
<1>6. x \in Explicit => Picker!Candidates(Picker!Effective(x))[1] = x
  <2>1. ASSUME x \in Explicit PROVE Picker!Effective(x) = x /\ x \notin Picker!Tiers /\ x \in Picker!Selections
    BY <1>1, <2>1 DEF Picker!ModelPickerAssumption, Picker!Selections
  <2>2. QED
    BY <2>1, CandidatesAre
<1> HIDE DEF x
<1>7. QED
  BY <1>4, <1>5, <1>6 DEF Picker!ModelRefOf, x

\* Every step keeps the page in step with the daemon.
LEMMA PageFollowsStep ==
  ASSUME Picker!ModelPickerAssumption, Picker!TypeOK, Picker!SessionsThere,
         Picker!RequestsInOrder, Picker!StreamsEndResolved, Picker!PageFollows,
         [Picker!Next]_Picker!vars
  PROVE  Picker!PageFollows'
<1>1. SUFFICES ASSUME ~races'.crossed, route' # None, route' \notin races'.raced
               PROVE  PageConnecting' /\ PageDisplays' /\ PagePatches'
  BY PageJoin
<1> DEFINE Goal == PageConnecting' /\ PageDisplays' /\ PagePatches'
<1>a. ~races.crossed /\ (\A r \in requests : OrderOf(r)) /\ PatchesOnce /\ SelectionFollows /\ DisplayFollows
  BY <1>1, CrossedStays, OrderSplit
<1>b. ConnectsOnce /\ PageThere /\ (\A s \in Picked : SessionThere(s)) /\ (\A r \in requests : RequestThere(r))
  BY DEF Picker!SessionsThere, ConnectsOnce, PageThere, SessionThere, RequestThere
<1>c. \A r \in requests : r.kind \in {"connect", "get", "patch"}
  BY RequestFields
<1>d. route # None => route \in Picked /\ meta[route] # None /\ stream[route] \in Seq(Picker!Models \cup Picker!Marks)
                      /\ EndsAsResolved(route) /\ turn[route].answered \in Picker!Models \cup {None}
  BY <1>a, <1>b, StreamsSplit, SessionFields DEF PageThere, Picker!TypeOK
<1>e. route # None /\ route \notin races.raced => PageConnecting /\ PageDisplays /\ PagePatches
  BY <1>a, PageSplit
<1>f. /\ Picker!Patches = {r \in requests : r.kind = "patch"} /\ Picker!Patches' = {r \in requests' : r.kind = "patch"}
      /\ Picker!Arrived = {r \in requests : r.step = "answered"} /\ Picker!Arrived' = {r \in requests' : r.step = "answered"}
  BY DEF Picker!Patches, Picker!Arrived
<1>g. status \in {"idle", "checking", "loaded"} => requests = {}
  BY <1>a DEF OrderOf
<1> HIDE DEF Goal
\* Nothing that the page shows, or that it is about
<1>h. ASSUME UNCHANGED <<requests, route, status, settings, display, dedup>>, route \notin races.raced,
             meta'[route] = meta[route], turn'[route].answered = turn[route].answered, Quiet' <=> Quiet
      PROVE  Goal
  <2>1. Picker!Resolved(route)' = Picker!Resolved(route) /\ Picker!WillTry(route)' = Picker!WillTry(route)
    BY <1>h DEF Picker!Resolved, Picker!WillTry
  <2>2. Picker!Arrived' = Picker!Arrived /\ Picker!Patches' = Picker!Patches
    BY <1>h, <1>f
  <2>3. ArrivedRight' <=> ArrivedRight
    BY <2>2, <1>h DEF ArrivedRight
  <2>4. PageConnecting /\ PageDisplays /\ PagePatches
    BY <1>1, <1>e, <1>h
  <2>5. PageConnecting' /\ PagePatches'
    BY <2>1, <2>2, <2>3, <2>4, <1>h DEF PageConnecting, PagePatches
  <2>6. PageDisplays'
    BY <2>1, <2>2, <2>3, <2>4, <1>h DEF PageDisplays
  <2>7. QED
    BY <2>5, <2>6 DEF Goal
\* The page leaves its session.
<1>i. ASSUME NEW s \in Picked \cup {None}, Picker!Leave(s), UNCHANGED requests, status' \in {"idle", "checking"}
      PROVE  Goal
  <2>1. requests' = {}
    BY <1>1, <1>i, NothingCrosses
  <2>2. QED
    BY <2>1, <1>f, <1>i DEF Goal, PageConnecting, PageDisplays, PagePatches
<1>2. ASSUME NEW s \in Picked, Picker!OpenSession(s) PROVE Goal
  BY <1>2, <1>i DEF Picker!OpenSession
<1>3. ASSUME Picker!OpenNewChat PROVE Goal
  <2>1. None \in Picked \cup {None} /\ Picker!Leave(None) /\ UNCHANGED requests /\ status' = "idle"
    BY <1>3 DEF Picker!OpenNewChat
  <2>2. QED
    BY <2>1, <1>i
<1>4. ASSUME NEW s \in Picked, Picker!createSession(s) PROVE Goal
  BY <1>4, <1>i DEF Picker!createSession
<1>5. ASSUME Picker!connectSession PROVE Goal
  <2> DEFINE new == Picker!Request("connect", route, None)
  <2>1. new.kind = "connect" /\ new.step = "sent"
    BY DEF Picker!Request
  <2>2. requests' = {new} /\ status' = "connecting"
    BY <1>5, <1>g DEF Picker!connectSession
  <2> HIDE DEF new
  <2>3. QED
    BY <2>1, <2>2, <1>f DEF Goal, PageConnecting, PageDisplays, PagePatches, ArrivedRight
<1>6. ASSUME Picker!Connected PROVE Goal
  <2>1. /\ UNCHANGED <<meta, turn, stream, route, settings, display, requests, races>> /\ status = "loaded"
        /\ status' = "ready" /\ requests = {}
    BY <1>6, <1>g DEF Picker!Connected
  <2>2. PageDisplays
    BY <2>1, <1>1, <1>e
  <2>3. Picker!WillTry(route)' = Picker!WillTry(route) /\ Picker!Resolved(route)' = Picker!Resolved(route) /\ (Quiet' <=> Quiet)
        /\ Picker!Arrived' = {} /\ Picker!Arrived = {} /\ Picker!Patches' = {} /\ Picker!Patches = {}
    BY <2>1, <1>f DEF Picker!WillTry, Picker!Resolved, Quiet
  <2>4. PageDisplays'
    BY <2>1, <2>2, <2>3 DEF PageDisplays, ArrivedRight
  <2>5. QED
    BY <2>1, <2>3, <2>4 DEF Goal, PageConnecting, PagePatches
\* The picker forgets the model that is displayed, and no event is on its way.
<1>7. ASSUME NEW x \in Picker!Selections, Picker!applySelection(x) PROVE Goal
  <2> DEFINE new == Picker!Request("patch", route, x)
  <2>1. new.kind = "patch" /\ new.step = "sent"
    BY DEF Picker!Request
  <2>2. /\ requests' = requests \cup {new} /\ UNCHANGED <<stream, route, status>> /\ status = "ready"
        /\ display' = None /\ dedup' = None /\ ~saving
        /\ races'.raced = IF stream[route] # <<>> THEN races.raced \cup {route} ELSE races.raced
    BY <1>7 DEF Picker!applySelection, Picker!TypeOK
  <2> HIDE DEF new
  <2>3. \A r \in requests : r.kind = "get"
    BY <2>2, <1>a, <1>c DEF OrderOf
  <2>4. Picker!Patches' = {new}
    BY <2>1, <2>2, <2>3, <1>f
  <2>5. Quiet'
    BY <2>2, <1>1 DEF Quiet, Picker!Silent
  <2>6. QED
    BY <2>1, <2>2, <2>4, <2>5 DEF Goal, PageConnecting, PageDisplays, PagePatches
<1>8. ASSUME NEW x \in Picker!Selections, Picker!updateNewChatDraft(x) PROVE Goal
  BY <1>1, <1>8, <1>b DEF Picker!updateNewChatDraft, PageThere
\* What the daemon answered is right while the stream is silent.
<1>9. ASSUME NEW r \in requests, Picker!TakeAnswer(r) PROVE Goal
  <2>1. /\ requests' = requests \ {r} /\ UNCHANGED <<meta, turn, stream, route, dedup, races>> /\ settings' = r.answer
        /\ r \in Picker!Arrived
    BY <1>9, <1>f DEF Picker!TakeAnswer
  <2>2. route \in Picked /\ route \notin races.raced /\ meta[route] # None /\ EndsAsResolved(route)
    BY <2>1, <1>1, <1>d
  <2>3. /\ Picker!WillTry(route)' = Picker!WillTry(route) /\ Picker!Resolved(route)' = Picker!Resolved(route) /\ (Quiet' <=> Quiet)
        /\ ArrivedRight => ArrivedRight'
    BY <2>1, <1>f DEF Picker!WillTry, Picker!Resolved, Quiet, ArrivedRight
  <2>4. PageConnecting /\ PageDisplays /\ PagePatches
    BY <2>1, <1>1, <1>e
  <2>5. CASE r.kind = "connect"
    <3>1. status = "connecting" /\ requests' = {} /\ status' = "loaded" /\ display = None
          /\ display' = r.answer.modelRef
      BY <2>1, <2>5, <1>9, <1>a, <1>b DEF OrderOf, ConnectsOnce, Picker!TakeAnswer,
            DisplayFollows
    <3>2. ASSUME Quiet PROVE r.answer.modelRef = Picker!ModelRefOf(meta[route]) /\ turn[route].answered = None
      BY <2>1, <2>2, <2>4, <3>1, <3>2 DEF PageConnecting, ArrivedRight, EndsAsResolved,
            Quiet
    <3>3. PageDisplays'
      <4> SUFFICES ASSUME Quiet' PROVE PageDisplays'
        BY DEF PageDisplays
      <4>1. r.answer.modelRef = Picker!ModelRefOf(meta[route]) /\ turn[route].answered = None
        BY <2>3, <3>2
      <4>2. /\ display' # None => display' = Picker!WillTry(route)
            /\ display' = None => Picker!Resolved(route) = None
        BY <2>2, <3>1, <4>1, WillTryIs
      <4>3. ArrivedRight'
        BY <3>1, <1>f DEF ArrivedRight
      <4>4. QED
        BY <2>1, <2>3, <4>1, <4>2, <4>3 DEF PageDisplays
    <3>4. QED
      BY <3>1, <3>3, <1>f DEF Goal, PageConnecting, PagePatches
  <2>6. CASE r.kind = "patch"
    <3>1. r \in Picker!Patches /\ Picker!Patches' = {} /\ UNCHANGED <<status, display>> /\ status = "ready" /\ r.step = "answered"
      BY <2>1, <2>6, <1>9, <1>a, <1>f DEF OrderOf, PatchesOnce, Picker!TakeAnswer
    <3>2. display = None /\ Picker!Resolved(route) = None /\ ArrivedRight
      BY <2>4, <3>1 DEF PagePatches
    <3>3. PageDisplays'
      BY <2>1, <2>3, <3>1, <3>2 DEF PageDisplays, ArrivedRight
    <3>4. QED
      BY <3>1, <3>3 DEF Goal, PageConnecting, PagePatches
  <2>7. CASE r.kind = "get"
    <3>1. Picker!Patches' = Picker!Patches /\ UNCHANGED <<status, display>> /\ status = "ready"
      BY <2>1, <2>7, <1>9, <1>a, <1>f DEF OrderOf, Picker!TakeAnswer
    <3>2. PageDisplays'
      BY <2>1, <2>3, <2>4, <3>1 DEF PageDisplays, ArrivedRight
    <3>3. PagePatches'
      BY <2>1, <2>3, <2>4, <3>1 DEF PagePatches
    <3>4. QED
      BY <3>1, <3>2, <3>3 DEF Goal, PageConnecting
  <2>8. QED
    BY <2>5, <2>6, <2>7, <1>c
<1>10. ASSUME NEW r \in requests, Picker!FailPatch(r) PROVE Goal
  BY <1>10, <1>1 DEF Picker!FailPatch, Picker!TypeOK
\* The last model of the stream is the one that answered last; then it is displayed.
<1>11. ASSUME Picker!TakeEvent PROVE Goal
  <2> DEFINE new == Picker!Request("get", route, None)
             q == stream[route]
             e == Head(q)
  <2>1. new.kind = "get" /\ new.step = "sent"
    BY DEF Picker!Request
  <2>2. /\ UNCHANGED <<meta, turn, route, status, settings, races>> /\ status = "ready" /\ q # <<>>
        /\ stream' = [stream EXCEPT ![route] = Tail(q)]
        /\ \/ e = "end" /\ requests' = requests \cup {new} /\ UNCHANGED <<display, dedup>>
           \/ /\ e # "end" /\ requests' = requests
              /\ dedup' = (IF e = "start" THEN None ELSE e)
              /\ display' = IF e \in {"start", dedup} THEN display ELSE e
    BY <1>11 DEF Picker!TakeEvent
  <2>3. /\ route \in Picked /\ route \notin races.raced /\ meta[route] # None /\ EndsAsResolved(route)
        /\ q \in Seq(Picker!Models \cup Picker!Marks)
    BY <2>2, <1>1, <1>d
  <2> HIDE DEF new
  <2>4. Picker!Patches' = Picker!Patches /\ Picker!Arrived' = Picker!Arrived
    BY <2>1, <2>2, <1>f
  <2>5. stream'[route] = Tail(q)
    BY <2>2, <2>3 DEF Picker!TypeOK
  <2>6. e \in Picker!Models \cup Picker!Marks
    BY <2>2, <2>3
  <2> HIDE DEF q, e
  <2>7. Quiet' <=> Picker!Silent(Tail(q))
    BY <2>2, <2>5 DEF Quiet
  <2>8. Quiet <=> e \in Picker!Marks /\ Picker!Silent(Tail(q))
    <3>1. CASE Picker!Models # {}
      BY <2>2, <2>3, <3>1, StreamTaken DEF Quiet, q, e
    <3>2. CASE Picker!Models = {}
      <4>1. \A i \in DOMAIN q : q[i] \in Picker!Marks
        BY <2>3, <3>2
      <4>2. \A i \in DOMAIN Tail(q) : Tail(q)[i] \in Picker!Marks
        BY <2>2, <2>3, <3>2
      <4>3. QED
        BY <2>6, <3>2, <4>1, <4>2 DEF Quiet, Picker!Silent, q
    <3>3. QED
      BY <3>1, <3>2
  <2>9. /\ Picker!WillTry(route)' = Picker!WillTry(route) /\ Picker!Resolved(route)' = Picker!Resolved(route)
        /\ ArrivedRight' <=> ArrivedRight
    BY <2>2, <2>4 DEF Picker!WillTry, Picker!Resolved, ArrivedRight
  <2>10. PageConnecting /\ PageDisplays /\ PagePatches
    BY <2>3, <1>1, <1>e, <2>2
  <2>11. e \in Picker!Marks => display' = display /\ (dedup' = dedup \/ dedup' = None)
    BY <2>2 DEF Picker!Marks
  <2>12. PagePatches'
    BY <2>2, <2>4, <2>7, <2>8, <2>9, <2>10, <2>11 DEF PagePatches
  <2>13. PageDisplays'
    <3> SUFFICES ASSUME Picker!Patches' = {}, Quiet' PROVE PageDisplays'
      BY DEF PageDisplays
    <3>1. CASE e \in Picker!Marks
      BY <2>2, <2>4, <2>7, <2>8, <2>9, <2>10, <2>11, <3>1 DEF PageDisplays
    <3>2. CASE e \notin Picker!Marks
      <4>1. e \in Picker!Models /\ e # None
        BY <2>6, <3>2 DEF Picker!ModelPickerAssumption
      <4>2. Picker!Resolved(route) # None /\ Picker!EndsWith(q, Picker!Resolved(route)) /\ Picker!Resolved(route) \in Picker!Models
        <5>1. Picker!Resolved(route) # None /\ Picker!EndsWith(q, Picker!Resolved(route))
          BY <2>3, <2>8, <3>2 DEF EndsAsResolved, Quiet, q
        <5>2. QED
          BY <2>3, <5>1, SessionFields DEF Picker!Resolved
      <4>3. e = Picker!Resolved(route)
        BY <2>2, <2>3, <2>7, <4>2, StreamTaken DEF e
      <4>4. Picker!WillTry(route) = e
        BY <2>3, <4>2, <4>3, WillTryIs
      <4>5. display' = e
        BY <2>2, <3>2, <4>1, <1>a DEF Picker!Marks, DisplayFollows
      <4>6. QED
        BY <2>9, <4>1, <4>4, <4>5, <2>2 DEF PageDisplays
    <3>3. QED
      BY <3>1, <3>2
  <2>14. QED
    BY <2>2, <2>12, <2>13 DEF Goal, PageConnecting
<1>12. ASSUME NEW s \in Picked, Picker!BeginTurn(s) PROVE Goal
  <2>1. /\ UNCHANGED <<meta, requests, route, status, settings, display, dedup, races>>
        /\ turn[s] = Picker!NoTurn /\ turn'[s].answered = None /\ stream'[s] = Append(stream[s], "start")
        /\ \A t \in Picked \ {s} : turn'[t] = turn[t] /\ stream'[t] = stream[t]
    BY <1>12 DEF Picker!BeginTurn, Picker!Publish, Picker!TypeOK
  <2>2. turn'[route].answered = turn[route].answered
    BY <2>1, <1>1, <1>d DEF Picker!NoTurn
  <2>3. Quiet' <=> Quiet
    <3>1. route \in Picked /\ route' = route /\ stream[route] \in Seq(Picker!Models \cup Picker!Marks) /\ "start" \in Picker!Marks
      BY <2>1, <1>1, <1>d DEF Picker!Marks
    <3>2. CASE route = s
      <4>1. Picker!Silent(Append(stream[route], "start")) <=> Picker!Silent(stream[route])
        BY <3>1, StreamPut
      <4>2. QED
        BY <2>1, <3>1, <3>2, <4>1 DEF Quiet
    <3>3. CASE route # s
      BY <2>1, <3>1, <3>3 DEF Quiet
    <3>4. QED
      BY <3>2, <3>3
  <2>4. QED
    BY <2>1, <2>2, <2>3, <1>1, <1>h
<1>13. ASSUME NEW s \in Picked, Picker!EndTurn(s) PROVE Goal
  <2>1. /\ UNCHANGED <<meta, requests, route, status, settings, display, dedup, races>>
        /\ turn[s].answered = None /\ turn'[s] = Picker!NoTurn /\ stream'[s] = Append(stream[s], "end")
        /\ \A t \in Picked \ {s} : turn'[t] = turn[t] /\ stream'[t] = stream[t]
    BY <1>13 DEF Picker!EndTurn, Picker!Publish, Picker!TypeOK
  <2>2. turn'[route].answered = turn[route].answered
    BY <2>1, <1>1, <1>d DEF Picker!NoTurn
  <2>3. Quiet' <=> Quiet
    <3>1. route \in Picked /\ route' = route /\ stream[route] \in Seq(Picker!Models \cup Picker!Marks) /\ "end" \in Picker!Marks
      BY <2>1, <1>1, <1>d DEF Picker!Marks
    <3>2. CASE route = s
      <4>1. Picker!Silent(Append(stream[route], "end")) <=> Picker!Silent(stream[route])
        BY <3>1, StreamPut
      <4>2. QED
        BY <2>1, <3>1, <3>2, <4>1 DEF Quiet
    <3>3. CASE route # s
      BY <2>1, <3>1, <3>3 DEF Quiet
    <3>4. QED
      BY <3>2, <3>3
  <2>4. QED
    BY <2>1, <2>2, <2>3, <1>1, <1>h
\* An answer of the session on the screen is in its stream, and no change is under way.
<1>14. ASSUME NEW s \in Picked, NEW m \in Picker!Models, Picker!ModelAnswers(s, m) PROVE Goal
  <2>1. /\ UNCHANGED <<meta, requests, route, status, settings, display, dedup>>
        /\ stream'[s] = Append(stream[s], m)
        /\ \A t \in Picked \ {s} : turn'[t] = turn[t] /\ stream'[t] = stream[t]
    BY <1>14 DEF Picker!ModelAnswers, Picker!Publish, Picker!TypeOK
  <2>2. CASE route # s
    <3>1. route \notin races.raced
      BY <1>1, <1>14, <2>1, <2>2 DEF Picker!ModelAnswers, Picker!TypeOK
    <3>2. turn'[route].answered = turn[route].answered /\ (Quiet' <=> Quiet)
      BY <2>1, <2>2, <1>1, <1>d DEF Quiet
    <3>3. QED
      BY <2>1, <3>1, <3>2, <1>h
  <2>3. CASE route = s
    <3>1. ~\E r \in requests : r.id = s /\ r.kind = "patch"
      BY <1>1, <1>14, <2>1, <2>3 DEF Picker!ModelAnswers, Picker!TypeOK
    <3>2. Picker!Patches' = {}
      BY <2>1, <2>3, <3>1, <1>a, <1>f DEF OrderOf
    <3>3. m \notin Picker!Marks
      BY DEF Picker!ModelPickerAssumption, Picker!Marks
    <3>4. ~Quiet'
      <4>1. route \in Picked /\ route' = route /\ stream[route] \in Seq(Picker!Models \cup Picker!Marks)
        BY <2>1, <1>1, <1>d
      <4>2. ~Picker!Silent(Append(stream[route], m))
        BY <3>3, <4>1, StreamPut
      <4>3. QED
        BY <2>1, <2>3, <4>1, <4>2 DEF Quiet
    <3>5. QED
      BY <3>2, <3>4 DEF Goal, PageConnecting, PageDisplays, PagePatches
  <2>4. QED
    BY <2>2, <2>3
\* A model that is stored now has been displayed, or is still in the stream.
<1>15. ASSUME NEW s \in Picked, Picker!updateLastResolvedModel(s) PROVE Goal
  <2>1. /\ UNCHANGED <<stream, requests, route, status, settings, display, dedup>>
        /\ turn[s].answered # None /\ (route \notin races'.raced => route \notin races.raced)
        /\ \A t \in Picked \ {s} : turn'[t] = turn[t] /\ meta'[t] = meta[t]
    BY <1>15 DEF Picker!updateLastResolvedModel, Picker!TypeOK
  <2>2. Quiet' <=> Quiet
    BY <2>1 DEF Quiet
  <2>3. CASE route # s
    BY <2>1, <2>2, <2>3, <1>1, <1>d, <1>h
  <2>4. CASE route = s
    <3>1. meta[s] # None /\ meta[s] \in Picker!Metas /\ route \notin races.raced /\ EndsAsResolved(s)
      BY <2>1, <2>4, <1>1, <1>d, SessionFields
    <3>2. meta'[s].selection = meta[s].selection /\ meta'[s].resolved = turn[s].answered
      BY <1>15, <3>1 DEF Picker!updateLastResolvedModel, Picker!TypeOK, Picker!Metas
    <3>3. turn'[s].answered = None
      BY <1>15 DEF Picker!updateLastResolvedModel, Picker!TypeOK, Picker!Turns
    <3>4. Picker!Resolved(s)' = Picker!Resolved(s) /\ Picker!Resolved(s) # None /\ Picker!WillTry(s)' = Picker!WillTry(s)
      BY <2>1, <3>2, <3>3 DEF Picker!Resolved, Picker!WillTry
    <3>5. PageConnecting /\ PageDisplays /\ PagePatches
      BY <3>1, <2>1, <1>1, <1>e
    <3>6. status # "ready" => ~Quiet
      BY <2>1, <2>4, <3>1 DEF EndsAsResolved, Quiet
    <3>7. Picker!Patches' = Picker!Patches
      BY <2>1, <1>f
    <3>8. PageDisplays'
      BY <2>1, <2>2, <2>4, <3>4, <3>5, <3>7 DEF PageDisplays
    <3>9. PagePatches'
      BY <2>1, <2>2, <2>4, <3>4, <3>5, <3>7 DEF PagePatches
    <3>10. QED
      BY <2>1, <2>2, <3>6, <3>8, <3>9 DEF Goal, PageConnecting
  <2>5. QED
    BY <2>3, <2>4
\* The daemon forgets the model that answered; nothing that was read before is under way.
<1>16. ASSUME NEW r \in requests, Picker!updateModelSelection(r) PROVE Goal
  <2> DEFINE new == [r EXCEPT !.step = "patched"]
  <2>1. new.kind = "patch" /\ new.step = "patched" /\ r.kind = "patch"
    BY <1>16, RequestFields DEF Picker!Requests, Picker!updateModelSelection
  <2>2. /\ requests' = (requests \ {r}) \cup {new} /\ UNCHANGED <<turn, stream, route, status, settings, display, dedup>>
        /\ \A q \in requests \ {r} : q.step = "sent"
        /\ meta' = [meta EXCEPT ![r.id] = [selection |-> r.selection, resolved |-> None]]
        /\ races'.raced = IF turn[r.id] # Picker!NoTurn THEN races.raced \cup {r.id} ELSE races.raced
    BY <1>16, <1>1 DEF Picker!updateModelSelection, Picker!TypeOK
  <2> HIDE DEF new
  <2>3. r \in Picker!Patches /\ r.id = route /\ status = "ready" /\ route \in Picked
    BY <2>1, <2>2, <1>1, <1>a, <1>d, <1>f DEF OrderOf
  <2>4. Picker!Patches' = {new} /\ Picker!Arrived' = {}
    BY <2>1, <2>2, <2>3, <1>a, <1>f DEF PatchesOnce
  <2>5. turn[route] = Picker!NoTurn /\ route \notin races.raced
    BY <2>2, <2>3, <1>1
  <2>6. Picker!Resolved(route)' = None
    BY <2>2, <2>3, <2>5 DEF Picker!Resolved, Picker!NoTurn, Picker!TypeOK
  <2>7. display = None /\ dedup = None /\ Quiet
    BY <2>2, <2>3, <2>5, <1>1, <1>e DEF PagePatches
  <2>8. PagePatches'
    BY <2>2, <2>4, <2>6, <2>7 DEF PagePatches, ArrivedRight, Quiet
  <2>9. QED
    BY <2>2, <2>3, <2>4, <2>8 DEF Goal, PageConnecting, PageDisplays
<1>17. ASSUME NEW r \in requests, Picker!getSettings(r) PROVE Goal
  <2> DEFINE a == [id |-> r.id, selection |-> meta[r.id].selection, modelRef |-> Picker!ModelRefOf(meta[r.id])]
             new == [r EXCEPT !.step = "answered", !.answer = a]
  <2>1. new.kind = r.kind /\ new.step = "answered" /\ new.answer = a /\ a.modelRef = Picker!ModelRefOf(meta[r.id])
    BY RequestFields DEF Picker!Requests
  <2>2. /\ requests' = (requests \ {r}) \cup {new}
        /\ UNCHANGED <<meta, turn, stream, route, status, settings, display, dedup, races>>
        /\ r.kind = "patch" => r.step = "patched"
    BY <1>17 DEF Picker!getSettings
  <2> HIDE DEF new, a
  <2>3. r.id = route
    BY <1>a DEF OrderOf
  <2>4. ArrivedRight => ArrivedRight'
    BY <2>1, <2>2, <2>3, <1>f DEF ArrivedRight
  <2>5. /\ Picker!WillTry(route)' = Picker!WillTry(route) /\ Picker!Resolved(route)' = Picker!Resolved(route) /\ (Quiet' <=> Quiet)
    BY <2>2 DEF Picker!WillTry, Picker!Resolved, Quiet
  <2>6. PageConnecting /\ PageDisplays /\ PagePatches
    BY <2>2, <1>1, <1>e
  <2>7. PageConnecting'
    BY <2>2, <2>4, <2>5, <2>6 DEF PageConnecting
  <2>8. Picker!Patches' = {} => Picker!Patches = {}
    BY <2>1, <2>2, <1>f
  <2>9. PageDisplays'
    BY <2>2, <2>4, <2>5, <2>6, <2>8 DEF PageDisplays
  <2>10. \A p \in Picker!Patches' : \E q \in Picker!Patches : p.step # "sent" => q.step # "sent"
    BY <2>1, <2>2, <1>f
  <2>11. PagePatches'
    BY <2>2, <2>4, <2>5, <2>6, <2>10 DEF PagePatches
  <2>12. QED
    BY <2>7, <2>9, <2>11 DEF Goal
<1>18. ASSUME UNCHANGED Picker!vars PROVE Goal
  <2>1. UNCHANGED <<requests, route, status, settings, display, dedup, races>> /\ meta' = meta /\ turn' = turn /\ stream' = stream
    BY <1>18 DEF Picker!vars
  <2>2. Quiet' <=> Quiet
    BY <2>1 DEF Quiet
  <2>3. QED
    BY <2>1, <2>2, <1>1, <1>h
<1>19. QED
  BY <1>2, <1>3, <1>4, <1>5, <1>6, <1>7, <1>8, <1>9, <1>10, <1>11, <1>12, <1>13, <1>14,
        <1>15, <1>16, <1>17, <1>18
  DEF Picker!Next, Goal

\* At rest all of the stream has been displayed, so the picker tells what the daemon will do.
LEMMA PickerTellsIs ==
  ASSUME Picker!ModelPickerAssumption, Picker!TypeOK, Picker!SessionsThere,
         Picker!RequestsInOrder, Picker!StreamsEndResolved, Picker!PageFollows
  PROVE  Picker!PickerTells
<1> SUFFICES ASSUME Picker!AtRest, ~races.crossed, route \notin races.raced
             PROVE  settings.selection = meta[route].selection /\ Picker!Displayed = Picker!FirstTried(route)
  BY DEF Picker!PickerTells
<1>1. /\ status = "ready" /\ requests = {} /\ stream[route] = <<>> /\ turn[route] = Picker!NoTurn /\ settings # None
      /\ route # None /\ route \in Picked /\ meta[route] # None /\ EndsAsResolved(route)
  BY StreamsSplit DEF Picker!AtRest, Picker!SessionsThere, Picker!TypeOK
<1>2. settings.selection = meta[route].selection
  BY <1>1, OrderSplit DEF SelectionFollows, Picker!Patches
<1> DEFINE x == Picker!Effective(meta[route].selection)
<1>3. x \in Picker!Selections /\ meta[route].selection \in Picker!Selections \cup {None}
      /\ (meta[route].selection # None => x = meta[route].selection)
  BY <1>1, SessionFields, EffectiveIs
<1>4. Picker!Resolved(route) = meta[route].resolved /\ Picker!WillTry(route) = Picker!FirstTried(route)
  BY <1>1 DEF Picker!Resolved, Picker!NoTurn, Picker!WillTry, Picker!FirstTried
<1>5. IF display # None THEN display = Picker!WillTry(route)
      ELSE Picker!Resolved(route) = None /\ settings.modelRef = Picker!ModelRefOf(meta[route])
  BY <1>1, PageSplit DEF PageDisplays, Picker!Patches, Quiet, Picker!Silent
<1>6. CASE display # None
  BY <1>2, <1>4, <1>5, <1>6 DEF Picker!Displayed, Picker!resolveDisplayModelRef
<1>7. CASE display = None
  <2>1. Picker!FirstTried(route) = Picker!Candidates(x)[1]
    BY <1>1, <1>4, <1>5, <1>7, WillTryIs
  <2>2. x \in Picker!Tiers => settings.modelRef = None
    <3>1. x \in Picker!Tiers => meta[route].selection \notin Explicit
      BY <1>3 DEF Picker!ModelPickerAssumption, Picker!Selections
    <3>2. QED
      BY <1>4, <1>5, <1>7, <3>1 DEF Picker!ModelRefOf
  <2>3. x \in Picker!Tiers => None \notin Picker!Elements(Pools[x])
    BY <1>3, CandidatesAre
  <2>4. Picker!Displayed = Picker!resolveDisplayModelRef(x, None, settings.modelRef)
    BY <1>2, <1>7 DEF Picker!Displayed
  <2> HIDE DEF x
  <2>5. QED
    BY <1>2, <2>1, <2>2, <2>3, <2>4 DEF Picker!resolveDisplayModelRef,
          Picker!resolveOptimisticModelRef
<1>8. QED
  BY <1>2, <1>6, <1>7

\* PickerTellsIs in the next state
LEMMA PickerTellsNext ==
  ASSUME Picker!ModelPickerAssumption, Picker!TypeOK', Picker!SessionsThere',
         Picker!RequestsInOrder', Picker!StreamsEndResolved', Picker!PageFollows'
  PROVE  Picker!PickerTells'
BY PickerTellsIs, PTL

\* ModelPickerInv is inductive.
LEMMA ModelPickerStep ==
  ASSUME Picker!ModelPickerAssumption, Picker!ModelPickerInv, [Picker!Next]_Picker!vars
  PROVE  Picker!ModelPickerInv'
BY PickerTypeStep, SessionsThereStep, RequestsInOrderStep, StreamsEndResolvedStep,
      PageFollowsStep, PickerTellsNext
DEF Picker!ModelPickerInv

\* No page and no turn
LEMMA ModelPickerStart ==
  ASSUME Picker!ModelPickerAssumption, Picker!Init
  PROVE  Picker!ModelPickerInv
<1> USE DEF Picker!Init
<1>1. Picker!TypeOK
  <2>1. meta \in [Picked -> Picker!Metas \cup {None}]
    BY DEF Picker!Metas
  <2>2. Picker!NoTurn \in Picker!Turns /\ <<>> \in Seq(Picker!Models \cup Picker!Marks) /\ Picker!IsFiniteSet({})
    BY PickerCount, FS_EmptySet DEF Picker!NoTurn, Picker!Turns
  <2>3. QED
    BY <2>1, <2>2 DEF Picker!TypeOK
<1>2. Picker!SessionsThere
  BY DEF Picker!SessionsThere, Picker!NoTurn
<1>3. Picker!RequestsInOrder
  BY DEF Picker!RequestsInOrder
<1>4. Picker!StreamsEndResolved
  <2> SUFFICES ASSUME NEW s \in Picked, meta[s] # None
               PROVE  turn[s] = Picker!NoTurn /\ Picker!Resolved(s) = None /\ Picker!Silent(stream[s]) /\ turn[s].answered = None
    BY DEF Picker!StreamsEndResolved
  <2>1. QED
    BY DEF Picker!Resolved, Picker!NoTurn, Picker!Silent
<1>5. Picker!PageFollows
  BY DEF Picker!PageFollows
<1>6. QED
  BY <1>1, <1>2, <1>3, <1>4, <1>5, PickerTellsIs DEF Picker!ModelPickerInv

-----------------------------------------------------------------------------
(* What the page shows of LLM calls                                        *)

\* The panel displays the last captured exchange that the daemon told it of, and the picker
\* the model that the next turn tries first (llm-inspect-store.ts, use-llm-inspect.ts,
\* chat-service.ts, use-chat-session.ts), for any sessions, captures, restarts, turns and
\* changes of the selection; the exceptions are the races that missed and races record.
THEOREM CallsAreShown == FilesSpec => []ShownOfCalls
<1>1. FilesInit => ShownOfCalls
  BY LlmInspectStart, ModelPickerStart, FilesAssumption DEF FilesInit, ShownOfCalls
<1>2. ShownOfCalls /\ [FilesNext]_<<part, registryVars, titleVars, inspectVars, pickerVars>>
        => ShownOfCalls'
  <2>1. SUFFICES ASSUME ShownOfCalls,
                        [FilesNext]_<<part, registryVars, titleVars, inspectVars, pickerVars>>
                 PROVE  ShownOfCalls'
    OBVIOUS
  <2>2. [Inspect!Next]_Inspect!vars
    BY <2>1 DEF FilesNext, inspectVars, Inspect!vars
  <2>3. [Picker!Next]_Picker!vars
    BY <2>1 DEF FilesNext, pickerVars, Picker!vars
  <2> QED
    BY <2>1, <2>2, <2>3, LlmInspectStep, ModelPickerStep, FilesAssumption DEF ShownOfCalls
<1> QED
  BY <1>1, <1>2, PTL DEF FilesSpec
=============================================================================
