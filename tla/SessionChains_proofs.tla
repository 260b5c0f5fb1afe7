------------------------ MODULE SessionChains_proofs ------------------------
(***************************************************************************)
(* Proofs about the promise chain, for any sets of jobs and sessions: the  *)
(* inductive invariant ChainInv, mutual exclusion of the jobs of one       *)
(* session, and the refinement of SerialExecutor.                          *)
(***************************************************************************)
EXTENDS SessionChains, TLAPS

USE NoneAssumption

\* ChainInv holds initially.
LEMMA InitChainInv == ChainInit => ChainInv
BY DEF ChainInit, ChainInv, ChainTypeOK, HistoryOK, SettledBefore, LinksOK,
       TailIsLast, NoEntryMeansIdle, PromiseState

-----------------------------------------------------------------------------
(* A new job goes to the end of its session's history and becomes the tail. *)

\* A job that is being scheduled is in no history yet.
LEMMA ScheduledIsNew ==
    ASSUME ChainTypeOK, HistoryOK, NEW j \in Jobs, NEW s \in Sessions, Schedule(j, s)
    PROVE  \A t \in Sessions : \A i \in 1..Len(accepted[t]) :
                accepted[t][i] # j /\ accepted[t][i] \in Jobs
<1> SUFFICES ASSUME NEW t \in Sessions, NEW i \in 1..Len(accepted[t])
             PROVE  accepted[t][i] # j /\ accepted[t][i] \in Jobs
  OBVIOUS
<1>1. promise[accepted[t][i]] # "none"
  BY DEF HistoryOK
<1>2. promise[j] = "none"
  BY DEF Schedule
<1>3. accepted[t] \in Seq(Jobs)
  BY DEF ChainTypeOK
<1>4. QED
  BY <1>1, <1>2, <1>3

\* Scheduling appends a job that was not there to one history.
LEMMA ScheduleHistory ==
    ASSUME ChainTypeOK, HistoryOK, NEW j \in Jobs, NEW s \in Sessions, Schedule(j, s)
    PROVE  /\ ChainTypeOK'
           /\ HistoryOK'
<1>1. ChainTypeOK'
  BY DEF ChainTypeOK, Schedule, PromiseState
<1> DEFINE n == Len(accepted[s])
<1>2. /\ accepted[s] \in Seq(Jobs)
      /\ n \in Nat
      /\ accepted'[s] = Append(accepted[s], j)
      /\ Len(accepted'[s]) = n + 1
      /\ accepted'[s][n + 1] = j
      /\ \A i \in 1..n : accepted'[s][i] = accepted[s][i]
      /\ \A t \in Sessions : t # s => accepted'[t] = accepted[t]
      /\ \A t \in Sessions : accepted[t] \in Seq(Jobs) /\ Len(accepted[t]) \in Nat
  BY DEF ChainTypeOK, Schedule
<1>3. \A t \in Sessions : \A i \in 1..Len(accepted[t]) : accepted[t][i] # j /\ accepted[t][i] \in Jobs
  BY ScheduledIsNew
<1>4. ASSUME NEW t \in Sessions, NEW i \in 1..Len(accepted'[t])
      PROVE  promise'[accepted'[t][i]] # "none" /\ owner'[accepted'[t][i]] = t
  <2>1. CASE t = s /\ i = n + 1
    BY <1>2, <2>1 DEF Schedule, ChainTypeOK
  <2>2. CASE ~(t = s /\ i = n + 1)
    <3>1. i \in 1..Len(accepted[t]) /\ accepted'[t][i] = accepted[t][i]
      BY <1>2, <2>2
    <3>2. QED
      BY <1>3, <3>1 DEF Schedule, ChainTypeOK, HistoryOK
  <2>3. QED
    BY <2>1, <2>2
<1>5. ASSUME NEW t \in Sessions, NEW i \in 1..Len(accepted'[t]), NEW k \in 1..Len(accepted'[t]),
             accepted'[t][i] = accepted'[t][k]
      PROVE  i = k
  <2>1. CASE t # s
    BY <1>2, <1>5, <2>1 DEF HistoryOK
  <2>2. CASE t = s
    <3>1. \A m \in 1..n : accepted'[s][m] # j /\ accepted'[s][m] = accepted[s][m]
      BY <1>2, <1>3
    <3>2. i \in 1..(n + 1) /\ k \in 1..(n + 1)
      BY <1>2, <1>5, <2>2
    <3>3. CASE i = n + 1 \/ k = n + 1
      <4>1. accepted'[s][i] = accepted'[s][k]
        BY <1>5, <2>2
      <4>2. i \notin 1..n /\ k \notin 1..n
        BY <1>2, <3>1, <3>3, <4>1
      <4>3. QED
        BY <1>2, <3>2, <4>2
    <3>4. CASE i \in 1..n /\ k \in 1..n
      BY <1>5, <2>2, <3>1, <3>4 DEF HistoryOK
    <3>5. QED
      BY <1>2, <3>2, <3>3, <3>4
  <2>3. QED
    BY <2>1, <2>2
<1>6. ASSUME NEW k \in Jobs, promise'[k] # "none"
      PROVE  /\ owner'[k] \in Sessions
             /\ \E i \in 1..Len(accepted'[owner'[k]]) : accepted'[owner'[k]][i] = k
  <2>1. CASE k = j
    BY <1>2, <2>1 DEF Schedule, ChainTypeOK
  <2>2. CASE k # j
    <3>1. promise[k] # "none" /\ owner'[k] = owner[k]
      BY <1>6, <2>2 DEF Schedule, ChainTypeOK
    <3>2. PICK i \in 1..Len(accepted[owner[k]]) : accepted[owner[k]][i] = k
      BY <3>1 DEF HistoryOK
    <3>3. owner[k] \in Sessions
      BY <3>1 DEF HistoryOK
    <3>4. i \in 1..Len(accepted'[owner[k]]) /\ accepted'[owner[k]][i] = k
      <4>1. CASE owner[k] = s
        BY <1>2, <3>2, <4>1
      <4>2. CASE owner[k] # s
        BY <1>2, <3>2, <3>3, <4>2
      <4>3. QED
        BY <4>1, <4>2
    <3>5. QED
      BY <3>1, <3>3, <3>4
  <2>3. QED
    BY <2>1, <2>2
<1>7. ASSUME NEW k \in Jobs, promise'[k] = "none"
      PROVE  owner'[k] = None
  BY <1>7 DEF Schedule, ChainTypeOK, HistoryOK
<1>8. QED
  BY <1>1, <1>4, <1>5, <1>6, <1>7 DEF HistoryOK

\* Scheduling keeps the invariant: the new job waits for the old tail.
LEMMA ScheduleInv ==
    ASSUME ChainInv, NEW j \in Jobs, NEW s \in Sessions, Schedule(j, s)
    PROVE  ChainInv'
<1> USE DEF ChainInv
<1>1. ChainTypeOK' /\ HistoryOK'
  BY ScheduleHistory
<1> DEFINE n == Len(accepted[s])
<1>2. /\ accepted[s] \in Seq(Jobs)
      /\ n \in Nat
      /\ accepted'[s] = Append(accepted[s], j)
      /\ Len(accepted'[s]) = n + 1
      /\ accepted'[s][n + 1] = j
      /\ \A i \in 1..n : accepted'[s][i] = accepted[s][i]
      /\ \A t \in Sessions : t # s => accepted'[t] = accepted[t]
      /\ \A t \in Sessions : accepted[t] \in Seq(Jobs) /\ Len(accepted[t]) \in Nat
  BY DEF ChainTypeOK, Schedule
<1>3. \A t \in Sessions : \A i \in 1..Len(accepted[t]) : accepted[t][i] # j /\ accepted[t][i] \in Jobs
  BY ScheduledIsNew
<1>4. \A k \in Jobs : k # j => promise'[k] = promise[k] /\ previous'[k] = previous[k] /\ owner'[k] = owner[k]
  BY DEF Schedule, ChainTypeOK
<1>5. promise'[j] = "waiting" /\ previous'[j] = sessionChains[s] /\ owner'[j] = s
  BY DEF Schedule, ChainTypeOK
\* The position of an entry of the new history that is not the new job.
<1>6. ASSUME NEW t \in Sessions, NEW i \in 1..Len(accepted'[t]), ~(t = s /\ i = n + 1)
      PROVE  /\ i \in 1..Len(accepted[t])
             /\ accepted'[t][i] = accepted[t][i]
             /\ accepted[t][i] \in Jobs \ {j}
  BY <1>2, <1>3, <1>6
<1>7. SettledBefore'
  <2>1. SUFFICES ASSUME NEW t \in Sessions, NEW i \in 1..Len(accepted'[t]), NEW k \in 1..Len(accepted'[t]),
                        i < k, HasStarted(accepted[t][k])'
                 PROVE  HasSettled(accepted[t][i])'
    BY DEF SettledBefore
  <2>2. ~(t = s /\ k = n + 1)
    BY <1>2, <1>5, <2>1 DEF HasStarted, HasSettled
  <2>3. ~(t = s /\ i = n + 1)
    BY <1>2, <2>1, <2>2
  <2>4. HasStarted(accepted[t][k])
    BY <1>4, <1>6, <2>1, <2>2 DEF HasStarted, HasSettled
  <2>5. HasSettled(accepted[t][i])
    BY <1>6, <2>1, <2>2, <2>3, <2>4 DEF SettledBefore
  <2>6. QED
    BY <1>4, <1>6, <2>3, <2>5 DEF HasSettled
<1>8. LinksOK'
  <2>1. SUFFICES ASSUME NEW t \in Sessions, NEW k \in 1..Len(accepted'[t]),
                        promise'[accepted'[t][k]] = "waiting"
                 PROVE  \/ k > 1 /\ previous'[accepted'[t][k]] = accepted'[t][k - 1]
                        \/ /\ previous'[accepted'[t][k]] = None
                           /\ \A i \in 1..(k - 1) : HasSettled(accepted[t][i])'
    BY DEF LinksOK
  <2>2. CASE t = s /\ k = n + 1
    <3>1. previous'[accepted'[t][k]] = sessionChains[s]
      BY <1>2, <1>5, <2>2
    <3>2. CASE sessionChains[s] = None
      <4>1. ASSUME NEW i \in 1..(k - 1)
            PROVE  HasSettled(accepted[t][i])'
        <5>1. i \in 1..n /\ accepted'[s][i] = accepted[s][i] /\ accepted[s][i] \in Jobs \ {j}
          BY <1>2, <1>3, <2>2
        <5>2. owner[accepted[s][i]] = s
          BY <5>1 DEF HistoryOK
        <5>3. HasSettled(accepted[s][i])
          BY <3>2, <5>1, <5>2 DEF NoEntryMeansIdle
        <5>4. QED
          BY <1>4, <2>2, <5>1, <5>3 DEF HasSettled
      <4>2. QED
        BY <3>1, <3>2, <4>1
    <3>3. CASE sessionChains[s] # None
      <4>1. accepted[s] # <<>> /\ sessionChains[s] = accepted[s][n]
        BY <3>3 DEF TailIsLast
      <4>2. n > 0
        BY <1>2, <4>1
      <4>3. QED
        BY <1>2, <2>2, <3>1, <4>1, <4>2
    <3>4. QED
      BY <3>2, <3>3
  <2>3. CASE ~(t = s /\ k = n + 1)
    <3>1. /\ k \in 1..Len(accepted[t])
          /\ accepted'[t][k] = accepted[t][k]
          /\ promise[accepted[t][k]] = "waiting"
          /\ previous'[accepted'[t][k]] = previous[accepted[t][k]]
      BY <1>4, <1>6, <2>1, <2>3
    <3>2. \A i \in 1..(k - 1) : /\ accepted'[t][i] = accepted[t][i]
                                /\ accepted[t][i] \in Jobs \ {j}
      <4>1. TAKE i \in 1..(k - 1)
      <4>2. i \in 1..Len(accepted[t])
        BY <1>2, <3>1
      <4>3. accepted'[t][i] = accepted[t][i]
        BY <1>2, <4>2
      <4>4. QED
        BY <1>3, <4>2, <4>3
    <3>3. k > 1 => accepted'[t][k - 1] = accepted[t][k - 1]
      BY <1>2, <3>1, <3>2
    <3>4. \/ k > 1 /\ previous[accepted[t][k]] = accepted[t][k - 1]
          \/ /\ previous[accepted[t][k]] = None
             /\ \A i \in 1..(k - 1) : HasSettled(accepted[t][i])
      BY <3>1 DEF LinksOK
    <3>5. QED
      BY <1>4, <3>1, <3>2, <3>3, <3>4 DEF HasSettled
  <2>4. QED
    BY <2>2, <2>3
<1>9. sessionChains' = [sessionChains EXCEPT ![s] = j]
  BY DEF Schedule
<1>10. TailIsLast'
  <2>1. ASSUME NEW t \in Sessions, sessionChains'[t] # None
        PROVE  accepted'[t] # <<>> /\ sessionChains'[t] = accepted'[t][Len(accepted'[t])]
    <3>1. CASE t = s
      BY <1>2, <1>9, <3>1 DEF ChainTypeOK
    <3>2. CASE t # s
      BY <1>2, <1>9, <2>1, <3>2 DEF ChainTypeOK, TailIsLast
    <3>3. QED
      BY <3>1, <3>2
  <2>2. QED
    BY <2>1 DEF TailIsLast
<1>11. NoEntryMeansIdle'
  BY <1>4, <1>5, <1>9 DEF NoEntryMeansIdle, ChainTypeOK, HasSettled
<1>12. QED
  BY <1>1, <1>7, <1>8, <1>10, <1>11

-----------------------------------------------------------------------------
(* The other steps change one promise and leave the history alone.         *)

\* A job starts only when every earlier job of its session has settled.
LEMMA RunInv ==
    ASSUME ChainInv, NEW j \in Jobs, Run(j)
    PROVE  ChainInv'
<1> USE DEF ChainInv
<1>1. \A k \in Jobs : k # j => promise'[k] = promise[k]
  BY DEF Run, ChainTypeOK
<1>2. promise[j] = "waiting" /\ promise'[j] = "running" /\ promise' \in [Jobs -> PromiseState]
  BY DEF Run, ChainTypeOK, PromiseState
<1>3. UNCHANGED <<sessionChains, previous, owner, accepted>>
  BY DEF Run
<1>4. \A t \in Sessions : /\ Len(accepted[t]) \in Nat
                          /\ \A i \in 1..Len(accepted[t]) : accepted[t][i] \in Jobs
  BY DEF ChainTypeOK
<1>5. \A k \in Jobs : /\ HasSettled(k) <=> HasSettled(k)'
                      /\ promise'[k] = "waiting" => promise[k] = "waiting"
                      /\ promise'[k] # "none" <=> promise[k] # "none"
  BY <1>1, <1>2 DEF HasSettled
<1>6. ChainTypeOK'
  BY <1>2, <1>3 DEF ChainTypeOK
<1>7. HistoryOK'
  BY <1>3, <1>4, <1>5 DEF HistoryOK
<1>8. SettledBefore'
  <2>1. SUFFICES ASSUME NEW t \in Sessions, NEW i \in 1..Len(accepted[t]), NEW k \in 1..Len(accepted[t]),
                        i < k, HasStarted(accepted[t][k])'
                 PROVE  HasSettled(accepted[t][i])
    BY <1>3, <1>4, <1>5 DEF SettledBefore
  <2>2. CASE accepted[t][k] # j
    <3>1. HasStarted(accepted[t][k])
      BY <1>1, <1>3, <1>4, <2>1, <2>2 DEF HasStarted, HasSettled
    <3>2. QED
      BY <2>1, <3>1 DEF SettledBefore
  <2>3. CASE accepted[t][k] = j
    \* j starts because the promise it was chained after has settled.
    <3>1. \/ k > 1 /\ previous[j] = accepted[t][k - 1]
          \/ /\ previous[j] = None
             /\ \A m \in 1..(k - 1) : HasSettled(accepted[t][m])
      BY <1>2, <2>3 DEF LinksOK
    <3>2. CASE \A m \in 1..(k - 1) : HasSettled(accepted[t][m])
      BY <1>4, <2>1, <3>2
    <3>3. CASE k > 1 /\ previous[j] = accepted[t][k - 1]
      <4>1. k - 1 \in 1..Len(accepted[t]) /\ accepted[t][k - 1] \in Jobs
        BY <1>4, <3>3
      <4>2. HasSettled(accepted[t][k - 1])
        BY <3>3, <4>1 DEF Run
      <4>3. CASE i = k - 1
        BY <4>2, <4>3
      <4>4. CASE i < k - 1
        BY <4>1, <4>2, <4>4 DEF SettledBefore, HasStarted
      <4>5. QED
        BY <1>4, <2>1, <4>3, <4>4
    <3>4. QED
      BY <3>1, <3>2, <3>3
  <2>4. QED
    BY <2>2, <2>3
<1>9. LinksOK'
  <2>1. SUFFICES ASSUME NEW t \in Sessions, NEW k \in 1..Len(accepted[t]),
                        promise'[accepted[t][k]] = "waiting"
                 PROVE  \/ k > 1 /\ previous[accepted[t][k]] = accepted[t][k - 1]
                        \/ /\ previous[accepted[t][k]] = None
                           /\ \A i \in 1..(k - 1) : HasSettled(accepted[t][i])'
    BY <1>3 DEF LinksOK
  <2>2. promise[accepted[t][k]] = "waiting"
    BY <1>4, <1>5, <2>1
  <2>3. \A i \in 1..(k - 1) : accepted[t][i] \in Jobs
    BY <1>4
  <2>4. \A i \in 1..(k - 1) : HasSettled(accepted[t][i]) => HasSettled(accepted[t][i])'
    BY <1>3, <1>5, <2>3 DEF HasSettled
  <2>5. QED
    BY <2>2, <2>4 DEF LinksOK
<1>10. TailIsLast'
  BY <1>3 DEF TailIsLast
<1>11. NoEntryMeansIdle'
  BY <1>3, <1>5 DEF NoEntryMeansIdle
<1>12. QED
  BY <1>6, <1>7, <1>8, <1>9, <1>10, <1>11

\* What Settle and Forget have in common: a job that has started becomes, or
\* stays, settled, and nothing else about the promises or the history changes.
LEMMA SettledInv ==
    ASSUME ChainTypeOK, HistoryOK, SettledBefore, LinksOK,
           NEW j \in Jobs,
           HasStarted(j),
           promise' = [promise EXCEPT ![j] = "settled"] \/ promise' = [promise EXCEPT ![j] = "forgotten"],
           sessionChains' \in [Sessions -> Jobs \cup {None}],
           UNCHANGED <<previous, owner, accepted>>
    PROVE  /\ ChainTypeOK' /\ HistoryOK' /\ SettledBefore' /\ LinksOK'
           /\ \A k \in Jobs : HasSettled(k) => HasSettled(k)'
<1>1. \A k \in Jobs : k # j => promise'[k] = promise[k]
  BY DEF ChainTypeOK
<1>2. promise'[j] \in {"settled", "forgotten"} /\ promise' \in [Jobs -> PromiseState]
  BY DEF ChainTypeOK, PromiseState
<1>3. \A t \in Sessions : /\ Len(accepted[t]) \in Nat
                          /\ \A i \in 1..Len(accepted[t]) : accepted[t][i] \in Jobs
  BY DEF ChainTypeOK
<1>4. \A k \in Jobs : /\ HasSettled(k) => HasSettled(k)'
                      /\ HasStarted(k)' => HasStarted(k)
                      /\ promise'[k] = "waiting" => promise[k] = "waiting"
                      /\ promise'[k] # "none" <=> promise[k] # "none"
  BY <1>1, <1>2 DEF HasSettled, HasStarted
<1>5. ChainTypeOK'
  BY <1>2 DEF ChainTypeOK
<1>6. HistoryOK'
  BY <1>3, <1>4 DEF HistoryOK
<1>7. SettledBefore'
  BY <1>3, <1>4 DEF SettledBefore
<1>8. LinksOK'
  <2>1. SUFFICES ASSUME NEW t \in Sessions, NEW k \in 1..Len(accepted[t]),
                        promise'[accepted[t][k]] = "waiting"
                 PROVE  \/ k > 1 /\ previous[accepted[t][k]] = accepted[t][k - 1]
                        \/ /\ previous[accepted[t][k]] = None
                           /\ \A i \in 1..(k - 1) : HasSettled(accepted[t][i])'
    BY DEF LinksOK
  <2>2. promise[accepted[t][k]] = "waiting"
    BY <1>3, <1>4, <2>1
  <2>3. \A i \in 1..(k - 1) : accepted[t][i] \in Jobs
    BY <1>3
  <2>4. QED
    BY <1>4, <2>2, <2>3 DEF LinksOK
<1>9. QED
  BY <1>4, <1>5, <1>6, <1>7, <1>8

\* Settling changes one promise, from running to settled.
LEMMA SettleInv ==
    ASSUME ChainInv, NEW j \in Jobs, Settle(j)
    PROVE  ChainInv'
<1>1. /\ ChainTypeOK' /\ HistoryOK' /\ SettledBefore' /\ LinksOK'
      /\ \A k \in Jobs : HasSettled(k) => HasSettled(k)'
  BY SettledInv DEF ChainInv, Settle, HasStarted, ChainTypeOK
<1>2. UNCHANGED <<sessionChains, owner, accepted>>
  BY DEF Settle
<1>3. TailIsLast' /\ NoEntryMeansIdle'
  BY <1>1, <1>2 DEF ChainInv, TailIsLast, NoEntryMeansIdle
<1>4. QED
  BY <1>1, <1>3 DEF ChainInv

\* Dropping the tail entry is right because the tail is the last job of the
\* session and every job before a settled one has settled.
LEMMA DropEntryInv ==
    ASSUME ChainInv, NEW j \in Jobs, HasStarted(j), DropEntry(j)
    PROVE  ChainInv'
<1> USE DEF ChainInv
<1>1. /\ ChainTypeOK' /\ HistoryOK' /\ SettledBefore' /\ LinksOK'
      /\ \A k \in Jobs : HasSettled(k) => HasSettled(k)'
  BY SettledInv DEF DropEntry, ChainTypeOK
<1>2. UNCHANGED <<owner, accepted>>
  BY DEF DropEntry
<1>3. /\ \A s \in Sessions : sessionChains'[s] = sessionChains[s] \/ sessionChains'[s] = None
      /\ \A s \in Sessions : sessionChains'[s] # sessionChains[s] => sessionChains[s] = j
  BY DEF DropEntry, ChainTypeOK
<1>4. TailIsLast'
  BY <1>2, <1>3 DEF TailIsLast
<1>5. ASSUME NEW s \in Sessions, sessionChains'[s] = None, NEW k \in Jobs, owner[k] = s
      PROVE  HasSettled(k)'
  <2>1. CASE sessionChains[s] = None
    BY <1>1, <1>5, <2>1 DEF NoEntryMeansIdle
  <2>2. CASE sessionChains[s] # None
    <3>1. sessionChains[s] = j /\ j = accepted[s][Len(accepted[s])] /\ accepted[s] # <<>>
      BY <1>3, <1>5, <2>2 DEF TailIsLast
    <3>2. HasSettled(j)'
      BY DEF DropEntry, HasSettled, ChainTypeOK
    <3>3. accepted[s] \in Seq(Jobs) /\ Len(accepted[s]) \in Nat /\ Len(accepted[s]) > 0
      BY <3>1 DEF ChainTypeOK
    <3>4. CASE promise[k] = "none"
      BY <1>5, <3>4, NoneAssumption DEF HistoryOK
    <3>5. CASE promise[k] # "none"
      <4>1. PICK i \in 1..Len(accepted[s]) : accepted[s][i] = k
        BY <1>5, <3>5 DEF HistoryOK
      <4>2. i = Len(accepted[s]) \/ i < Len(accepted[s])
        BY <3>3
      <4>3. QED
        BY <1>1, <3>1, <3>2, <3>3, <4>1, <4>2 DEF SettledBefore
    <3>6. QED
      BY <3>4, <3>5
  <2>3. QED
    BY <2>1, <2>2
<1>6. NoEntryMeansIdle'
  BY <1>1, <1>2, <1>5 DEF NoEntryMeansIdle
<1>7. QED
  BY <1>1, <1>4, <1>6

\* The finally callback of a settled job drops its entry.
LEMMA ForgetInv ==
    ASSUME ChainInv, NEW j \in Jobs, Forget(j)
    PROVE  ChainInv'
BY DropEntryInv DEF Forget, HasStarted, HasSettled

\* ChainInv is preserved by every step.
LEMMA NextChainInv == ChainInv /\ [ChainNext]_chainVars => ChainInv'
<1>1. CASE UNCHANGED chainVars
  BY <1>1 DEF chainVars, ChainInv, ChainTypeOK, HistoryOK, SettledBefore, LinksOK,
              TailIsLast, NoEntryMeansIdle, HasStarted, HasSettled
<1>2. ASSUME ChainInv, ChainNext PROVE ChainInv'
  BY <1>2, ScheduleInv, RunInv, SettleInv, ForgetInv DEF ChainNext
<1>3. QED
  BY <1>1, <1>2

\* The invariant of the promise chain holds whatever the jobs and sessions.
THEOREM ChainInvariant == ChainSpec => []ChainInv
BY InitChainInv, NextChainInv, PTL DEF ChainSpec

\* Of two jobs of a session that run, the later one in the history would need
\* the earlier one settled.
LEMMA ExclusionFromInv == ChainInv => OneJobPerSession
<1>1. SUFFICES ASSUME ChainInv, NEW j \in Jobs, NEW k \in Jobs,
                      promise[j] = "running", promise[k] = "running", owner[j] = owner[k]
               PROVE  j = k
  BY DEF OneJobPerSession
<1> DEFINE h == accepted[owner[j]]
<1>2. owner[j] \in Sessions
  BY <1>1 DEF ChainInv, HistoryOK
<1>3. PICK i \in 1..Len(h) : h[i] = j
  BY <1>1 DEF ChainInv, HistoryOK
<1>4. PICK m \in 1..Len(h) : h[m] = k
  BY <1>1 DEF ChainInv, HistoryOK
<1>5. Len(h) \in Nat
  BY <1>1, <1>2 DEF ChainInv, ChainTypeOK
<1>6. ~(i < m) /\ ~(m < i)
  BY <1>1, <1>2, <1>3, <1>4 DEF ChainInv, SettledBefore, HasStarted, HasSettled
<1>7. QED
  BY <1>3, <1>4, <1>5, <1>6

\* Two jobs of one session never run at the same time.
THEOREM ChainExclusion == ChainSpec => []OneJobPerSession
BY ChainInvariant, ExclusionFromInv, PTL

-----------------------------------------------------------------------------
(* Refinement of SerialExecutor.                                           *)

\* Initially no job is accepted, running or finished.
LEMMA InitRefines == ChainInit => Executor!Init
BY DEF ChainInit, Executor!Init, HasSettled

\* Schedule accepts, Run starts, Settle finishes, and Forget is not seen.
LEMMA StepRefines == ChainInv /\ [ChainNext]_chainVars => [Executor!Next]_(Executor!vars)
<1> SUFFICES ASSUME ChainInv, [ChainNext]_chainVars
             PROVE  [Executor!Next]_(Executor!vars)
  OBVIOUS
<1> DEFINE running == {j \in Jobs : promise[j] = "running"}
           finished == {j \in Jobs : HasSettled(j)}
<1> USE DEF ChainInv
<1>1. ASSUME NEW j \in Jobs, NEW s \in Sessions, Schedule(j, s)
      PROVE  Executor!Accept(j, s)
  <2>1. \A t \in Sessions : \A i \in 1..Len(accepted[t]) : accepted[t][i] # j
    BY <1>1 DEF HistoryOK, Schedule
  <2>2. \A k \in Jobs : /\ promise'[k] = "running" <=> promise[k] = "running"
                        /\ HasSettled(k)' <=> HasSettled(k)
    BY <1>1 DEF Schedule, ChainTypeOK, HasSettled
  <2>3. running' = running /\ finished' = finished
    BY <2>2
  <2>4. QED
    BY <1>1, <2>1, <2>3 DEF Executor!Accept, Executor!IsNew, Schedule
<1>2. ASSUME NEW j \in Jobs, Run(j)
      PROVE  \E s \in Sessions : Executor!Start(j, s)
  <2>1. ChainInv'
    BY <1>2, RunInv
  <2>2. promise[j] = "waiting" /\ promise'[j] = "running"
    BY <1>2 DEF Run, ChainTypeOK
  <2>3. owner[j] \in Sessions
    BY <2>2 DEF HistoryOK
  <2>4. PICK i \in 1..Len(accepted[owner[j]]) : accepted[owner[j]][i] = j
    BY <2>2 DEF HistoryOK
  <2>5. \A k \in Jobs : /\ HasSettled(k)' <=> HasSettled(k)
                        /\ promise'[k] = "running" <=> (promise[k] = "running" \/ k = j)
    BY <1>2 DEF Run, ChainTypeOK, HasSettled
  <2>6. running' = running \cup {j} /\ finished' = finished
    BY <2>5
  <2>7. j \notin running \cup finished
    BY <2>2 DEF HasSettled
  <2>8. accepted' = accepted /\ owner' = owner
    BY <1>2 DEF Run
  <2>9. Len(accepted[owner[j]]) \in Nat /\ \A k \in 1..Len(accepted[owner[j]]) : accepted[owner[j]][k] \in Jobs
    BY <2>3 DEF ChainTypeOK
  <2>10. \A k \in 1..(i - 1) : accepted[owner[j]][k] \in finished
    <3>1. TAKE k \in 1..(i - 1)
    <3>2. k \in 1..Len(accepted[owner[j]]) /\ k < i
      BY <2>4, <2>9
    <3>3. HasStarted(accepted[owner[j]][i])'
      BY <2>2, <2>4, <2>8 DEF HasStarted
    <3>4. HasSettled(accepted[owner[j]][k])'
      BY <2>1, <2>3, <2>8, <3>2, <3>3 DEF SettledBefore, HasStarted, HasSettled
    <3>5. QED
      BY <2>5, <2>8, <2>9, <3>2, <3>4 DEF HasSettled
  <2>11. PICK s \in Sessions : s = owner[j]
    BY <2>3
  <2>12. Executor!Start(j, s)
    BY <2>4, <2>6, <2>7, <2>8, <2>10, <2>11 DEF Executor!Start
  <2>13. QED
    BY <2>12
<1>3. ASSUME NEW j \in Jobs, Settle(j)
      PROVE  Executor!Finish(j)
  <2>1. \A k \in Jobs : /\ promise'[k] = "running" <=> (promise[k] = "running" /\ k # j)
                        /\ HasSettled(k)' <=> (HasSettled(k) \/ k = j)
    BY <1>3 DEF Settle, ChainTypeOK, HasSettled
  <2>2. running' = running \ {j} /\ finished' = finished \cup {j}
    BY <2>1
  <2>3. QED
    BY <1>3, <2>2 DEF Executor!Finish, Settle
<1>4. ASSUME NEW j \in Jobs, Forget(j)
      PROVE  UNCHANGED Executor!vars
  <2>1. \A k \in Jobs : /\ promise'[k] = "running" <=> promise[k] = "running"
                        /\ HasSettled(k)' <=> HasSettled(k)
    BY <1>4 DEF Forget, DropEntry, ChainTypeOK, HasSettled
  <2>2. running' = running /\ finished' = finished
    BY <2>1
  <2>3. QED
    BY <1>4, <2>2 DEF Executor!vars, Forget, DropEntry
<1>5. CASE UNCHANGED chainVars
  BY <1>5 DEF chainVars, Executor!vars, HasSettled
<1>6. CASE ChainNext
  <2>1. PICK j \in Jobs : (\E s \in Sessions : Schedule(j, s)) \/ Run(j) \/ Settle(j) \/ Forget(j)
    BY <1>6 DEF ChainNext
  <2>2. CASE \E s \in Sessions : Schedule(j, s)
    <3>1. \E s \in Sessions : Executor!Accept(j, s)
      BY <1>1, <2>2
    <3>2. QED
      BY <3>1 DEF Executor!Next
  <2>3. CASE Run(j)
    <3>1. \E s \in Sessions : Executor!Start(j, s)
      BY <1>2, <2>3
    <3>2. QED
      BY <3>1 DEF Executor!Next
  <2>4. CASE Settle(j)
    <3>1. Executor!Finish(j)
      BY <1>3, <2>4
    <3>2. QED
      BY <3>1 DEF Executor!Next
  <2>5. CASE Forget(j)
    BY <1>4, <2>5
  <2>6. QED
    BY <2>1, <2>2, <2>3, <2>4, <2>5
<1>7. QED
  BY <1>5, <1>6

\* The promise chain is a serial executor: one job of a session at a time, in
\* the order of scheduling, for any number of jobs and sessions.
THEOREM ChainRefinement == ChainSpec => ImplementsSerialExecutor
BY InitRefines, StepRefines, ChainInvariant, PTL
   DEF ChainSpec, ImplementsSerialExecutor, Executor!Spec
=============================================================================
