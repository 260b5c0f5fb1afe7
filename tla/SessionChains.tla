---------------------------- MODULE SessionChains ----------------------------
(***************************************************************************)
(* The promise chain ChatService keeps per session                         *)
(* (packages/cli/src/daemon/chat-service.ts, sessionChains), which the     *)
(* queue of file mutations keeps per path (FileMutationQueue).             *)
(*                                                                         *)
(* There is no queue in the code.  sessionChains maps a session to the     *)
(* promise of its LAST job only; a new job is `previous.then(job)`, so the *)
(* order lives in the promises, and a `finally` of every job removes the   *)
(* map entry, but only while the entry is still that job's.  The module    *)
(* keeps exactly this: the map of tails, and for every job the promise it  *)
(* was chained after.                                                      *)
(***************************************************************************)
EXTENDS Naturals, Sequences

CONSTANTS Jobs,      \* the prompts and compactions ever scheduled
          Sessions,
          None       \* "no entry in the map" / "chained after Promise.resolve()"

ASSUME NoneAssumption == None \notin Jobs /\ None \notin Sessions

VARIABLES
    sessionChains,   \* sessionChains[s]: the last job chained on s, or None
    previous,        \* previous[j]: the promise job j was chained after
    owner,           \* owner[j]: the session of job j
    promise,         \* promise[j]: how far the promise of job j is
    accepted         \* history: the jobs of each session in scheduling order

chainVars == <<sessionChains, previous, owner, promise, accepted>>

PromiseState == {"none",       \* not created
                 "waiting",    \* created, the previous promise has not settled
                 "running",    \* the job's function has been called
                 "settled",    \* resolved, its finally callback has not run
                 "forgotten"}  \* the finally callback has run

HasSettled(j) == promise[j] \in {"settled", "forgotten"}
HasStarted(j) == promise[j] = "running" \/ HasSettled(j)

ChainInit ==
    /\ sessionChains = [s \in Sessions |-> None]
    /\ previous = [j \in Jobs |-> None]
    /\ owner = [j \in Jobs |-> None]
    /\ promise = [j \in Jobs |-> "none"]
    /\ accepted = [s \in Sessions |-> <<>>]

\* Faulty variants, against which the properties are tried, precede the
\* definition they stand in for.

\* Faulty Schedule: the job is called at once and not by previous.then.
ScheduleUnchained(j, s) ==
    /\ promise[j] = "none"
    /\ sessionChains' = [sessionChains EXCEPT ![s] = j]
    /\ owner' = [owner EXCEPT ![j] = s]
    /\ promise' = [promise EXCEPT ![j] = "waiting"]
    /\ accepted' = [accepted EXCEPT ![s] = Append(@, j)]
    /\ UNCHANGED previous

\* Faulty Schedule: set before get, so that a job waits for itself.
ScheduleSetFirst(j, s) ==
    /\ promise[j] = "none"
    /\ previous' = [previous EXCEPT ![j] = j]
    /\ sessionChains' = [sessionChains EXCEPT ![s] = j]
    /\ owner' = [owner EXCEPT ![j] = s]
    /\ promise' = [promise EXCEPT ![j] = "waiting"]
    /\ accepted' = [accepted EXCEPT ![s] = Append(@, j)]

\* sessionChains.get(s) ?? Promise.resolve(), then(...), sessionChains.set(s, next)
Schedule(j, s) ==
    /\ promise[j] = "none"
    /\ previous' = [previous EXCEPT ![j] = sessionChains[s]]
    /\ sessionChains' = [sessionChains EXCEPT ![s] = j]
    /\ owner' = [owner EXCEPT ![j] = s]
    /\ promise' = [promise EXCEPT ![j] = "waiting"]
    /\ accepted' = [accepted EXCEPT ![s] = Append(@, j)]

\* The previous promise has settled: `.then` calls the job.
Run(j) ==
    /\ promise[j] = "waiting"
    /\ previous[j] # None => HasSettled(previous[j])
    /\ promise' = [promise EXCEPT ![j] = "running"]
    /\ UNCHANGED <<sessionChains, previous, owner, accepted>>

\* The job's promise resolves.
Settle(j) ==
    /\ promise[j] = "running"
    /\ promise' = [promise EXCEPT ![j] = "settled"]
    /\ UNCHANGED <<sessionChains, previous, owner, accepted>>

\* Faulty DropEntry: the entry goes whichever job it names.
DropAnyEntry(j) ==
    /\ promise' = [promise EXCEPT ![j] = "forgotten"]
    /\ sessionChains' = [sessionChains EXCEPT ![owner[j]] = None]
    /\ UNCHANGED <<previous, owner, accepted>>

\* finally: drop the map entry, unless a later job has been chained since.
DropEntry(j) ==
    /\ promise' = [promise EXCEPT ![j] = "forgotten"]
    /\ sessionChains' = IF sessionChains[owner[j]] = j
                        THEN [sessionChains EXCEPT ![owner[j]] = None]
                        ELSE sessionChains
    /\ UNCHANGED <<previous, owner, accepted>>

Forget(j) == promise[j] = "settled" /\ DropEntry(j)

ChainNext == \E j \in Jobs :
    \/ \E s \in Sessions : Schedule(j, s)
    \/ Run(j)
    \/ Settle(j)
    \/ Forget(j)

ChainSpec == ChainInit /\ [][ChainNext]_chainVars

\* Promises are driven by the event loop: a reaction whose promise has settled
\* runs, and (for a job that ends) the job settles.
ChainFairness == \A j \in Jobs : WF_chainVars(Run(j)) /\ WF_chainVars(Settle(j))
-----------------------------------------------------------------------------
ChainTypeOK ==
    /\ sessionChains \in [Sessions -> Jobs \cup {None}]
    /\ previous \in [Jobs -> Jobs \cup {None}]
    /\ owner \in [Jobs -> Sessions \cup {None}]
    /\ promise \in [Jobs -> PromiseState]
    /\ accepted \in [Sessions -> Seq(Jobs)]

\* Two jobs of one session are never running at the same time: no two turns,
\* and no turn and compaction, work on the same session tree.
OneJobPerSession ==
    \A j, k \in Jobs :
        /\ promise[j] = "running" /\ promise[k] = "running"
        /\ owner[j] = owner[k]
        => j = k

\* A missing map entry means there is nothing left to run: this is what makes
\* `sessionChains.has(s)` a correct test for "this session has a job".
NoEntryMeansIdle ==
    \A s \in Sessions : sessionChains[s] = None =>
        \A j \in Jobs : owner[j] = s => HasSettled(j)

\* The tail's promise is the last of the session to settle, whatever the
\* order in which the finally callbacks run.
TailIsLast ==
    \A s \in Sessions : sessionChains[s] # None =>
        /\ accepted[s] # <<>>
        /\ sessionChains[s] = accepted[s][Len(accepted[s])]

-----------------------------------------------------------------------------
(* The order of acceptance, as the code keeps it: through `previous`.      *)

\* Each job of a session appears once in its history.
HistoryOK ==
    /\ \A s \in Sessions : \A i \in 1..Len(accepted[s]) :
            /\ promise[accepted[s][i]] # "none"
            /\ owner[accepted[s][i]] = s
    /\ \A s \in Sessions : \A i, k \in 1..Len(accepted[s]) :
            accepted[s][i] = accepted[s][k] => i = k
    /\ \A j \in Jobs : promise[j] # "none" =>
            /\ owner[j] \in Sessions
            /\ \E i \in 1..Len(accepted[owner[j]]) : accepted[owner[j]][i] = j
    /\ \A j \in Jobs : promise[j] = "none" => owner[j] = None

\* A job that has started found every earlier job of its session settled.
SettledBefore ==
    \A s \in Sessions : \A i, k \in 1..Len(accepted[s]) :
        i < k /\ HasStarted(accepted[s][k]) => HasSettled(accepted[s][i])

\* A waiting job was chained after its predecessor, or found the map empty
\* when every predecessor had settled.
LinksOK ==
    \A s \in Sessions : \A k \in 1..Len(accepted[s]) :
        promise[accepted[s][k]] = "waiting" =>
            \/ /\ k > 1
               /\ previous[accepted[s][k]] = accepted[s][k - 1]
            \/ /\ previous[accepted[s][k]] = None
               /\ \A i \in 1..(k - 1) : HasSettled(accepted[s][i])

ChainInv ==
    /\ ChainTypeOK
    /\ HistoryOK
    /\ SettledBefore
    /\ LinksOK
    /\ TailIsLast
    /\ NoEntryMeansIdle
-----------------------------------------------------------------------------
(* Refinement: the chain implements a serial executor.                     *)

Executor == INSTANCE SerialExecutor WITH
    running <- {j \in Jobs : promise[j] = "running"},
    finished <- {j \in Jobs : HasSettled(j)}

\* The promise chain runs the jobs of a session one at a time and in the order
\* in which they were scheduled, though no queue is stored anywhere.
ImplementsSerialExecutor == Executor!Spec
=============================================================================
