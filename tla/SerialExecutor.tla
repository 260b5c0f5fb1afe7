--------------------------- MODULE SerialExecutor ---------------------------
(***************************************************************************)
(* What a per-session job queue promises, with no mechanism: the jobs of   *)
(* a session run one at a time, in the order in which they were accepted,  *)
(* and jobs of different sessions do not wait for each other.              *)
(*                                                                         *)
(* SessionChains (the promise chain of packages/cli/src/daemon/            *)
(* chat-service.ts) and, through it, ChatService implement this module.    *)
(***************************************************************************)
EXTENDS Naturals, Sequences

CONSTANTS Jobs,      \* everything that can be enqueued
          Sessions   \* the queues

VARIABLES accepted,  \* accepted[s]: the jobs of s, in the order of acceptance
          running,   \* the jobs being executed
          finished   \* the jobs that are over

vars == <<accepted, running, finished>>

Init ==
    /\ accepted = [s \in Sessions |-> <<>>]
    /\ running = {}
    /\ finished = {}

IsNew(j) == \A s \in Sessions : \A i \in 1..Len(accepted[s]) : accepted[s][i] # j

Accept(j, s) ==
    /\ IsNew(j)
    /\ accepted' = [accepted EXCEPT ![s] = Append(@, j)]
    /\ UNCHANGED <<running, finished>>

\* Everything accepted before j in session s is over.
Start(j, s) ==
    /\ j \notin running \cup finished
    /\ \E i \in 1..Len(accepted[s]) :
          /\ accepted[s][i] = j
          /\ \A k \in 1..(i - 1) : accepted[s][k] \in finished
    /\ running' = running \cup {j}
    /\ UNCHANGED <<accepted, finished>>

Finish(j) ==
    /\ j \in running
    /\ running' = running \ {j}
    /\ finished' = finished \cup {j}
    /\ UNCHANGED accepted

Next == \E j \in Jobs :
    \/ \E s \in Sessions : Accept(j, s) \/ Start(j, s)
    \/ Finish(j)

Spec == Init /\ [][Next]_vars
=============================================================================
