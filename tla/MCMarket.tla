------------------------------ MODULE MCMarket ------------------------------
(***************************************************************************)
(* Market packages with several operations at once, and the reading of     *)
(* what one package installs while operations replace it.  The two share   *)
(* no state: part says which is at work, the other stays in an initial     *)
(* state.                                                                  *)
(***************************************************************************)
EXTENDS MarketInstaller, AgentRegistry, TLC

VARIABLE part

MCContents == [basic |-> <<<<"bp">>, <<"bs">>>>, kit |-> <<<<"kp">>, <<"kp", "ka">>>>]
MCPersona == [ka |-> "kp"]
MCLimits == [commands |-> 2, faults |-> 1]

\* The update drops a skill.
MCSkillsOf == <<<<"s1", "s2">>, <<"s1">>>>

\* One call among two operations, or among one that may be killed, or two calls of which
\* one may create an agent.
MCBudgets == {[operations |-> 2, calls |-> 1, kills |-> 0], [operations |-> 1, calls |-> 1, kills |-> 1],
              [operations |-> 0, calls |-> 2, kills |-> 1]}

MCInit ==
  /\ part \in {"packages", "registry"}
  /\ MarketInit /\ (part # "packages" => ~page.device)
  /\ AgentsInit /\ (part # "registry" => installed = 0 /\ budget.operations = 2 /\ files["user"] = 0)

MCNext ==
  \/ part = "packages" /\ MarketNext /\ UNCHANGED <<part, agentVars>>
  \/ part = "registry" /\ AgentsNext /\ UNCHANGED <<part, marketVars>>

MCSpec == MCInit /\ [][MCNext]_<<part, marketVars, agentVars>>

Symmetry == Permutations(Ops)
=============================================================================
