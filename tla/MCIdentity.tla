------------------------------ MODULE MCIdentity ------------------------------
(***************************************************************************)
(* Accounts and DeviceDirectory share no state.  One run checks both: part *)
(* says which of the two is at work, the other stays in its initial state. *)
(***************************************************************************)
EXTENDS Accounts, DeviceDirectory

VARIABLE part

MCLimits == [devices |-> 2, starts |-> 2, faults |-> 1, beats |-> 2]

Init == part \in {"accounts", "devices"} /\ AccountsInit /\ DirectoryInit
Next == \/ part = "accounts" /\ AccountsNext /\ UNCHANGED <<part, directoryVars>>
        \/ part = "devices" /\ DirectoryNext /\ UNCHANGED <<part, accountVars>>
Spec == Init /\ [][Next]_<<part, accountVars, directoryVars>> /\ DirectoryFairness
=============================================================================
