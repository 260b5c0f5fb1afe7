----------------------------- MODULE MCLlmProxy -----------------------------
(* Instances of LlmProxy for TLC: two providers, one tier.                 *)
EXTENDS LlmProxy
CONSTANTS A, B, a1, b1, high, e1

MCProviderOf == [m \in Models |-> IF m = b1 THEN B ELSE A]
MCStrategies ==
    {[pools |-> [t \in Tiers |-> <<b1, a1, b1>>], chat |-> high, titleGeneration |-> b1],
     [pools |-> [t \in Tiers |-> <<a1>>], chat |-> a1, titleGeneration |-> b1]}
MCInitialKeys == {{}, {A}, {A, B}}
=============================================================================
