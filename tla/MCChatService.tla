---------------------------- MODULE MCChatService ----------------------------
(* Model-checking instances of ChatService.  The daemon idles when the       *)
(* finite set of requests is used up, so deadlock is not checked.            *)
EXTENDS ChatService, TLC

\* Requests are interchangeable; used for safety only.
RequestSymmetry == Permutations(Jobs)
=============================================================================
