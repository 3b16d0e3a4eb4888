---------------------------- MODULE MCPromptLoop ----------------------------
(* Three connections, so that a third question meets two prompts that met, and *)
(* a countdown that ends at its first tick beside one that runs for a while.   *)
EXTENDS PromptLoop
CONSTANTS c1, c2, c3
ConnSet == {c1, c2, c3}
TimeoutSet == {1, 3}
=============================================================================
