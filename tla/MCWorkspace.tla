---------------------------- MODULE MCWorkspace ----------------------------
(* Instances of Workspace for model checking.                                *)
EXTENDS Workspace, TLC

CONSTANTS mine1, mine2, theirs1, k1, k2

Root == <<>>
KeysAndPatches == Permutations(Keys) \cup Permutations(Mine)
=============================================================================
