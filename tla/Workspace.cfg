\* One checkout with two commits to make, other clients with one patch.
CONSTANTS
    mine1 = mine1
    mine2 = mine2
    theirs1 = theirs1
    k1 = k1
    k2 = k2
    Mine = {mine1, mine2}
    Theirs = {theirs1}
    Content <- Histories
    InitialContent <- Root
    Keys = {k1, k2}
    Policies = {}
    Principals = {}
    Operations = {"propose", "amend", "rebase", "promote"}
    MaxVersions = 3
    MaxIntents = 3
    MaxFaults = 0

SPECIFICATION WorkspaceSpec
SYMMETRY KeysAndPatches
INVARIANTS WorkKept SyncedOntoRecord SubmittedOnce
CHECK_DEADLOCK FALSE
