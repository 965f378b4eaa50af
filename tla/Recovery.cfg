\* Promotions under failed calls, lost outcomes, crashes and a foreign writer of trunk.
CONSTANTS
    c0 = c0
    c1 = c1
    c2 = c2
    k1 = k1
    k2 = k2
    k3 = k3
    k4 = k4
    k5 = k5
    pol = pol
    owner = owner
    Content = {c0, c1, c2}
    InitialContent = c0
    Keys = {k1, k2}
    Policies = {pol}
    Principals = {owner}
    Operations = {"propose", "amend", "promote"}
    MaxVersions = 2
    MaxIntents = 3
    MaxFaults = 4
SPECIFICATION LiveSpec
INVARIANTS
    SpineIntact
    TrunkFollowsDecisions
    ConflictIsForeign
PROPERTIES
    ServesSettledState
    AcceptedSpec
    RestartCompletes
CHECK_DEADLOCK FALSE
