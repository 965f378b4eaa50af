\* A promotion asked for again after a later one.
CONSTANTS
    c0 = c0
    c1 = c1
    c2 = c2
    k1 = k1
    k2 = k2
    k3 = k3
    k4 = k4
    k5 = k5
    pol = pol
    owner = owner
    Content = {c0, c1}
    InitialContent = c0
    Keys = {k1, k2}
    Policies = {pol}
    Principals = {owner}
    Operations = {"propose", "promote"}
    MaxVersions = 2
    MaxIntents = 3
    MaxFaults = 0
SPECIFICATION Spec
SYMMETRY ContentAndKeys
INVARIANTS
    ServedIntentIsDurable
CHECK_DEADLOCK FALSE
