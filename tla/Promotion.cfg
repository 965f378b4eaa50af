\* Amendments, Evaluations and Responses racing promotions.
CONSTANTS
    c0 = c0
    c1 = c1
    c2 = c2
    k1 = k1
    k2 = k2
    k3 = k3
    k4 = k4
    k5 = k5
    pol = pol
    owner = owner
    Content = {c0, c1}
    InitialContent = c0
    Keys = {k1, k2, k3, k4}
    Policies = {pol}
    Principals = {owner}
    Operations = {"propose", "amend", "evaluate", "respond", "promote"}
    MaxVersions = 3
    MaxIntents = 3
    MaxFaults = 0
SPECIFICATION Spec
SYMMETRY ContentAndKeys
INVARIANTS
    PromotionGoverned
    OneEffectPerKey
CHECK_DEADLOCK FALSE
