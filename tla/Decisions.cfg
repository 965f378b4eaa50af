\* Workers at two Versions, with amendments, Responses and one crash or failed call.
CONSTANTS
    c0 = c0
    c1 = c1
    c2 = c2
    k1 = k1
    k2 = k2
    k3 = k3
    w1 = w1
    w2 = w2
    pol = pol
    other = other
    owner = owner
    Content = {c0, c1}
    InitialContent = c0
    Keys = {k1, k2}
    Policies = {pol, other}
    Principals = {owner}
    Operations = {"propose", "amend", "evaluate", "respond", "promote"}
    MaxVersions = 2
    MaxIntents = 3
    MaxFaults = 1
    Worker = {w1, w2}
    Guarding <- PolicyFiles

SPECIFICATION WorkLiveSpec

INVARIANTS PromotedAsJudged JudgedByAcceptedPolicies
PROPERTIES ClearedIsDecided
CHECK_DEADLOCK FALSE
