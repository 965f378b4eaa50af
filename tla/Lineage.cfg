\* Lineage: amendments, rebases, dependents and conflicts around promotions, and
\* longer stretches in which a dependency is amended.
CONSTANTS
    c0 = c0
    pol = pol
    owner = owner
    Content = {c0}
    InitialContent = c0
    Keys = {1, 2, 3, 4, 5}
    Policies = {pol}
    Principals = {owner}
    Operations = {"propose", "amend", "rebase", "reconcile", "conflict", "resolve", "promote"}
    MaxVersions = 5
    MaxIntents = 4
    MaxFaults = 0
    ShortVersions = 4
    ShortIntents = 3

SPECIFICATION Spec
ACTION_CONSTRAINTS Within InOrder
INVARIANTS
    TypeOK
    DependenciesAcceptedFirst
    PromotedStaysLatest
    WorkQueueExact
    OfferedIsAccepted
    AmendedWorkCarried
CHECK_DEADLOCK FALSE
