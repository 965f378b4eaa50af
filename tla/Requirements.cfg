\* One reader, one Requirement to a page; two Versions, each judged by two policies.
CONSTANTS
    c0 = c0
    owner = owner
    other = other
    Content = {c0}
    InitialContent = c0
    Keys = {1, 2, 3, 4}
    Policies = {1, 2}
    Principals = {owner, other}
    Operations = {"propose", "amend", "evaluate", "respond", "promote"}
    MaxVersions = 2
    MaxIntents = 2
    MaxFaults = 0
    Limit = 1

SPECIFICATION PagingSpec
ACTION_CONSTRAINT InOrder
INVARIANTS CursorStaysGood NothingMissedOrRepeated
CHECK_DEADLOCK FALSE
