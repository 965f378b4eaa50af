\* Two hosts over one journal, with failing writes, syncs, rollbacks and repairs,
\* ended hosts and power failures.
CONSTANTS
    h1 = h1
    h2 = h2
    init = init
    proposal = proposal
    evaluation = evaluation
    huge = huge
    Host = {h1, h2}
    None = None
    Record = {init, proposal, evaluation, huge}
    Needs <- DecisionNeeds
    Oversized = {huge}
    Repeatable = {evaluation}
    Fragment = Fragment
    Garbled = Garbled
    MaxFaults = 4
SPECIFICATION Spec
INVARIANTS
    TypeOK
    AlwaysReopens
    SyncedSurvives
    RepetitionStands
    MemoryMirrorsFile
PROPERTIES
    DurableSpec
CHECK_DEADLOCK FALSE
