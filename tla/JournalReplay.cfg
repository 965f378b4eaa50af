\* A host killed between write and sync, and the next one replaying the journal.
CONSTANTS
    h1 = h1
    h2 = h2
    init = init
    proposal = proposal
    evaluation = evaluation
    huge = huge
    Host = {h1}
    None = None
    Record = {init, proposal, evaluation, huge}
    Needs <- DecisionNeeds
    Oversized = {huge}
    Repeatable = {evaluation}
    Fragment = Fragment
    Garbled = Garbled
    MaxFaults = 4
SPECIFICATION Spec
INVARIANT ProjectionIsSynced
CHECK_DEADLOCK FALSE
