\* A host killed between write and sync of an Evaluation, which is then recorded again.
CONSTANTS
    h1 = h1
    h2 = h2
    init = init
    proposal = proposal
    evaluation = evaluation
    huge = huge
    Host = {h1}
    None = None
    Record = {init, proposal, evaluation, huge}
    Needs <- DecisionNeeds
    Oversized = {huge}
    Repeatable = {evaluation}
    Fragment = Fragment
    Garbled = Garbled
    MaxFaults = 4
SPECIFICATION Spec
INVARIANT AcknowledgedSurvives
CHECK_DEADLOCK FALSE
