SPECIFICATION FairSpec
CONSTANTS
    Member = {m1, m2}
    Messages = 3
    Poison = {2}
    Decides = {1, 3}
    MaxBatch = 2
    MaxRetries = 1
    MaxFaults = 2
INVARIANTS EffectsOnce NothingSkipped
PROPERTIES FactsInOrder BacklogDrained DecisionsExecuted
CHECK_DEADLOCK FALSE
