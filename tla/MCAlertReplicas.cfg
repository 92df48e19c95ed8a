\* Three replicas evaluate the same windows of one rule, with two groups due.
SPECIFICATION FairSpec
CONSTANTS
    Evaluators = {w1, w2, w3}
    Rules <- TwoGroupRules
    Keys = {1, 2}
    Ends = {2, 4}
    Events <- TwoGroupEvents
INVARIANTS
    FiringUnique
    DeliveredOnce
    WaitsUpwards
PROPERTIES
    EvaluationEnds
