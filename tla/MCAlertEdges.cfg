\* One evaluator, windows in any order, events at the edges of a window.
SPECIFICATION Spec
CONSTANTS
    Evaluators = {w1}
    Rules <- EdgeRules
    Keys = {1}
    Ends = {1, 2, 3, 4}
    Events <- EdgeEvents
INVARIANTS
    CooldownRespected
    Justified
    TypeOK
