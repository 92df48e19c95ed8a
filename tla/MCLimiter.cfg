\* Two callers, whose clock readings may reach the map out of order, and two
\* keys that share the map and its sweep.
SPECIFICATION Spec
CONSTANTS
    Keys = {k1, k2}
    Callers = {c1, c2}
    Minute = 4
    Second = 2
    PerMinute = 2
    MaxWait = 1
    MaxNow = 4
SYMMETRY Symmetry
INVARIANTS
    TypeOK
    AttemptsBounded
    MapHoldsRecentKeys
PROPERTIES
    HeadersHonest
    ImplementsTokenBucket
