\* Two backends maintain the partitions while a request inserts.
SPECIFICATION FairSpec
CONSTANTS
    Backends = {w1, w2}
    Requests = {q1}
    NoOne = NoOne
    DayLength = 2
    Retention = 1
    FutureSkew = 1
    Migrated <- FewMigrated
    MaxEvent = 2
    MaxNow = 3
    MaxFailures = 1
INVARIANTS
    Placed
    NothingInBetween
    Covered
PROPERTIES
    KeptForRetention
    Maintained
