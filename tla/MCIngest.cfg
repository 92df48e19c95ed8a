\* One batch, requests of which may outlive their client, and failures that end.
SPECIFICATION FairSpec
CONSTANTS
    Batches = {"b1"}
    Content <- OneBatch
    Requests = {q1, q2, q3}
    Tenants = {"demo", "prod"}
    Stable = {"demo"}
    ChunkSize = 2
    MaxReported = 2
    MaxTrouble = 2
INVARIANTS
    TypeOK
    AnswerHonest
    DoneIsStored
    CopiesBounded
    ReportedFirst
PROPERTIES
    ImplementsDelivery
    EveryBatchDone
\* Once every batch is done, nothing is left to do.
CHECK_DEADLOCK FALSE
