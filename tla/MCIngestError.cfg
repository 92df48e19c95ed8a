\* One batch, whose commit may go unacknowledged.
SPECIFICATION Spec
CONSTANTS
    Batches = {"b1"}
    Content <- OneBatch
    Requests = {q1, q2}
    Tenants = {"demo", "prod"}
    Stable = {"demo"}
    ChunkSize = 2
    MaxReported = 2
    MaxTrouble = 3
INVARIANTS
    ErrorMeansNothingStored
