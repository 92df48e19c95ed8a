\* Searches by an admin and by viewers, while events arrive and expire.
SPECIFICATION Spec
CONSTANTS
    Tenants = {"demo", "prod"}
    Events <- FewEvents
    Queries <- FewQueries
    Span = 1
    Ahead = 1
    Retention = 1
    MaxId = 3
    MaxNow = 3
    Counts <- FewCounts
    Widths <- FewWidths
    AutoParts = 2
    MaxParts = 4
    ValueOf <- FewValues
INVARIANTS
    OneResult
    NothingElse
    NoneSkipped
    CountsAgree
