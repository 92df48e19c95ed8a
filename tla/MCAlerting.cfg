\* Two tenants' rules on the schedule, with restarts and failures.
SPECIFICATION Spec
CONSTANTS
    Tenants <- TwoTenants
    Rules <- TwoTenantRules
    Keys = {1}
    Events <- TwoTenantEvents
    Minute = 2
    Lag = 1
    MaxDelay = 1
    MaxRun = 1
    MaxNow = 11
INVARIANTS
    TypeOK
    Detected
PROPERTIES
    Timely
