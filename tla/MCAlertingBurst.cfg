\* One burst, shorter than the window, that straddles the end of a window.
SPECIFICATION Spec
CONSTANTS
    Tenants <- OneTenant
    Rules <- OneRule
    Keys = {1}
    Events <- OneBurst
    Minute = 2
    Lag = 1
    MaxDelay = 1
    MaxRun = 1
    MaxNow = 11
INVARIANTS
    BurstFiresOnce
