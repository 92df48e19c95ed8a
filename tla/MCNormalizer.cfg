\* Records of every source, with what a sender may get wrong.
SPECIFICATION NormalizerSpec
CONSTANTS
    Inputs <- Records
    TenantIds = {"demo", "prod"}
    Blank = {" "}
    Long = {"long", "wide"}
    CleanOf <- MCClean
    LowerOf <- MCLower
    AddressOf <- MCAddress
    IntOf <- MCInt
    TimeOf <- MCTime
    Stamps = {"stamp"}
    TagOf <- MCTag
    Elements = {"[sd]"}
    Logins = {"login", "login_failed"}
    Logouts = {"logout"}
    Failures = {"login_failed"}
    Creates = {"CreateUser"}
    Deletes = {"DeleteUser"}
    Retention = 7
    FutureSkew = 1
INVARIANTS
    FirstUsable
    Storable
    Findable
\* Once a record is normalized, there is nothing left to do.
CHECK_DEADLOCK FALSE
