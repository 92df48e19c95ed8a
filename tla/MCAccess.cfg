CONSTANTS
    TenantIds <- FewIds
    LongNames = {"long", "longer"}
    LongTexts = {"long"}
    NulTexts = {"nul"}
    LowerCase <- FewLowerCase
    Urls = {"https://x"}
    Tenants <- FewTenants
    DemoTenants <- FewDemoTenants
    Emails <- FewEmails
    DemoUsers <- FewDemoUsers
    AskedTenants <- FewAsked
    Bodies <- FewBodies
    Batches <- FewBatches
    Storable <- FewStorable
    TokenTTL = 1
    SignInWait = 1
    RequestWait = 1
    MaxTime = 3
SPECIFICATION Spec
INVARIANTS
    TypeOK
    ReachExpires
    LayersAgree
    Isolated
