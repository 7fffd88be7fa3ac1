SPECIFICATION Spec
CONSTANTS
    home = home
    item = item
    item2 = item2
    admin = admin
    jump = jump
    jumpOut = jumpOut
    jumpMark = jumpMark
    NoUrl = NoUrl
    Address <- SomeAddress
    Scopes <- TwoScopes
    Contracted <- OneScope
    Origin <- SiteOrigin
    Excluded <- NoAdmin
    Total = 8
    MaxDiscovery = 40
    MaxBytes = 4
    MaxResponse = 2
    Answers <- SomeAnswers
    MaxChanges = 1
    Start = home
    Links <- SomeLinks
    Claims <- SomeClaims
    Traffic <- SomeTraffic
    Resources <- SomeResources
    Ids = {"10000001", "10000002"}
    Identities = {"a", "b"}
    Bearers = {"a"}
    Approved = {"credentialed_cors", "readonly_idor", "jwt_integrity", "security_headers_cookie", "anonymous_authenticated_diff", "open_redirect"}
    Batches <- SomeBatches
    MaxRounds = 2
CHECK_DEADLOCK FALSE
INVARIANTS ChecksAreFunded BudgetIsKept
PROPERTIES OnlyAuthorizedIsSent ConfirmedOnFullCourse RunEnds
