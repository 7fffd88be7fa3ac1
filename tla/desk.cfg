SPECIFICATION ReportSpec
CONSTANTS
    f1 = f1
    e1 = e1
    e2 = e2
    k1 = k1
    FindingIds = {f1}
    EvidenceIds = {e1, e2}
    Checks = {k1}
    RuleKeys = {"rule"}
    VerifierKeys = {"verifier"}
    NoFinding = NoFinding
    NoCheck = NoCheck
    NoKey = "none"
    Scopes = {"project", "run"}
    FromTraffic = {e1}
    MaxAttempts = 2
    MaxWrites = 2
    MaxForeign = 1
CHECK_DEADLOCK FALSE
INVARIANTS CalmReportIsComplete ReportIsSound PairIsWhole
