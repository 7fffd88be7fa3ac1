SPECIFICATION SourcesSpec
CONSTANTS
    f1 = f1
    f2 = f2
    e1 = e1
    e2 = e2
    k1 = k1
    k2 = k2
    c1 = c1
    c2 = c2
    FindingIds = {f1, f2}
    EvidenceIds = {e1, e2}
    Checks = {k1, k2}
    RuleKeys = {"rule", "other"}
    VerifierKeys = {"verifier"}
    NoFinding = NoFinding
    NoCheck = NoCheck
    NoKey = "none"
    Calls = {c1, c2}
    NoCall = NoCall
    Providers = {"p", "q"}
    Policies <- SomePolicies
    Captures <- SomeCaptures
    Answers <- SomeAnswers
    Fixed = 12
    Marker = 1
    Step = 2
    MaxEdits = 2
    Conditions <- SomeConditions
    Confidences = {90}
    Exchanges <- SomeExchanges
    Rests <- SomeRests
    Jsons = {"none", "a"}
SYMMETRY Symmetry
CHECK_DEADLOCK FALSE
INVARIANTS ConfirmedIsSupported VerifierAuthority OutgoingIsApproved HypothesesAreGrounded AnalysisAgrees HitsOutliveTheCut
PROPERTIES MachineRespectsReview AuditedIsKept
