SPECIFICATION Spec
CONSTANTS
    a = a
    b = b
    m = m
    f1 = f1
    Root = Root
    AiKeys = {a, b}
    ManualKeys = {m}
    Texts = {"old", "new"}
    NewTexts = {"new"}
    Findings = {f1}
    Outputs <- SomeOutputs
    Edits <- SomeEdits
    Moves = {"in_progress"}
    MaxDepth = 2
    MaxNodes = 3
    MaxRevision = 3
    MaxProposals = 2
    MaxEvidence = 1
CHECK_DEADLOCK FALSE
INVARIANTS PlanShape PendingHasSeenEvidence
PROPERTIES HumanWorkKept MergeIsReviewed
