SPECIFICATION Spec
CONSTANTS
    m1 = m1
    m2 = m2
    r1 = r1
    r2 = r2
    c1 = c1
    c2 = c2
    probe = probe
    recipe = recipe
    Tools = {probe, recipe}
    ManualTools = {recipe}
    MaxConfirms = 2
    Missions = {m1}
    Runs = {r1, r2}
    Callers = {c1}
    Profiles <- TwoProfiles
    Contracts = {k1}
    FollowUps = {}
    MaxRounds = 1
    NoMission = NoMission
    NoRun = NoRun
    NoContract = NoContract
SYMMETRY Symmetry
CHECK_DEADLOCK FALSE
INVARIANTS ApprovalAgreement HandoffAgreement
PROPERTIES BootRecovers
