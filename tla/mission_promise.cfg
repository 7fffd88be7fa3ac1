SPECIFICATION FairSpec
CONSTANTS
    m1 = m1
    m2 = m2
    r1 = r1
    r2 = r2
    c1 = c1
    c2 = c2
    probe = probe
    recipe = recipe
    Tools = {recipe}
    ManualTools = {recipe}
    MaxConfirms = 1
    Missions = {m1}
    Runs = {r1}
    Callers = {c1}
    Profiles <- OneProfile
    Contracts = {k1, k2}
    FollowUps = {m1}
    MaxRounds = 2
    NoMission = NoMission
    NoRun = NoRun
    NoContract = NoContract
CHECK_DEADLOCK FALSE
PROPERTIES KeepsPromise SlotIsFreed
