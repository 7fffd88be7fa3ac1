SPECIFICATION Spec
CONSTANTS
    q1 = q1
    q2 = q2
    s1 = s1
    s2 = s2
    hidden = hidden
    recipe = recipe
    Requests = {q1, q2}
    Sessions = {s1, s2, hidden}
    Hidden = {hidden}
    Actions = {recipe}
    NoSession = NoSession
    NoRequest = NoRequest
    NoAction = NoAction
SYMMETRY Symmetry
INVARIANTS InFlightIsSafe AuditBeforeNetwork TruthfulResult LinkedIsKept
