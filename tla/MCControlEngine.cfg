SPECIFICATION Spec
CONSTANTS
    e1 = e1
    h1 = h1
    h2 = h2
    c1 = c1
    c2 = c2
    Effects = {e1}
    HandlerKeys = {"known", "removed"}
    Handlers = {"known"}
    Heads = {h1, h2}
    Cohorts = {c1, c2}
    HeadsOf <- MCHeadsOf
    HeadSequences = {1}
    Budgets = {1, 9}
    MaxQueued = 3
INVARIANTS
    TypeOK
    NoStrandedCohort
    NoDanglingRequest
    CleanMeansClean
    WriteAhead
PROPERTY IdleIsSettled

