SPECIFICATION Spec
CONSTANTS
    a1 = a1
    a2 = a2
    t1 = t1
    t2 = t2
    NoTurn = NoTurn
    Actors = {a1, a2}
    TurnIds = {t1, t2}
    ActorOf <- TwoActors
    Compatibility = {}
    Timed = {}
    HumanWaits = {"root"}
    MaxOutstanding = 2
    MaxQueued = 1
INVARIANT NoForgottenAnswer
CHECK_DEADLOCK FALSE
