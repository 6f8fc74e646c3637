SPECIFICATION FairSpec
CONSTANTS
    a1 = a1
    a2 = a2
    t1 = t1
    t2 = t2
    NoTurn = NoTurn
    Actors = {a1}
    TurnIds = {t1, t2}
    ActorOf <- OneActor
    Compatibility = {t2}
    Timed = {t1}
    HumanWaits = {"root"}
    MaxOutstanding = 2
    MaxQueued = 1
INVARIANTS
    TypeOK
    NoSilentStall
    NoLostTurn
    ActiveTurnIsReachable
    NoForgottenAnswer
PROPERTIES
    SucceededMeansSettled
    TerminalIsFinal
    CancelSettles
    EveryTurnSettles
    ShutdownCompletes
CHECK_DEADLOCK FALSE
