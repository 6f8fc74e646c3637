SPECIFICATION LiveSpec
CONSTANTS
    main = main
    delegate = delegate
    detached = detached
    None = None
    Fiber = {main, delegate, detached}
    Parent <- Parents
    Interactive = {main}
    Background = {detached}
    Limited = {main}
    MaxInputs = 2
    MaxCalls = 2
    MaxAsks = 1
INVARIANTS
    TypeOK
    CompletionKept
    NoAbandonedParent
PROPERTIES
    MailIsRead
    ComesToRest
CHECK_DEADLOCK FALSE
