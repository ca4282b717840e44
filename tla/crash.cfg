CONSTANTS
    Channels = {c1, c2}
    Transcribers = {t1, t2}
    Clients = {a1}
    Tick = Tick
    None = None
    Forces = {TRUE}
    Limit <- CrashLimit
SPECIFICATION SteadySpec
SYMMETRY Symmetry
INVARIANTS IdleMeansNoStream OwnerMatchesStream LiveStreamIsActive
CHECK_DEADLOCK FALSE
